-------------------------- MODULE BoardStoreProofs --------------------------
(***************************************************************************)
(* BoardStore is type-correct and safe for every value of its constants:   *)
(* its journal as a sequence of edits, what each action changes, the       *)
(* inductive invariant, what follows from it, and the refinement of        *)
(* DurableLog.                                                             *)
(***************************************************************************)
EXTENDS BoardStoreInvariant, SequenceLemmas

-----------------------------------------------------------------------------
(* The journal as a sequence of edits *)

LEMMA EditsOfType ==
  ASSUME NEW j \in Seq(Members)
  PROVE  /\ EditsOf(j) \in Seq(Edit)
         /\ Len(EditsOf(j)) = Len(j)
         /\ \A k \in 1..Len(j) : EditsOf(j)[k] = j[k].edit
<1>1. DOMAIN j = 1..Len(j) /\ Len(j) \in Nat BY LenProperties
<1>2. \A k \in 1..Len(j) : j[k] \in Members BY ElementOfSeq
<1>3. EditsOf(j) \in [1..Len(j) -> Edit] BY <1>1, <1>2 DEF EditsOf, Members
<1>4. \A k \in 1..Len(j) : EditsOf(j)[k] = j[k].edit BY <1>1 DEF EditsOf
<1> QED BY <1>1, <1>3, <1>4, FunctionIsSeq

LEMMA EditsOfAppend ==
  ASSUME NEW j \in Seq(Members), NEW r \in Members
  PROVE  EditsOf(Append(j, r)) = Append(EditsOf(j), r.edit)
<1>1. Append(j, r) \in Seq(Members) /\ Len(Append(j, r)) = Len(j) + 1 BY AppendProperties
<1>2. r.edit \in Edit BY DEF Members
<1>3. EditsOf(j) \in Seq(Edit) /\ Len(EditsOf(j)) = Len(j) /\ Len(j) \in Nat
  BY EditsOfType, LenProperties
<1>4. /\ Append(EditsOf(j), r.edit) \in Seq(Edit)
      /\ Len(Append(EditsOf(j), r.edit)) = Len(j) + 1
  BY <1>2, <1>3, AppendProperties
<1>5. EditsOf(Append(j, r)) \in Seq(Edit) /\ Len(EditsOf(Append(j, r))) = Len(j) + 1
  BY <1>1, EditsOfType
<1>6. ASSUME NEW k \in 1..Len(j) + 1
      PROVE  EditsOf(Append(j, r))[k] = Append(EditsOf(j), r.edit)[k]
  <2>1. EditsOf(Append(j, r))[k] = Append(j, r)[k].edit BY <1>1, EditsOfType
  <2>2. CASE k \in 1..Len(j)
    <3>1. Append(j, r)[k] = j[k] BY <2>2, AppendProperties
    <3>2. Append(EditsOf(j), r.edit)[k] = j[k].edit
      BY <2>2, <1>2, <1>3, EditsOfType, AppendProperties
    <3> QED BY <2>1, <3>1, <3>2
  <2>3. CASE k = Len(j) + 1
    <3>1. Append(j, r)[k] = r BY <2>3, AppendProperties
    <3>2. Append(EditsOf(j), r.edit)[k] = r.edit BY <2>3, <1>2, <1>3, AppendProperties
    <3> QED BY <2>1, <3>1, <3>2
  <2> QED BY <1>3, <2>2, <2>3
<1> QED BY <1>4, <1>5, <1>6, SeqEqual

LEMMA EditsOfInitialPart ==
  ASSUME NEW j \in Seq(Members), NEW n \in 0..Len(j)
  PROVE  /\ EditsOf(SubSeq(j, 1, n)) \in Seq(Edit)
         /\ IsPrefix(EditsOf(SubSeq(j, 1, n)), EditsOf(j))
<1> DEFINE p == SubSeq(j, 1, n)
<1>1. p \in Seq(Members) /\ Len(p) = n /\ \A k \in 1..n : p[k] = j[k] BY InitialPart
<1> HIDE DEF p
<1>2. /\ EditsOf(p) \in Seq(Edit) /\ Len(EditsOf(p)) = n
      /\ \A k \in 1..n : EditsOf(p)[k] = p[k].edit BY <1>1, EditsOfType
<1>3. /\ EditsOf(j) \in Seq(Edit) /\ Len(EditsOf(j)) = Len(j) /\ Len(j) \in Nat
      /\ \A k \in 1..Len(j) : EditsOf(j)[k] = j[k].edit BY EditsOfType, LenProperties
<1>4. /\ Len(EditsOf(p)) <= Len(EditsOf(j))
      /\ \A k \in 1..Len(EditsOf(p)) : EditsOf(p)[k] = EditsOf(j)[k]
  BY <1>1, <1>2, <1>3
<1>5. IsPrefix(EditsOf(p), EditsOf(j)) BY <1>2, <1>3, <1>4, PrefixByElements
<1> QED BY <1>2, <1>5 DEF p

LEMMA CheckpointType ==
  ASSUME journal \in Seq(Members), NEW s \in Seq(Edit), Len(journal) < Len(s)
  PROVE  /\ Checkpoint(s) \in Seq(Members)
         /\ Len(Checkpoint(s)) = Len(s) - Len(journal)
         /\ \A k \in 1..(Len(s) - Len(journal)) :
              /\ Checkpoint(s)[k].seq = Len(journal) + k
              /\ Checkpoint(s)[k].edit = s[Len(journal) + k]
<1> DEFINE n == Len(s) - Len(journal)
<1>1. n \in Nat /\ Len(journal) \in Nat BY LenProperties
<1>2. \A k \in 1..n : Len(journal) + k \in 1..Len(s) BY <1>1
<1>3. \A k \in 1..n : s[Len(journal) + k] \in Edit BY <1>2, ElementOfSeq
<1>4. \A k \in 1..n : [seq |-> Len(journal) + k, edit |-> s[Len(journal) + k]] \in Members
  BY <1>1, <1>3 DEF Members
<1>5. Checkpoint(s) \in [1..n -> Members] BY <1>4 DEF Checkpoint
<1>6. \A k \in 1..n :
        Checkpoint(s)[k] = [seq |-> Len(journal) + k, edit |-> s[Len(journal) + k]]
  BY DEF Checkpoint
<1> QED BY <1>1, <1>5, <1>6, FunctionIsSeq

\* With its checkpoint a journal holds exactly the edits of the snapshot.
LEMMA CheckpointIsSnapshot ==
  ASSUME journal \in Seq(Members), NEW s \in Seq(Edit), Len(journal) < Len(s),
         IsPrefix(EditsOf(journal), s)
  PROVE  /\ journal \o Checkpoint(s) \in Seq(Members)
         /\ Len(journal \o Checkpoint(s)) = Len(s)
         /\ EditsOf(journal \o Checkpoint(s)) = s
         /\ Readable => \A k \in 1..Len(s) : (journal \o Checkpoint(s))[k].seq = k
<1> DEFINE c == Checkpoint(s)
           j == journal \o c
<1>1. Len(journal) \in Nat /\ Len(s) \in Nat /\ DOMAIN journal = 1..Len(journal)
  BY LenProperties
<1>2. /\ c \in Seq(Members) /\ Len(c) = Len(s) - Len(journal)
      /\ \A k \in 1..Len(c) : c[k].seq = Len(journal) + k /\ c[k].edit = s[Len(journal) + k]
  BY CheckpointType
<1> HIDE DEF c
<1>3. /\ j \in Seq(Members) /\ Len(j) = Len(s)
      /\ \A k \in 1..Len(s) :
           j[k] = IF k <= Len(journal) THEN journal[k] ELSE c[k - Len(journal)]
  BY <1>1, <1>2, ConcatProperties
<1>4. \A k \in 1..Len(journal) : journal[k].edit = s[k]
  <2>1. /\ EditsOf(journal) \in Seq(Edit) /\ Len(EditsOf(journal)) = Len(journal)
        /\ \A k \in 1..Len(journal) : EditsOf(journal)[k] = journal[k].edit
    BY EditsOfType
  <2>2. \A k \in 1..Len(EditsOf(journal)) : EditsOf(journal)[k] = s[k]
    BY <2>1, PrefixByElements
  <2> QED BY <2>1, <2>2
<1>5. ASSUME NEW k \in 1..Len(s), k > Len(journal)
      PROVE  j[k].edit = s[k] /\ j[k].seq = k
  <2>1. k - Len(journal) \in 1..Len(c) /\ Len(journal) + (k - Len(journal)) = k
    BY <1>1, <1>2, <1>5
  <2>2. j[k] = c[k - Len(journal)] BY <1>1, <1>3, <1>5
  <2> QED BY <1>2, <2>1, <2>2
<1>6. ASSUME NEW k \in 1..Len(s), k <= Len(journal)
      PROVE  j[k] = journal[k] /\ k \in 1..Len(journal)
  BY <1>1, <1>3, <1>6
<1> HIDE DEF j
<1>7. EditsOf(j) = s
  <2>1. /\ EditsOf(j) \in Seq(Edit) /\ Len(EditsOf(j)) = Len(s)
        /\ \A k \in 1..Len(s) : EditsOf(j)[k] = j[k].edit
    BY <1>3, EditsOfType
  <2>2. \A k \in 1..Len(s) : EditsOf(j)[k] = s[k] BY <1>1, <1>4, <1>5, <1>6, <2>1
  <2> QED BY <2>1, <2>2, SeqEqual
<1>8. Readable => \A k \in 1..Len(s) : j[k].seq = k
  BY <1>1, <1>5, <1>6 DEF Readable
<1> QED BY <1>3, <1>7, <1>8 DEF j, c


-----------------------------------------------------------------------------
(* Which actions change what *)

LEMMA Frame ==
  ASSUME [Next]_vars
  PROVE
  /\ \/ UNCHANGED journal
     \/ \E i \in Instance : LoadJournal(i) \/ AppendWrite(i)
     \/ Crash
  /\ \/ UNCHANGED <<tail, late>>
     \/ \E i \in Instance : LoadJournal(i) \/ AppendWrite(i) \/ AppendFail(i)
     \/ Crash
  /\ \/ UNCHANGED synced
     \/ \E i \in Instance : LoadJournal(i) \/ AppendSync(i)
  /\ \/ UNCHANGED <<svg, backup>>
     \/ \E i \in Instance : LoadSvg(i)
     \/ StageSnapshot \/ PublishSnapshot
  /\ \/ UNCHANGED log
     \/ \E i \in Instance : LoadSvg(i) \/ MisreadSvg(i) \/ LoadJournal(i) \/ Apply(i)
  /\ \/ UNCHANGED status
     \/ \E i \in Instance : StartLoad(i) \/ LoadSvg(i) \/ MisreadSvg(i) \/ LoadJournal(i) \/
        LoadFails(i)
     \/ Crash
  /\ \/ UNCHANGED disposed
     \/ \E i \in Instance : AppendFail(i) \/ ResumeUnload(i)
     \/ DropStale \/ Crash
  /\ \/ UNCHANGED loadedBoard
     \/ \E i \in Instance : StartLoad(i) \/ ResumeUnload(i)
     \/ DropStale \/ Crash
  /\ \/ UNCHANGED journalFailed
     \/ \E i \in Instance : Apply(i) \/ AppendFail(i)
  /\ \/ UNCHANGED task
     \/ \E i \in Instance : Begin(i) \/ Refuse(i) \/ Apply(i) \/ AppendWrite(i) \/ AppendSync(i)
        \/ AppendFail(i)
     \/ Crash
  /\ \/ UNCHANGED outcome
     \/ \E i \in Instance : Begin(i) \/ Refuse(i) \/ Apply(i) \/ AppendSync(i) \/ AppendFail(i)
        \/ (\E e \in Edit : Submit(e, i))
     \/ Crash
  /\ \/ UNCHANGED job
     \/ StartSave \/ TakeSnapshot \/ StageSnapshot \/ PublishSnapshot \/ FinishSave \/ DropStale
        \/ SaveFail \/ Crash
  /\ \/ UNCHANGED reader
     \/ \E i \in Instance : LoadJournal(i)
  /\ \/ UNCHANGED orphans
     \/ \E i \in Instance : ResumeUnload(i)
  /\ \/ UNCHANGED misread
     \/ \E i \in Instance : MisreadSvg(i)
<1> USE DEF files, session, saving, unloads, ghosts, vars, Dispose, Rearm, DelaySave,
            CutTornMember, EndSave
<1>1. \/ UNCHANGED journal
      \/ \E i \in Instance : LoadJournal(i) \/ AppendWrite(i)
      \/ Crash
  BY DEF Next, StartLoad, LoadSvg, MisreadSvg, LoadFails, Begin, Refuse, Apply, AppendSync,
         AppendFail, ResumeUnload, TimerFires, Admit, Submit, Join, Leave, Closed, RetryUnload,
         StartSave, TakeSnapshot, StageSnapshot, PublishSnapshot, FinishSave, DropStale,
         SaveFail
<1>2. \/ UNCHANGED <<tail, late>>
      \/ \E i \in Instance : LoadJournal(i) \/ AppendWrite(i) \/ AppendFail(i)
      \/ Crash
  BY DEF Next, StartLoad, LoadSvg, MisreadSvg, LoadFails, Begin, Refuse, Apply, AppendSync,
         ResumeUnload, TimerFires, Admit, Submit, Join, Leave, Closed, RetryUnload, StartSave,
         TakeSnapshot, StageSnapshot, PublishSnapshot, FinishSave, DropStale, SaveFail
<1>3. \/ UNCHANGED synced
      \/ \E i \in Instance : LoadJournal(i) \/ AppendSync(i)
  BY DEF Next, StartLoad, LoadSvg, MisreadSvg, LoadFails, Begin, Refuse, Apply, AppendWrite,
         AppendFail, ResumeUnload, TimerFires, Admit, Submit, Join, Leave, Closed, RetryUnload,
         StartSave, TakeSnapshot, StageSnapshot, PublishSnapshot, FinishSave, DropStale,
         SaveFail, Crash
<1>4. \/ UNCHANGED <<svg, backup>>
      \/ \E i \in Instance : LoadSvg(i)
      \/ StageSnapshot \/ PublishSnapshot
  <2>1. ASSUME NEW i \in Instance,
               StartLoad(i) \/ MisreadSvg(i) \/ LoadJournal(i) \/ LoadFails(i) \/ Begin(i)
               \/ Refuse(i) \/ Apply(i) \/ AppendWrite(i) \/ AppendSync(i) \/ AppendFail(i)
        PROVE  UNCHANGED <<svg, backup>>
    BY <2>1 DEF StartLoad, MisreadSvg, LoadJournal, LoadFails, Begin, Refuse, Apply,
                AppendWrite, AppendSync, AppendFail
  <2>2. ASSUME NEW i \in Instance,
               ResumeUnload(i) \/ TimerFires(i) \/ (\E s \in Socket : Admit(s, i))
               \/ (\E e \in Edit : Submit(e, i))
        PROVE  UNCHANGED <<svg, backup>>
    BY <2>2 DEF ResumeUnload, TimerFires, Admit, Submit
  <2>3. ASSUME \/ \E s \in Socket : Join(s) \/ Leave(s) \/ Closed(s)
               \/ RetryUnload \/ StartSave \/ TakeSnapshot \/ FinishSave \/ DropStale
               \/ SaveFail \/ Crash \/ UNCHANGED vars
        PROVE  UNCHANGED <<svg, backup>>
    BY <2>3 DEF Join, Leave, Closed, RetryUnload, StartSave, TakeSnapshot, FinishSave,
                DropStale, SaveFail, Crash
  <2> QED BY <2>1, <2>2, <2>3 DEF Next
<1>5. \/ UNCHANGED log
      \/ \E i \in Instance : LoadSvg(i) \/ MisreadSvg(i) \/ LoadJournal(i) \/ Apply(i)
  BY DEF Next, StartLoad, LoadFails, Begin, Refuse, AppendWrite, AppendSync, AppendFail,
         ResumeUnload, TimerFires, Admit, Submit, Join, Leave, Closed, RetryUnload, StartSave,
         TakeSnapshot, StageSnapshot, PublishSnapshot, FinishSave, DropStale, SaveFail, Crash
<1>6. \/ UNCHANGED status
      \/ \E i \in Instance : StartLoad(i) \/ LoadSvg(i) \/ MisreadSvg(i) \/ LoadJournal(i) \/
         LoadFails(i)
      \/ Crash
  BY DEF Next, Begin, Refuse, Apply, AppendWrite, AppendSync, AppendFail, ResumeUnload,
         TimerFires, Admit, Submit, Join, Leave, Closed, RetryUnload, StartSave, TakeSnapshot,
         StageSnapshot, PublishSnapshot, FinishSave, DropStale, SaveFail
<1>7. \/ UNCHANGED disposed
      \/ \E i \in Instance : AppendFail(i) \/ ResumeUnload(i)
      \/ DropStale \/ Crash
  BY DEF Next, StartLoad, LoadSvg, MisreadSvg, LoadJournal, LoadFails, Begin, Refuse, Apply,
         AppendWrite, AppendSync, TimerFires, Admit, Submit, Join, Leave, Closed, RetryUnload,
         StartSave, TakeSnapshot, StageSnapshot, PublishSnapshot, FinishSave, SaveFail
<1>8. \/ UNCHANGED loadedBoard
      \/ \E i \in Instance : StartLoad(i) \/ ResumeUnload(i)
      \/ DropStale \/ Crash
  BY DEF Next, LoadSvg, MisreadSvg, LoadJournal, LoadFails, Begin, Refuse, Apply, AppendWrite,
         AppendSync, AppendFail, TimerFires, Admit, Submit, Join, Leave, Closed, RetryUnload,
         StartSave, TakeSnapshot, StageSnapshot, PublishSnapshot, FinishSave, SaveFail
<1>9. \/ UNCHANGED journalFailed
      \/ \E i \in Instance : Apply(i) \/ AppendFail(i)
  BY DEF Next, StartLoad, LoadSvg, MisreadSvg, LoadJournal, LoadFails, Begin, Refuse,
         AppendWrite, AppendSync, ResumeUnload, TimerFires, Admit, Submit, Join, Leave, Closed,
         RetryUnload, StartSave, TakeSnapshot, StageSnapshot, PublishSnapshot, FinishSave,
         DropStale, SaveFail, Crash
<1>10. \/ UNCHANGED task
       \/ \E i \in Instance : Begin(i) \/ Refuse(i) \/ Apply(i) \/ AppendWrite(i) \/
          AppendSync(i) \/ AppendFail(i)
       \/ Crash
  BY DEF Next, StartLoad, LoadSvg, MisreadSvg, LoadJournal, LoadFails, ResumeUnload, TimerFires,
         Admit, Submit, Join, Leave, Closed, RetryUnload, StartSave, TakeSnapshot,
         StageSnapshot, PublishSnapshot, FinishSave, DropStale, SaveFail
<1>11. \/ UNCHANGED outcome
       \/ \E i \in Instance : Begin(i) \/ Refuse(i) \/ Apply(i) \/ AppendSync(i) \/
          AppendFail(i) \/ (\E e \in Edit : Submit(e, i))
       \/ Crash
  BY DEF Next, StartLoad, LoadSvg, MisreadSvg, LoadJournal, LoadFails, AppendWrite,
         ResumeUnload, TimerFires, Admit, Join, Leave, Closed, RetryUnload, StartSave,
         TakeSnapshot, StageSnapshot, PublishSnapshot, FinishSave, DropStale, SaveFail
<1>12. \/ UNCHANGED job
       \/ StartSave \/ TakeSnapshot \/ StageSnapshot \/ PublishSnapshot \/ FinishSave \/
          DropStale \/ SaveFail \/ Crash
  BY DEF Next, StartLoad, LoadSvg, MisreadSvg, LoadJournal, LoadFails, Begin, Refuse, Apply,
         AppendWrite, AppendSync, AppendFail, ResumeUnload, TimerFires, Admit, Submit, Join,
         Leave, Closed, RetryUnload
<1>13. \/ UNCHANGED reader
       \/ \E i \in Instance : LoadJournal(i)
  BY DEF Next, StartLoad, LoadSvg, MisreadSvg, LoadFails, Begin, Refuse, Apply, AppendWrite,
         AppendSync, AppendFail, ResumeUnload, TimerFires, Admit, Submit, Join, Leave, Closed,
         RetryUnload, StartSave, TakeSnapshot, StageSnapshot, PublishSnapshot, FinishSave,
         DropStale, SaveFail, Crash
<1>14. \/ UNCHANGED orphans
       \/ \E i \in Instance : ResumeUnload(i)
  BY DEF Next, StartLoad, LoadSvg, MisreadSvg, LoadJournal, LoadFails, Begin, Refuse, Apply,
         AppendWrite, AppendSync, AppendFail, TimerFires, Admit, Submit, Join, Leave, Closed,
         RetryUnload, StartSave, TakeSnapshot, StageSnapshot, PublishSnapshot, FinishSave,
         DropStale, SaveFail, Crash
<1>15. \/ UNCHANGED misread
       \/ \E i \in Instance : MisreadSvg(i)
  BY DEF Next, StartLoad, LoadSvg, LoadJournal, LoadFails, Begin, Refuse, Apply, AppendWrite,
         AppendSync, AppendFail, ResumeUnload, TimerFires, Admit, Submit, Join, Leave, Closed,
         RetryUnload, StartSave, TakeSnapshot, StageSnapshot, PublishSnapshot, FinishSave,
         DropStale, SaveFail, Crash
<1> QED BY <1>1, <1>2, <1>3, <1>4, <1>5, <1>6, <1>7, <1>8, <1>9, <1>10, <1>11, <1>12, <1>13,
           <1>14, <1>15

LEMMA GhostsStep == TypeOK /\ [Next]_vars => GhostsTypeOK'
<1> SUFFICES ASSUME TypeOK, [Next]_vars PROVE GhostsTypeOK'
  OBVIOUS
<1>0. /\ reader \in Instance \union {None} /\ late \subseteq Edit
      /\ orphans \subseteq Instance /\ misread \in BOOLEAN
      /\ loadedBoard \in Instance \union {None} /\ FilesTypeOK /\ InstancesTypeOK
  BY DEF TypeOK, GhostsTypeOK, InstancesTypeOK
<1>1. reader' \in Instance \union {None}
  <2>1. ASSUME NEW i \in Instance, LoadJournal(i) PROVE reader' \in {i, reader}
    BY <2>1 DEF LoadJournal, CutTornMember
  <2> QED BY <1>0, <2>1, Frame
<1>2. late' \subseteq Edit
  <2>1. ASSUME NEW i \in Instance, AppendWrite(i) \/ AppendFail(i) PROVE late' \subseteq Edit
    <3>1. task[i] \in Tasks
      BY <1>0, <2>1 DEF AppendWrite, AppendFail, Appending, InstancesTypeOK
    <3>2. late' \subseteq late \union {task[i].edit}
      BY <2>1 DEF AppendWrite, AppendFail, WritesBy, Dispose
    <3> QED BY <1>0, <3>1, <3>2 DEF Tasks
  <2>2. ASSUME NEW i \in Instance, LoadJournal(i) PROVE late' \subseteq Edit
    <3>1. CASE late' = late BY <1>0, <3>1
    <3>2. CASE /\ Len(log[i]) > Len(journal)
               /\ late' = late \union ToSet(EditsOf(Checkpoint(log[i])))
      <4>1. /\ journal \in Seq(Members) /\ log[i] \in Seq(Edit)
            /\ Len(journal) \in Nat /\ Len(log[i]) \in Nat
        BY <1>0, LenProperties DEF FilesTypeOK, InstancesTypeOK
      <4>2. Checkpoint(log[i]) \in Seq(Members) BY <3>2, <4>1, CheckpointType
      <4>3. EditsOf(Checkpoint(log[i])) \in Seq(Edit) BY <4>2, EditsOfType
      <4>4. ToSet(EditsOf(Checkpoint(log[i]))) \subseteq Edit
        BY <4>3, ElementOfSeq, LenProperties DEF ToSet
      <4> QED BY <1>0, <3>2, <4>4
    <3> QED BY <2>2, <3>1, <3>2 DEF LoadJournal, CutTornMember
  <2>3. ASSUME Crash PROVE late' \subseteq Edit
    <3>1. CASE late' = late BY <1>0, <3>1
    <3>2. ASSUME NEW i \in Writers, WritesBy(i, {task[i].edit}) PROVE late' \subseteq Edit
      <4>1. task[i] \in Tasks BY <1>0, <3>2 DEF Writers, InstancesTypeOK
      <4> QED BY <1>0, <3>2, <4>1 DEF WritesBy, Tasks
    <3> QED BY <2>3, <3>1, <3>2 DEF Crash
  <2> QED BY <1>0, <2>1, <2>2, <2>3, Frame
<1>3. orphans' \subseteq Instance
  <2>1. ASSUME NEW i \in Instance, ResumeUnload(i)
        PROVE  orphans' \subseteq orphans \union ({loadedBoard} \ {i, None})
    BY <2>1 DEF ResumeUnload, Dispose
  <2> QED BY <1>0, <2>1, Frame
<1>4. misread' \in BOOLEAN
  <2>1. ASSUME NEW i \in Instance, MisreadSvg(i) PROVE misread' \in BOOLEAN
    BY <2>1 DEF MisreadSvg
  <2> QED BY <1>0, <2>1, Frame
<1> QED BY <1>1, <1>2, <1>3, <1>4 DEF GhostsTypeOK

-----------------------------------------------------------------------------
(* Type correctness, action by action *)

LEMMA InitTypeOK == Init => TypeOK
<1> SUFFICES ASSUME Init PROVE TypeOK
  OBVIOUS
<1>1. << >> \in Seq(Members) /\ << >> \in Seq(Edit) /\ << >> \in Seq(Saves)
      /\ Len(<< >>) = 0
  BY EmptySeq
<1>2. FilesTypeOK BY <1>1 DEF Init, FilesTypeOK
<1>3. InstancesTypeOK BY <1>1 DEF Init, InstancesTypeOK
<1>4. SavingTypeOK BY <1>1 DEF Init, SavingTypeOK
<1>5. OutsideTypeOK BY ConstantsAssumption DEF Init, OutsideTypeOK, ConstantsAssumption
<1>6. GhostsTypeOK BY DEF Init, GhostsTypeOK
<1> QED BY <1>2, <1>3, <1>4, <1>5, <1>6 DEF TypeOK

LEMMA FaultType ==
  ASSUME OutsideTypeOK, Fault
  PROVE  faults' \in 0..MaxFaults
  BY ConstantsAssumption DEF OutsideTypeOK, Fault, ConstantsAssumption

LEMMA RequestSaveType ==
  ASSUME TypeOK, NEW i \in Instance, NEW by \in {"timer", "unload"}, RequestSave(i, by)
  PROVE  saveQueue' \in Seq(Saves) /\ resuming' \in [Instance -> Nat]
<1>1. [inst |-> i, by |-> by] \in Saves BY DEF Saves
<1>2. saveQueue \in Seq(Saves) /\ resuming \in [Instance -> Nat]
  BY DEF TypeOK, SavingTypeOK
<1>3. Append(saveQueue, [inst |-> i, by |-> by]) \in Seq(Saves)
  BY <1>1, <1>2, AppendProperties
<1>4. [resuming EXCEPT ![i] = @ + 1] \in [Instance -> Nat] BY <1>2
<1> QED BY <1>2, <1>3, <1>4 DEF RequestSave

LEMMA StartUnloadType ==
  ASSUME TypeOK, StartUnload
  PROVE  saveQueue' \in Seq(Saves) /\ resuming' \in [Instance -> Nat]
<1>1. CASE Unloadable = None
  BY <1>1 DEF StartUnload, TypeOK, SavingTypeOK
<1>2. CASE Unloadable # None
  <2>1. loadedBoard \in Instance BY <1>2 DEF Unloadable
  <2>2. RequestSave(loadedBoard, "unload") BY <1>2 DEF StartUnload
  <2> QED BY <2>1, <2>2, RequestSaveType
<1> QED BY <1>1, <1>2

LEMMA StepTypeOK == TypeOK /\ [Next]_vars => TypeOK'
<1> SUFFICES ASSUME TypeOK, [Next]_vars PROVE TypeOK'
  OBVIOUS
<1>0. FilesTypeOK /\ InstancesTypeOK /\ SavingTypeOK /\ OutsideTypeOK /\ GhostsTypeOK'
  BY GhostsStep DEF TypeOK
<1> USE <1>0
<1>1. ASSUME NEW i \in Instance, StartLoad(i) PROVE TypeOK'
  <2>1. FilesTypeOK' BY <1>1 DEF StartLoad, FilesTypeOK, files
  <2>2. InstancesTypeOK' BY <1>1 DEF StartLoad, InstancesTypeOK, session
  <2>3. SavingTypeOK' BY <1>1 DEF StartLoad, SavingTypeOK, saving, unloads
  <2>4. OutsideTypeOK' BY <1>1 DEF StartLoad, OutsideTypeOK
  <2> QED BY <2>1, <2>2, <2>3, <2>4 DEF TypeOK
<1>2. ASSUME NEW i \in Instance, LoadSvg(i) PROVE TypeOK'
  <2>1. FilesTypeOK' BY <1>2 DEF LoadSvg, StoredSvg, FilesTypeOK, files
  <2>2. InstancesTypeOK' BY <1>2 DEF LoadSvg, StoredSvg, InstancesTypeOK, session, FilesTypeOK
  <2>3. SavingTypeOK' BY <1>2 DEF LoadSvg, StoredSvg, SavingTypeOK, saving, unloads
  <2>4. OutsideTypeOK' BY <1>2 DEF LoadSvg, StoredSvg, OutsideTypeOK
  <2> QED BY <2>1, <2>2, <2>3, <2>4 DEF TypeOK
<1>28. ASSUME NEW i \in Instance, MisreadSvg(i) PROVE TypeOK'
  <2>1. FilesTypeOK' BY <1>28 DEF MisreadSvg, FilesTypeOK, files
  <2>2. InstancesTypeOK' BY <1>28, EmptySeq DEF MisreadSvg, InstancesTypeOK, session
  <2>3. SavingTypeOK' BY <1>28 DEF MisreadSvg, SavingTypeOK, saving, unloads
  <2>4. OutsideTypeOK'
    <3>1. faults' \in 0..MaxFaults BY <1>28, FaultType DEF MisreadSvg
    <3> QED BY <1>28, <3>1 DEF MisreadSvg, OutsideTypeOK
  <2> QED BY <2>1, <2>2, <2>3, <2>4 DEF TypeOK
<1>3. ASSUME NEW i \in Instance, LoadJournal(i) PROVE TypeOK'
  <2>1. FilesTypeOK'
    <3>1. journal \in Seq(Members) /\ synced \in 0..Len(journal) /\ log[i] \in Seq(Edit)
      BY DEF FilesTypeOK, InstancesTypeOK
    <3>2. CASE Len(log[i]) <= Len(journal) /\ UNCHANGED <<journal, synced, late>>
      BY <1>3, <3>2 DEF LoadJournal, FilesTypeOK, CutTornMember
    <3>3. CASE /\ Len(log[i]) > Len(journal)
               /\ journal' = journal \o Checkpoint(log[i]) /\ synced' = Len(log[i])
      <4>1. Len(journal) < Len(log[i]) /\ Len(log[i]) \in Nat /\ Len(journal) \in Nat
        BY <3>1, <3>3, LenProperties
      <4>2. /\ Checkpoint(log[i]) \in Seq(Members)
            /\ Len(Checkpoint(log[i])) = Len(log[i]) - Len(journal)
        BY <3>1, <4>1, CheckpointType
      <4>3. journal' \in Seq(Members) /\ Len(journal') = Len(log[i])
        BY <3>1, <3>3, <4>1, <4>2, ConcatProperties
      <4>4. synced' \in 0..Len(journal') BY <3>3, <4>1, <4>3
      <4>5. tail' = "clean" /\ svg' = svg /\ backup' = backup
        BY <1>3 DEF LoadJournal, CutTornMember
      <4> QED BY <4>3, <4>4, <4>5 DEF FilesTypeOK
    <3> QED BY <1>3, <3>2, <3>3 DEF LoadJournal, CutTornMember
  <2>2. InstancesTypeOK'
    <3> DEFINE replay == SubSeq(EditsOf(journal), Len(log[i]) + 1, Len(journal))
    <3>1. /\ EditsOf(journal) \in Seq(Edit) /\ Len(EditsOf(journal)) = Len(journal)
          /\ Len(journal) \in Nat /\ log[i] \in Seq(Edit) /\ Len(log[i]) \in Nat
      BY EditsOfType, LenProperties DEF FilesTypeOK, InstancesTypeOK
    <3>2. replay \in Seq(Edit)
      <4>1. Len(journal) \in 0..Len(EditsOf(journal)) /\ Len(log[i]) + 1 \in Nat \ {0} BY <3>1
      <4> QED BY <3>1, <4>1, SubSeqType
    <3>3. log[i] \o replay \in Seq(Edit) BY <3>1, <3>2, ConcatProperties
    <3>4. log' = log \/ log' = [log EXCEPT ![i] = log[i] \o replay]
      BY <1>3 DEF LoadJournal, Replayed, CutTornMember
    <3> HIDE DEF replay
    <3>5. log' \in [Instance -> Seq(Edit)] BY <3>3, <3>4 DEF InstancesTypeOK
    <3> QED BY <1>3, <3>5 DEF LoadJournal, InstancesTypeOK, session, CutTornMember
  <2>3. SavingTypeOK'
    <3>1. timer' = timer \/ timer' = [timer EXCEPT ![i] = Len(journal) > persistedSeq[i]]
      BY <1>3 DEF LoadJournal, CutTornMember
    <3>2. (Len(journal) > persistedSeq[i]) \in BOOLEAN OBVIOUS
    <3>3. timer' \in [Instance -> BOOLEAN] BY <3>1, <3>2 DEF SavingTypeOK
    <3> QED BY <1>3, <3>3 DEF LoadJournal, SavingTypeOK, unloads, CutTornMember
  <2>4. OutsideTypeOK' BY <1>3 DEF LoadJournal, OutsideTypeOK, CutTornMember
  <2> QED BY <2>1, <2>2, <2>3, <2>4 DEF TypeOK
<1>4. ASSUME NEW i \in Instance, LoadFails(i) PROVE TypeOK'
  <2>1. FilesTypeOK' BY <1>4 DEF LoadFails, FilesTypeOK, files
  <2>2. InstancesTypeOK' BY <1>4 DEF LoadFails, InstancesTypeOK, session
  <2>3. SavingTypeOK' BY <1>4 DEF LoadFails, SavingTypeOK, saving, unloads
  <2>4. OutsideTypeOK'
    <3>1. faults' = faults \/ Fault BY <1>4 DEF LoadFails
    <3>2. faults' \in 0..MaxFaults BY <3>1, FaultType DEF OutsideTypeOK
    <3> QED BY <1>4, <3>2 DEF LoadFails, OutsideTypeOK
  <2> QED BY <2>1, <2>2, <2>3, <2>4 DEF TypeOK
<1>5. ASSUME NEW i \in Instance, Begin(i) PROVE TypeOK'
  <2>1. FilesTypeOK' BY <1>5 DEF Begin, FilesTypeOK, files
  <2>2. InstancesTypeOK'
    <3>1. Head(queue[i]) \in Edit /\ Tail(queue[i]) \in Seq(Edit)
      BY <1>5 DEF Begin, InstancesTypeOK
    <3>2. Task(Head(queue[i]), "prepare") \in Tasks BY <3>1 DEF Task, Tasks
    <3>3. task' \in [Instance -> Tasks \union {None}] BY <1>5, <3>2 DEF Begin, InstancesTypeOK
    <3> QED BY <1>5, <3>1, <3>3 DEF Begin, InstancesTypeOK
  <2>3. SavingTypeOK' BY <1>5 DEF Begin, SavingTypeOK, saving, unloads
  <2>4. OutsideTypeOK' BY <1>5 DEF Begin, OutsideTypeOK, InstancesTypeOK
  <2> QED BY <2>1, <2>2, <2>3, <2>4 DEF TypeOK
<1>6. ASSUME NEW i \in Instance, Refuse(i) PROVE TypeOK'
  <2>1. FilesTypeOK' BY <1>6 DEF Refuse, FilesTypeOK, files
  <2>2. InstancesTypeOK' BY <1>6 DEF Refuse, InstancesTypeOK, session
  <2>3. SavingTypeOK' BY <1>6 DEF Refuse, SavingTypeOK, saving, unloads
  <2>4. OutsideTypeOK' BY <1>6 DEF Refuse, OutsideTypeOK, InstancesTypeOK, Tasks
  <2> QED BY <2>1, <2>2, <2>3, <2>4 DEF TypeOK
<1>7. ASSUME NEW i \in Instance, Apply(i) PROVE TypeOK'
  <2>1. FilesTypeOK' BY <1>7 DEF Apply, FilesTypeOK, files
  <2>2. InstancesTypeOK'
    <3>1. task[i] \in Tasks BY <1>7 DEF Apply, InstancesTypeOK
    <3>2. [task[i] EXCEPT !.phase = "write"] \in Tasks BY <3>1 DEF Tasks
    <3>3. Append(log[i], task[i].edit) \in Seq(Edit) BY <3>1 DEF Tasks, InstancesTypeOK
    <3>4. task' \in [Instance -> Tasks \union {None}]
      BY <1>7, <3>2 DEF Apply, InstancesTypeOK
    <3> QED BY <1>7, <3>3, <3>4 DEF Apply, InstancesTypeOK
  <2>3. SavingTypeOK'
    BY <1>7 DEF Apply, DelaySave, SavingTypeOK, saving, unloads, InstancesTypeOK, Saving
  <2>4. OutsideTypeOK' BY <1>7 DEF Apply, OutsideTypeOK, InstancesTypeOK, Tasks
  <2> QED BY <2>1, <2>2, <2>3, <2>4 DEF TypeOK
<1>8. ASSUME NEW i \in Instance, AppendWrite(i) PROVE TypeOK'
  <2>1. FilesTypeOK'
    <3> DEFINE r == [seq |-> Len(log[i]), edit |-> task[i].edit]
    <3>1. task[i] \in Tasks /\ r \in Members
      BY <1>8 DEF AppendWrite, InstancesTypeOK, Tasks, Members
    <3>2. CASE tail = "clean"
      <4>1. journal' = Append(journal, r) /\ UNCHANGED <<synced, tail, svg, backup>>
        BY <1>8, <3>2 DEF AppendWrite
      <4>2. journal' \in Seq(Members) /\ Len(journal') = Len(journal) + 1
        BY <3>1, <4>1, AppendProperties DEF FilesTypeOK
      <4> QED BY <4>1, <4>2, LenProperties DEF FilesTypeOK
    <3>3. CASE tail # "clean" BY <1>8, <3>3 DEF AppendWrite, FilesTypeOK
    <3> QED BY <3>2, <3>3
  <2>2. InstancesTypeOK'
    <3>1. task[i] \in Tasks BY <1>8 DEF AppendWrite, InstancesTypeOK
    <3>2. [task[i] EXCEPT !.phase = "sync"] \in Tasks BY <3>1 DEF Tasks
    <3> QED BY <1>8, <3>2 DEF AppendWrite, InstancesTypeOK, session
  <2>3. SavingTypeOK' BY <1>8 DEF AppendWrite, SavingTypeOK, saving, unloads
  <2>4. OutsideTypeOK' BY <1>8 DEF AppendWrite, OutsideTypeOK
  <2> QED BY <2>1, <2>2, <2>3, <2>4 DEF TypeOK
<1>9. ASSUME NEW i \in Instance, AppendSync(i) PROVE TypeOK'
  <2>1. FilesTypeOK' BY <1>9 DEF AppendSync, FilesTypeOK, files
  <2>2. InstancesTypeOK' BY <1>9 DEF AppendSync, InstancesTypeOK, session
  <2>3. SavingTypeOK' BY <1>9 DEF AppendSync, SavingTypeOK, saving, unloads
  <2>4. OutsideTypeOK' BY <1>9 DEF AppendSync, OutsideTypeOK, InstancesTypeOK, Tasks
  <2> QED BY <2>1, <2>2, <2>3, <2>4 DEF TypeOK
<1>10. ASSUME NEW i \in Instance, AppendFail(i) PROVE TypeOK'
  <2>1. FilesTypeOK' BY <1>10 DEF AppendFail, FilesTypeOK, files, Dispose, TornAt
  <2>2. InstancesTypeOK' BY <1>10 DEF AppendFail, InstancesTypeOK, session, Dispose
  <2>3. SavingTypeOK' BY <1>10 DEF AppendFail, SavingTypeOK, saving, unloads, Dispose
  <2>4. OutsideTypeOK'
    <3>1. faults' = faults \/ Fault BY <1>10 DEF AppendFail, Dispose
    <3>2. faults' \in 0..MaxFaults BY <3>1, FaultType DEF OutsideTypeOK
    <3> QED
      BY <1>10, <3>2 DEF AppendFail, OutsideTypeOK, Appending, InstancesTypeOK, Tasks, Dispose
  <2> QED BY <2>1, <2>2, <2>3, <2>4 DEF TypeOK
<1>11. ASSUME NEW i \in Instance, ResumeUnload(i) PROVE TypeOK'
  <2>1. FilesTypeOK' BY <1>11 DEF ResumeUnload, FilesTypeOK, files, Dispose
  <2>2. InstancesTypeOK' BY <1>11 DEF ResumeUnload, InstancesTypeOK, session, Dispose
  <2>3. SavingTypeOK'
    <3>1. resuming' \in [Instance -> Nat] BY <1>11 DEF ResumeUnload, SavingTypeOK, Dispose
    <3>2. timer' \in [Instance -> BOOLEAN] BY <1>11 DEF ResumeUnload, SavingTypeOK, Dispose
    <3>3. retry' \in BOOLEAN BY <1>11 DEF ResumeUnload, SavingTypeOK, Dispose
    <3> QED BY <1>11, <3>1, <3>2, <3>3 DEF ResumeUnload, SavingTypeOK, Dispose
  <2>4. OutsideTypeOK' BY <1>11 DEF ResumeUnload, OutsideTypeOK, Dispose
  <2> QED BY <2>1, <2>2, <2>3, <2>4 DEF TypeOK
<1>12. ASSUME NEW i \in Instance, TimerFires(i) PROVE TypeOK'
  <2>1. FilesTypeOK' BY <1>12 DEF TimerFires, FilesTypeOK, files
  <2>2. InstancesTypeOK' BY <1>12 DEF TimerFires, InstancesTypeOK, session
  <2>3. SavingTypeOK'
    <3>1. CASE Saving(i) BY <1>12, <3>1 DEF TimerFires, SavingTypeOK
    <3>2. CASE ~Saving(i)
      <4>1. RequestSave(i, "timer") BY <1>12, <3>2 DEF TimerFires
      <4>2. saveQueue' \in Seq(Saves) /\ resuming' \in [Instance -> Nat]
        BY <4>1, RequestSaveType DEF TypeOK
      <4> QED BY <1>12, <4>2 DEF TimerFires, SavingTypeOK
    <3> QED BY <3>1, <3>2
  <2>4. OutsideTypeOK' BY <1>12 DEF TimerFires, OutsideTypeOK
  <2> QED BY <2>1, <2>2, <2>3, <2>4 DEF TypeOK
<1>13. ASSUME NEW i \in Instance, NEW s \in Socket, Admit(s, i) PROVE TypeOK'
  <2>1. FilesTypeOK' BY <1>13 DEF Admit, FilesTypeOK, files
  <2>2. InstancesTypeOK' BY <1>13 DEF Admit, InstancesTypeOK, session
  <2>3. SavingTypeOK' BY <1>13 DEF Admit, SavingTypeOK, saving, unloads
  <2>4. OutsideTypeOK' BY <1>13 DEF Admit, OutsideTypeOK
  <2> QED BY <2>1, <2>2, <2>3, <2>4 DEF TypeOK
<1>14. ASSUME NEW i \in Instance, NEW e \in Edit, Submit(e, i) PROVE TypeOK'
  <2>1. FilesTypeOK' BY <1>14 DEF Submit, FilesTypeOK, files
  <2>2. InstancesTypeOK' BY <1>14 DEF Submit, InstancesTypeOK, session
  <2>3. SavingTypeOK' BY <1>14 DEF Submit, SavingTypeOK, saving, unloads
  <2>4. OutsideTypeOK' BY <1>14 DEF Submit, OutsideTypeOK
  <2> QED BY <2>1, <2>2, <2>3, <2>4 DEF TypeOK
<1>15. ASSUME NEW s \in Socket, Join(s) PROVE TypeOK'
  <2>1. FilesTypeOK' BY <1>15 DEF Join, FilesTypeOK, files
  <2>2. InstancesTypeOK' BY <1>15 DEF Join, InstancesTypeOK, session, OutsideTypeOK
  <2>3. SavingTypeOK' BY <1>15 DEF Join, SavingTypeOK, saving, unloads
  <2>4. OutsideTypeOK' BY <1>15 DEF Join, OutsideTypeOK
  <2> QED BY <2>1, <2>2, <2>3, <2>4 DEF TypeOK
<1>16. ASSUME NEW s \in Socket, Leave(s) PROVE TypeOK'
  <2>1. FilesTypeOK' BY <1>16 DEF Leave, FilesTypeOK, files
  <2>2. InstancesTypeOK'
    <3>1. users' = users \/ users' = [users EXCEPT ![loadedBoard] = @ \ {s}] BY <1>16 DEF Leave
    <3>2. users' \in [Instance -> SUBSET Socket] BY <3>1 DEF InstancesTypeOK
    <3>3. UNCHANGED <<loadedBoard, status, disposed, log, persistedSeq, journalFailed, session>>
      BY <1>16 DEF Leave
    <3> QED BY <3>2, <3>3 DEF InstancesTypeOK, session
  <2>3. SavingTypeOK' BY <1>16 DEF Leave, SavingTypeOK, saving, unloads
  <2>4. OutsideTypeOK'
    <3>1. \/ socketState' = [socketState EXCEPT ![s] = "gone"]
          \/ socketState' = [socketState EXCEPT ![s] = "closing"]
      BY <1>16 DEF Leave
    <3>2. boundTo' = boundTo \/ boundTo' = [boundTo EXCEPT ![s] = loadedBoard]
      BY <1>16 DEF Leave
    <3>3. UNCHANGED <<outcome, faults>> BY <1>16 DEF Leave
    <3>4. socketState' \in [Socket -> {"new", "admitted", "in", "closing", "gone"}]
      BY <3>1 DEF OutsideTypeOK
    <3>5. boundTo' \in [Socket -> Instance \union {None}]
      BY <3>2 DEF OutsideTypeOK, InstancesTypeOK
    <3> QED BY <3>3, <3>4, <3>5 DEF OutsideTypeOK
  <2> QED BY <2>1, <2>2, <2>3, <2>4 DEF TypeOK
<1>17. ASSUME NEW s \in Socket, Closed(s) PROVE TypeOK'
  <2>1. FilesTypeOK' BY <1>17 DEF Closed, FilesTypeOK, files
  <2>2. InstancesTypeOK' BY <1>17 DEF Closed, InstancesTypeOK, session
  <2>3. SavingTypeOK'
    <3>1. saveQueue' \in Seq(Saves) /\ resuming' \in [Instance -> Nat]
      BY <1>17, StartUnloadType DEF Closed, TypeOK
    <3> QED BY <1>17, <3>1 DEF Closed, SavingTypeOK
  <2>4. OutsideTypeOK' BY <1>17 DEF Closed, OutsideTypeOK
  <2> QED BY <2>1, <2>2, <2>3, <2>4 DEF TypeOK
<1>18. ASSUME RetryUnload PROVE TypeOK'
  <2>1. FilesTypeOK' BY <1>18 DEF RetryUnload, FilesTypeOK, files
  <2>2. InstancesTypeOK' BY <1>18 DEF RetryUnload, InstancesTypeOK, session
  <2>3. SavingTypeOK'
    <3>1. saveQueue' \in Seq(Saves) /\ resuming' \in [Instance -> Nat]
      BY <1>18, StartUnloadType DEF RetryUnload, TypeOK
    <3> QED BY <1>18, <3>1 DEF RetryUnload, SavingTypeOK
  <2>4. OutsideTypeOK' BY <1>18 DEF RetryUnload, OutsideTypeOK
  <2> QED BY <2>1, <2>2, <2>3, <2>4 DEF TypeOK
<1>19. ASSUME StartSave PROVE TypeOK'
  <2>1. FilesTypeOK' BY <1>19 DEF StartSave, FilesTypeOK, files
  <2>2. InstancesTypeOK' BY <1>19 DEF StartSave, InstancesTypeOK, session
  <2>3. SavingTypeOK'
    <3>1. Head(saveQueue) \in Saves /\ Tail(saveQueue) \in Seq(Saves)
      BY <1>19, HeadTailProperties DEF StartSave, SavingTypeOK
    <3>2. Job(Head(saveQueue).inst, Head(saveQueue).by, "drain", << >>) \in Jobs
      <4>1. << >> \in Seq(Edit) BY EmptySeq
      <4> QED BY <3>1, <4>1 DEF Job, Jobs, Saves
    <3>3. /\ job' = Job(Head(saveQueue).inst, Head(saveQueue).by, "drain", << >>)
          /\ timer' = [timer EXCEPT ![Head(saveQueue).inst] = FALSE]
          /\ saveQueue' = Tail(saveQueue) /\ UNCHANGED <<resuming, retry>>
      BY <1>19 DEF StartSave, unloads
    <3> QED BY <3>1, <3>2, <3>3 DEF SavingTypeOK
  <2>4. OutsideTypeOK' BY <1>19 DEF StartSave, OutsideTypeOK
  <2> QED BY <2>1, <2>2, <2>3, <2>4 DEF TypeOK
<1>20. ASSUME TakeSnapshot PROVE TypeOK'
  <2>1. FilesTypeOK' BY <1>20 DEF TakeSnapshot, FilesTypeOK, files
  <2>2. InstancesTypeOK' BY <1>20 DEF TakeSnapshot, InstancesTypeOK, session
  <2>3. SavingTypeOK'
    <3>1. job \in Jobs BY <1>20 DEF TakeSnapshot, SavingTypeOK
    <3>2. Job(job.inst, job.by, "write", log[job.inst]) \in Jobs
      BY <3>1 DEF Job, Jobs, InstancesTypeOK
    <3>3. job' \in Jobs \union {None} BY <1>20, <3>2 DEF TakeSnapshot, EndSave
    <3>4. resuming' = resuming \/ resuming' = [resuming EXCEPT ![job.inst] = @ + 1]
      BY <1>20 DEF TakeSnapshot, EndSave
    <3>5. resuming' \in [Instance -> Nat] BY <3>1, <3>4 DEF SavingTypeOK, Jobs
    <3>6. UNCHANGED <<timer, saveQueue, retry>> BY <1>20 DEF TakeSnapshot
    <3> QED BY <3>3, <3>5, <3>6 DEF SavingTypeOK
  <2>4. OutsideTypeOK' BY <1>20 DEF TakeSnapshot, OutsideTypeOK
  <2> QED BY <2>1, <2>2, <2>3, <2>4 DEF TypeOK
<1>21. ASSUME StageSnapshot PROVE TypeOK'
  <2>1. FilesTypeOK' BY <1>21 DEF StageSnapshot, FilesTypeOK, files, SavingTypeOK, Jobs
  <2>2. InstancesTypeOK' BY <1>21 DEF StageSnapshot, InstancesTypeOK, session
  <2>3. SavingTypeOK' BY <1>21 DEF StageSnapshot, SavingTypeOK, saving, unloads, Jobs
  <2>4. OutsideTypeOK' BY <1>21 DEF StageSnapshot, OutsideTypeOK
  <2> QED BY <2>1, <2>2, <2>3, <2>4 DEF TypeOK
<1>22. ASSUME PublishSnapshot PROVE TypeOK'
  <2>1. FilesTypeOK' BY <1>22 DEF PublishSnapshot, FilesTypeOK, files
  <2>2. InstancesTypeOK' BY <1>22 DEF PublishSnapshot, InstancesTypeOK, session
  <2>3. SavingTypeOK' BY <1>22 DEF PublishSnapshot, SavingTypeOK, saving, unloads, Jobs
  <2>4. OutsideTypeOK' BY <1>22 DEF PublishSnapshot, OutsideTypeOK
  <2> QED BY <2>1, <2>2, <2>3, <2>4 DEF TypeOK
<1>23. ASSUME FinishSave PROVE TypeOK'
  <2>1. FilesTypeOK' BY <1>23 DEF FinishSave, FilesTypeOK, files, Rearm
  <2>2. InstancesTypeOK'
    <3>1. job \in Jobs BY <1>23 DEF FinishSave, SavingTypeOK, Rearm
    <3>2. Len(job.snap) \in Nat BY <3>1, LenProperties DEF Jobs
    <3>3. persistedSeq' = [persistedSeq EXCEPT ![job.inst] = Len(job.snap)]
      BY <1>23 DEF FinishSave, Rearm
    <3> QED BY <1>23, <3>2, <3>3 DEF FinishSave, InstancesTypeOK, session, Rearm
  <2>3. SavingTypeOK'
    BY <1>23
    DEF FinishSave, EndSave, SavingTypeOK, saving, unloads, InstancesTypeOK, Jobs, Rearm
  <2>4. OutsideTypeOK' BY <1>23 DEF FinishSave, OutsideTypeOK, Rearm
  <2> QED BY <2>1, <2>2, <2>3, <2>4 DEF TypeOK
<1>24. ASSUME DropStale PROVE TypeOK'
  <2>1. FilesTypeOK' BY <1>24 DEF DropStale, FilesTypeOK, files, Dispose
  <2>2. InstancesTypeOK'
    BY <1>24 DEF DropStale, InstancesTypeOK, session, SavingTypeOK, Jobs, Dispose
  <2>3. SavingTypeOK'
    BY <1>24
    DEF DropStale, EndSave, SavingTypeOK, saving, unloads, InstancesTypeOK, Jobs, Dispose
  <2>4. OutsideTypeOK' BY <1>24 DEF DropStale, OutsideTypeOK, Dispose
  <2> QED BY <2>1, <2>2, <2>3, <2>4 DEF TypeOK
<1>25. ASSUME SaveFail PROVE TypeOK'
  <2>1. FilesTypeOK' BY <1>25 DEF SaveFail, FilesTypeOK, files, Rearm
  <2>2. InstancesTypeOK' BY <1>25 DEF SaveFail, InstancesTypeOK, session, Rearm
  <2>3. SavingTypeOK'
    BY <1>25 DEF SaveFail, EndSave, SavingTypeOK, saving, unloads, InstancesTypeOK, Jobs, Rearm
  <2>4. OutsideTypeOK'
    <3>1. faults' = faults \/ Fault BY <1>25 DEF SaveFail, Rearm
    <3>2. faults' \in 0..MaxFaults BY <3>1, FaultType DEF OutsideTypeOK
    <3> QED BY <1>25, <3>2 DEF SaveFail, OutsideTypeOK, Rearm
  <2> QED BY <2>1, <2>2, <2>3, <2>4 DEF TypeOK
<1>26. ASSUME Crash PROVE TypeOK'
  <2>1. FilesTypeOK'
    <3>1. PICK k \in synced..Len(journal) :
            /\ journal' = SubSeq(journal, 1, k)
            /\ tail' \in {"clean", "torn", tail, TornAt(tail)}
      BY <1>26 DEF Crash
    <3>2. k \in 0..Len(journal) BY DEF FilesTypeOK
    <3>3. journal' \in Seq(Members) /\ Len(journal') = k
      BY <3>1, <3>2, InitialPart DEF FilesTypeOK
    <3>4. tail' \in {"clean", "torn", "garbled"} BY <3>1 DEF FilesTypeOK, TornAt
    <3>5. UNCHANGED <<synced, svg, backup>> BY <1>26 DEF Crash
    <3> QED BY <3>2, <3>3, <3>4, <3>5 DEF FilesTypeOK
  <2>2. InstancesTypeOK'
    <3>1. << >> \in Seq(Edit) BY EmptySeq
    <3> QED BY <1>26, <3>1 DEF Crash, InstancesTypeOK
  <2>3. SavingTypeOK'
    <3>1. << >> \in Seq(Saves) BY EmptySeq
    <3> QED BY <1>26, <3>1 DEF Crash, SavingTypeOK
  <2>4. OutsideTypeOK'
    <3>1. faults' = faults \/ Fault BY <1>26 DEF Crash
    <3>2. faults' \in 0..MaxFaults BY <3>1, FaultType DEF OutsideTypeOK
    <3> QED BY <1>26, <3>2 DEF Crash, OutsideTypeOK
  <2> QED BY <2>1, <2>2, <2>3, <2>4 DEF TypeOK
<1>27. CASE UNCHANGED vars
  <2>1. FilesTypeOK' BY <1>27 DEF vars, FilesTypeOK, files
  <2>2. InstancesTypeOK' BY <1>27 DEF vars, InstancesTypeOK, session
  <2>3. SavingTypeOK' BY <1>27 DEF vars, SavingTypeOK, saving, unloads
  <2>4. OutsideTypeOK' BY <1>27 DEF vars, OutsideTypeOK
  <2> QED BY <2>1, <2>2, <2>3, <2>4 DEF TypeOK
<1> QED
  BY <1>1, <1>2, <1>3, <1>4, <1>5, <1>6, <1>7, <1>8, <1>9, <1>10,
     <1>11, <1>12, <1>13, <1>14, <1>15, <1>16, <1>17, <1>18, <1>19, <1>20,
     <1>21, <1>22, <1>23, <1>24, <1>25, <1>26, <1>27, <1>28 DEF Next

\* In every reachable state the variables have their types.
THEOREM TypeCorrect == Spec => []TypeOK
<1>1. Init => TypeOK BY InitTypeOK
<1>2. TypeOK /\ [Next]_vars => TypeOK' BY StepTypeOK
<1> QED BY <1>1, <1>2, PTL DEF Spec

-----------------------------------------------------------------------------
(* The inductive invariant *)

LEMMA HistoryType ==
  ASSUME FilesTypeOK
  PROVE  /\ History \in Seq(Edit) /\ Len(History) = Len(journal) /\ Len(journal) \in Nat
         /\ DOMAIN History = 1..Len(journal) /\ DOMAIN journal = 1..Len(journal)
         /\ \A k \in 1..Len(journal) : History[k] = journal[k].edit
<1>1. /\ History \in Seq(Edit) /\ Len(History) = Len(journal)
      /\ \A k \in 1..Len(journal) : History[k] = journal[k].edit
  BY EditsOfType DEF FilesTypeOK, History
<1>2. Len(journal) \in Nat /\ DOMAIN journal = 1..Len(journal)
  BY LenProperties DEF FilesTypeOK
<1>3. DOMAIN History = 1..Len(journal) BY <1>1, LenProperties
<1> QED BY <1>1, <1>2, <1>3

\* What a request for a save adds to the unloads and to the save queue.
LEMMA RequestSaveEffect ==
  ASSUME TypeOK, NEW i \in Instance, NEW by \in {"timer", "unload"}, RequestSave(i, by)
  PROVE  /\ \A j \in Instance : resuming'[j] > 0 =>
              resuming[j] > 0 \/ (j = i /\ by = "unload")
         /\ \A k \in DOMAIN saveQueue' :
              \/ saveQueue'[k] = [inst |-> i, by |-> by]
              \/ \E l \in DOMAIN saveQueue : saveQueue'[k] = saveQueue[l]
<1>1. saveQueue \in Seq(Saves) /\ resuming \in [Instance -> Nat]
  BY DEF TypeOK, SavingTypeOK
<1>2. CASE UNCHANGED saveQueue BY <1>1, <1>2 DEF RequestSave
<1>3. CASE /\ saveQueue' = Append(saveQueue, [inst |-> i, by |-> by])
           /\ UNCHANGED resuming
  <2>1. [inst |-> i, by |-> by] \in Saves BY DEF Saves
  <2>2. /\ Len(saveQueue) \in Nat /\ DOMAIN saveQueue = 1..Len(saveQueue)
        /\ DOMAIN saveQueue' = 1..Len(saveQueue) + 1
    BY <1>1, <1>3, <2>1, LenProperties, AppendProperties
  <2>3. /\ \A k \in 1..Len(saveQueue) : saveQueue'[k] = saveQueue[k]
        /\ saveQueue'[Len(saveQueue) + 1] = [inst |-> i, by |-> by]
    BY <1>1, <1>3, <2>1, AppendProperties
  <2> QED BY <1>3, <2>2, <2>3
<1> QED BY <1>2, <1>3 DEF RequestSave

LEMMA StartUnloadEffect ==
  ASSUME TypeOK, StartUnload
  PROVE  /\ \A j \in Instance : resuming'[j] > 0 =>
              resuming[j] > 0 \/ (j = loadedBoard /\ status[j] = "ready")
         /\ \A k \in DOMAIN saveQueue' :
              \/ \E l \in DOMAIN saveQueue : saveQueue'[k] = saveQueue[l]
              \/ /\ loadedBoard \in Instance /\ status[loadedBoard] = "ready"
                 /\ saveQueue'[k] = [inst |-> loadedBoard, by |-> "unload"]
<1>1. CASE Unloadable = None BY <1>1 DEF StartUnload
<1>2. CASE Unloadable # None
  <2>1. loadedBoard \in Instance /\ status[loadedBoard] = "ready" BY <1>2 DEF Unloadable
  <2>2. RequestSave(loadedBoard, "unload") BY <1>2 DEF StartUnload
  <2> QED BY <2>1, <2>2, RequestSaveEffect
<1> QED BY <1>1, <1>2

LEMMA StartSaveEffect ==
  ASSUME TypeOK, StartSave
  PROVE  /\ \A k \in DOMAIN saveQueue' :
              \E l \in DOMAIN saveQueue : saveQueue'[k] = saveQueue[l]
         /\ \E l \in DOMAIN saveQueue :
              job' = Job(saveQueue[l].inst, saveQueue[l].by, "drain", << >>)
<1>1. saveQueue \in Seq(Saves) /\ saveQueue # << >> BY DEF TypeOK, SavingTypeOK, StartSave
<1>2. /\ Len(saveQueue) \in Nat \ {0} /\ DOMAIN saveQueue = 1..Len(saveQueue)
  BY <1>1, LenProperties, EmptySeq
<1>3. /\ Tail(saveQueue) \in Seq(Saves) /\ Len(Tail(saveQueue)) = Len(saveQueue) - 1
      /\ \A k \in 1..Len(Tail(saveQueue)) : Tail(saveQueue)[k] = saveQueue[k + 1]
  BY <1>1, HeadTailProperties
<1>4. DOMAIN Tail(saveQueue) = 1..Len(saveQueue) - 1 BY <1>2, <1>3, LenProperties
<1>5. \A k \in 1..Len(saveQueue) - 1 :
        k + 1 \in 1..Len(saveQueue) /\ Tail(saveQueue)[k] = saveQueue[k + 1]
  BY <1>2, <1>3
<1>6. Head(saveQueue) = saveQueue[1] /\ 1 \in 1..Len(saveQueue) BY <1>1, <1>2
<1>7. /\ saveQueue' = Tail(saveQueue)
      /\ job' = Job(Head(saveQueue).inst, Head(saveQueue).by, "drain", << >>)
  BY DEF StartSave
<1>8. \A k \in DOMAIN saveQueue' : \E l \in DOMAIN saveQueue : saveQueue'[k] = saveQueue[l]
  BY <1>2, <1>4, <1>5, <1>7
<1>9. \E l \in DOMAIN saveQueue :
        job' = Job(saveQueue[l].inst, saveQueue[l].by, "drain", << >>)
  BY <1>2, <1>6, <1>7
<1> QED BY <1>8, <1>9

LEMMA EndSaveEffect ==
  ASSUME TypeOK, job # None, NEW result, EndSave(result)
  PROVE  /\ job' = None
         /\ \A j \in Instance : resuming'[j] > 0 =>
              resuming[j] > 0 \/ (job.inst = j /\ job.by = "unload")
  BY DEF TypeOK, SavingTypeOK, EndSave

LEMMA BusyStep ==
  ASSUME IInv, TypeOK', [Next]_vars
  PROVE  BusyInstancesAreReady'
<1> USE DEF Saving
<1>0. /\ TypeOK /\ BusyInstancesAreReady /\ InstancesTypeOK /\ SavingTypeOK
      /\ InstancesTypeOK' /\ SavingTypeOK'
  BY DEF IInv, TypeOK
<1>a. SUFFICES ASSUME NEW j \in Instance, Busy(j)' PROVE status'[j] = "ready"
  BY DEF BusyInstancesAreReady
<1>b. Busy(j) => status[j] = "ready" BY <1>0 DEF BusyInstancesAreReady
<1>1. ASSUME NEW i \in Instance, StartLoad(i) PROVE status'[j] = "ready"
  BY <1>0, <1>a, <1>b, <1>1 DEF StartLoad, Busy, session, saving, unloads, InstancesTypeOK
<1>2. ASSUME NEW i \in Instance, LoadSvg(i) PROVE status'[j] = "ready"
  BY <1>0, <1>a, <1>b, <1>2 DEF LoadSvg, Busy, session, saving, unloads, InstancesTypeOK
<1>17. ASSUME NEW i \in Instance, MisreadSvg(i) PROVE status'[j] = "ready"
  BY <1>0, <1>a, <1>b, <1>17 DEF MisreadSvg, Busy, session, saving, unloads, InstancesTypeOK
<1>3. ASSUME NEW i \in Instance, LoadJournal(i) PROVE status'[j] = "ready"
  <2>1. CASE j = i BY <1>0, <1>3, <2>1 DEF LoadJournal, InstancesTypeOK, CutTornMember
  <2>2. CASE j # i
    <3>1. timer'[j] = timer[j] /\ status'[j] = status[j]
      BY <1>0, <1>3, <2>2 DEF LoadJournal, InstancesTypeOK, SavingTypeOK, CutTornMember
    <3> QED BY <1>a, <1>b, <1>3, <3>1 DEF LoadJournal, Busy, session, unloads, CutTornMember
  <2> QED BY <2>1, <2>2
<1>4. ASSUME NEW i \in Instance, LoadFails(i) PROVE status'[j] = "ready"
  BY <1>0, <1>a, <1>b, <1>4 DEF LoadFails, Busy, session, saving, unloads, InstancesTypeOK
<1>5. ASSUME NEW i \in Instance, Begin(i) \/ Refuse(i) \/ Apply(i) \/ AppendWrite(i)
                                 \/ AppendSync(i) \/ AppendFail(i)
      PROVE  status'[j] = "ready"
  <2>1. Busy(i)
    BY <1>5
    DEF Begin, Refuse, Apply, AppendWrite, AppendSync, AppendFail, Appending, Busy, Dispose
  <2>2. status' = status /\ UNCHANGED <<saveQueue, job, resuming>>
    BY <1>5
    DEF Begin, Refuse, Apply, AppendWrite, AppendSync, AppendFail, saving, unloads, Dispose
  <2>3. ASSUME j # i
        PROVE  task'[j] = task[j] /\ queue'[j] = queue[j] /\ timer'[j] = timer[j]
    <3>1. \/ timer' = timer
          \/ \E x : timer' = [timer EXCEPT ![i] = x]
      BY <1>5
      DEF Begin, Refuse, Apply, AppendWrite, AppendSync, AppendFail, DelaySave, saving, Dispose
    <3>2. timer'[j] = timer[j] BY <1>0, <2>3, <3>1 DEF SavingTypeOK
    <3>3. task'[j] = task[j] /\ queue'[j] = queue[j]
      BY <1>0, <1>5, <2>3 DEF Begin, Refuse, Apply, AppendWrite, AppendSync, AppendFail,
                              InstancesTypeOK, Dispose
    <3> QED BY <3>2, <3>3
  <2> QED BY <1>0, <1>a, <1>b, <2>1, <2>2, <2>3 DEF Busy, BusyInstancesAreReady
<1>6. ASSUME NEW i \in Instance, ResumeUnload(i) PROVE status'[j] = "ready"
  <2>1. resuming'[j] > 0 => resuming[j] > 0
    BY <1>0, <1>6 DEF ResumeUnload, SavingTypeOK, Dispose
  <2>2. timer'[j] => timer[j] BY <1>0, <1>6 DEF ResumeUnload, SavingTypeOK, Dispose
  <2> QED BY <1>a, <1>b, <1>6, <2>1, <2>2 DEF ResumeUnload, Busy, session, Dispose
<1>7. ASSUME NEW i \in Instance, TimerFires(i) PROVE status'[j] = "ready"
  <2>1. status' = status /\ UNCHANGED <<session, job>> BY <1>7 DEF TimerFires
  <2>2. timer'[j] => timer[j] BY <1>0, <1>7 DEF TimerFires, SavingTypeOK
  <2>3. Busy(i) BY <1>7 DEF TimerFires, Busy
  <2>4. CASE Saving(i)
    BY <1>a, <1>b, <1>7, <2>1, <2>2, <2>4 DEF TimerFires, Busy, session
  <2>5. CASE ~Saving(i)
    <3>1. RequestSave(i, "timer") BY <1>7, <2>5 DEF TimerFires
    <3>2. /\ resuming'[j] > 0 => resuming[j] > 0
          /\ \A k \in DOMAIN saveQueue' :
               \/ saveQueue'[k] = [inst |-> i, by |-> "timer"]
               \/ \E l \in DOMAIN saveQueue : saveQueue'[k] = saveQueue[l]
      BY <1>0, <3>1, RequestSaveEffect
    <3>3. Busy(j) \/ j = i BY <1>a, <2>1, <2>2, <3>2 DEF Busy, session
    <3> QED BY <1>0, <1>b, <2>1, <2>3, <3>3 DEF BusyInstancesAreReady
  <2> QED BY <2>4, <2>5
<1>8. ASSUME NEW i \in Instance, NEW e \in Edit, Submit(e, i) PROVE status'[j] = "ready"
  <2>1. status' = status /\ status[i] = "ready" /\ UNCHANGED <<task, saving, unloads>>
    BY <1>8 DEF Submit, Ready
  <2>2. j # i => queue'[j] = queue[j] BY <1>0, <1>8 DEF Submit, InstancesTypeOK
  <2> QED BY <1>a, <1>b, <2>1, <2>2 DEF Busy, saving, unloads
<1>9. ASSUME StartUnload, UNCHANGED <<status, session, timer, job>> PROVE status'[j] = "ready"
  <2>1. /\ resuming'[j] > 0 => resuming[j] > 0 \/ status[j] = "ready"
        /\ \A k \in DOMAIN saveQueue' :
             \/ \E l \in DOMAIN saveQueue : saveQueue'[k] = saveQueue[l]
             \/ status[saveQueue'[k].inst] = "ready"
    BY <1>0, <1>9, StartUnloadEffect
  <2> QED BY <1>a, <1>b, <1>9, <2>1 DEF Busy, session
<1>10. ASSUME StartSave PROVE status'[j] = "ready"
  <2>1. /\ \A k \in DOMAIN saveQueue' :
             \E l \in DOMAIN saveQueue : saveQueue'[k] = saveQueue[l]
        /\ \E l \in DOMAIN saveQueue :
             job' = Job(saveQueue[l].inst, saveQueue[l].by, "drain", << >>)
    BY <1>0, <1>10, StartSaveEffect
  <2>2. timer'[j] => timer[j]
    BY <1>0, <1>10 DEF StartSave, SavingTypeOK
  <2>3. status' = status /\ UNCHANGED <<session, unloads>> BY <1>10 DEF StartSave
  <2> QED BY <1>a, <1>b, <2>1, <2>2, <2>3 DEF Busy, session, unloads, Job
<1>11. ASSUME TakeSnapshot \/ StageSnapshot \/ PublishSnapshot PROVE status'[j] = "ready"
  <2>1. status' = status /\ UNCHANGED <<session, timer, saveQueue>> /\ job # None
    BY <1>11 DEF TakeSnapshot, StageSnapshot, PublishSnapshot
  <2>2. job' # None => job'.inst = job.inst
    BY <1>0, <1>11
    DEF TakeSnapshot, StageSnapshot, PublishSnapshot, EndSave, Job, SavingTypeOK, Jobs
  <2>3. resuming'[j] > 0 => resuming[j] > 0 \/ job.inst = j
    <3>1. UNCHANGED resuming \/ EndSave("failed") \/ EndSave("skipped")
      BY <1>11 DEF TakeSnapshot, StageSnapshot, PublishSnapshot, unloads
    <3> QED BY <1>0, <2>1, <3>1, EndSaveEffect
  <2> QED BY <1>a, <1>b, <2>1, <2>2, <2>3 DEF Busy, session
<1>12. ASSUME FinishSave \/ DropStale \/ SaveFail PROVE status'[j] = "ready"
  <2>1. status' = status /\ UNCHANGED <<session, saveQueue>> /\ job # None
    BY <1>12 DEF FinishSave, DropStale, SaveFail, Dispose, Rearm
  <2>2. job' = None /\ (resuming'[j] > 0 => resuming[j] > 0 \/ job.inst = j)
    BY <1>0, <1>12, EndSaveEffect, <2>1 DEF FinishSave, DropStale, SaveFail, Dispose, Rearm
  <2>3. timer'[j] => timer[j] \/ job.inst = j
    BY <1>0, <1>12 DEF FinishSave, DropStale, SaveFail, SavingTypeOK, Dispose, Rearm
  <2> QED BY <1>a, <1>b, <2>1, <2>2, <2>3 DEF Busy, session
<1>13. ASSUME Crash PROVE status'[j] = "ready"
  BY <1>0, <1>a, <1>13 DEF Crash, Busy, InstancesTypeOK, SavingTypeOK
<1>14. ASSUME UNCHANGED <<status, session, saving, unloads>> PROVE status'[j] = "ready"
  BY <1>a, <1>b, <1>14 DEF Busy, session, saving, unloads
<1>15. ASSUME NEW s \in Socket, Join(s) \/ Leave(s) \/ \E i \in Instance : Admit(s, i)
       PROVE  UNCHANGED <<status, session, saving, unloads>>
  BY <1>15 DEF Join, Leave, Admit
<1>16. ASSUME RetryUnload \/ \E s \in Socket : Closed(s)
       PROVE  StartUnload /\ UNCHANGED <<status, session, timer, job>>
  BY <1>16 DEF Closed, RetryUnload
<1> QED
  BY <1>1, <1>2, <1>3, <1>4, <1>5, <1>6, <1>7, <1>8, <1>9, <1>10, <1>11, <1>12, <1>13,
     <1>14, <1>15, <1>16, <1>17 DEF Next, vars


LEMMA WorkersAreReady ==
  ASSUME BusyInstancesAreReady, NEW i \in Instance, task[i] # None
  PROVE  status[i] = "ready"
  BY DEF BusyInstancesAreReady, Busy

\* A checkpoint goes behind the members that are there, each edit in its place.
LEMMA CheckpointGoesBehind ==
  ASSUME journal \in Seq(Members), NEW s \in Seq(Edit), Len(journal) < Len(s)
  PROVE  /\ journal \o Checkpoint(s) \in Seq(Members)
         /\ Len(journal \o Checkpoint(s)) = Len(s)
         /\ \A k \in 1..Len(journal) : (journal \o Checkpoint(s))[k] = journal[k]
         /\ \A k \in Len(journal) + 1..Len(s) :
              /\ (journal \o Checkpoint(s))[k].seq = k
              /\ k - Len(journal) \in 1..Len(Checkpoint(s))
              /\ (journal \o Checkpoint(s))[k] = Checkpoint(s)[k - Len(journal)]
<1> DEFINE c == Checkpoint(s)
           j == journal \o c
<1>1. Len(journal) \in Nat /\ Len(s) \in Nat BY LenProperties
<1>2. /\ c \in Seq(Members) /\ Len(c) = Len(s) - Len(journal)
      /\ \A k \in 1..Len(c) : c[k].seq = Len(journal) + k
  BY CheckpointType
<1> HIDE DEF c
<1>3. /\ j \in Seq(Members) /\ Len(j) = Len(s)
      /\ \A k \in 1..Len(s) :
           j[k] = IF k <= Len(journal) THEN journal[k] ELSE c[k - Len(journal)]
  BY <1>1, <1>2, ConcatProperties
<1> HIDE DEF j
<1>4. \A k \in 1..Len(journal) : j[k] = journal[k] BY <1>1, <1>3
<1>5. ASSUME NEW k \in Len(journal) + 1..Len(s)
      PROVE  j[k].seq = k /\ k - Len(journal) \in 1..Len(c) /\ j[k] = c[k - Len(journal)]
  <2>1. k - Len(journal) \in 1..Len(c) /\ Len(journal) + (k - Len(journal)) = k
    BY <1>1, <1>2
  <2>2. j[k] = c[k - Len(journal)] BY <1>1, <1>3
  <2> QED BY <1>2, <2>1, <2>2
<1> QED BY <1>3, <1>4, <1>5 DEF j, c

\* A load reads a readable journal and leaves one, with as many members as it
\* has edits in memory.
LEMMA LoadJournalEffect ==
  ASSUME TypeOK, TypeOK', NEW i \in Instance, LoadJournal(i)
  PROVE  /\ Readable /\ Readable' /\ tail' = "clean" /\ synced <= synced'
         /\ Len(journal) <= Len(journal')
         /\ \A k \in 1..Len(journal) : journal'[k] = journal[k]
         /\ Len(log'[i]) = Len(journal')
         /\ late \subseteq late'
         /\ \/ journal' = journal /\ late' = late
            \/ loadedBoard = i
            \/ /\ late' # {}
               /\ \A k \in Len(journal) + 1..Len(journal') : journal'[k].edit \in late'
<1>0. /\ FilesTypeOK /\ FilesTypeOK' /\ InstancesTypeOK /\ InstancesTypeOK' /\ Readable
      /\ log[i] \in Seq(Edit) /\ journal \in Seq(Members)
      /\ tail' = "clean"
  BY DEF TypeOK, LoadJournal, InstancesTypeOK, FilesTypeOK, CutTornMember
<1>1. /\ Len(journal) \in Nat /\ Len(log[i]) \in Nat /\ synced \in Nat /\ synced <= Len(journal)
      /\ DOMAIN journal = 1..Len(journal)
  BY <1>0, LenProperties DEF FilesTypeOK
<1>2. CASE /\ Len(log[i]) <= Len(journal) /\ UNCHANGED <<journal, synced, late>>
           /\ log' = [log EXCEPT ![i] = Replayed(i)]
  <2>1. Readable' BY <1>0, <1>2 DEF Readable
  <2>2. Len(log'[i]) = Len(journal)
    <3> DEFINE rest == SubSeq(EditsOf(journal), Len(log[i]) + 1, Len(journal))
    <3>1. EditsOf(journal) \in Seq(Edit) /\ Len(EditsOf(journal)) = Len(journal)
      BY <1>0, EditsOfType
    <3>2. Len(journal) \in 0..Len(EditsOf(journal)) /\ Len(log[i]) + 1 \in Nat \ {0}
      BY <1>1, <3>1
    <3>3. rest \in Seq(Edit)
          /\ Len(rest) = IF Len(log[i]) + 1 <= Len(journal)
                           THEN Len(journal) - (Len(log[i]) + 1) + 1 ELSE 0
      BY <3>1, <3>2, SubSeqType
    <3>4. log'[i] = log[i] \o rest BY <1>0, <1>2 DEF InstancesTypeOK, Replayed
    <3> HIDE DEF rest
    <3>5. Len(log[i] \o rest) = Len(log[i]) + Len(rest) BY <1>0, <3>3, ConcatProperties
    <3>6. Len(log[i]) <= Len(journal) BY <1>2
    <3>7. Len(log[i]) + Len(rest) = Len(journal)
      <4> DEFINE m == Len(log[i])
                 n == Len(journal)
                 r == Len(rest)
      <4>1. m \in Nat /\ n \in Nat /\ m <= n BY <1>1, <3>6
      <4>2. r = IF m + 1 <= n THEN n - (m + 1) + 1 ELSE 0 BY <3>3
      <4> HIDE DEF m, n, r
      <4>3. m + r = n BY <4>1, <4>2
      <4> QED BY <4>3 DEF m, n, r
    <3> QED BY <3>4, <3>5, <3>7
  <2> QED BY <1>0, <1>1, <1>2, <2>1, <2>2
<1>3. CASE /\ Len(log[i]) > Len(journal) /\ journal' = journal \o Checkpoint(log[i])
           /\ synced' = Len(log[i]) /\ UNCHANGED log
           /\ late' = IF loadedBoard = i THEN late
                      ELSE late \union ToSet(EditsOf(Checkpoint(log[i])))
  <2>0. Len(journal) < Len(log[i]) BY <1>1, <1>3
  <2>1. /\ Len(journal') = Len(log[i])
        /\ \A k \in 1..Len(journal) : journal'[k] = journal[k]
        /\ \A k \in Len(journal) + 1..Len(log[i]) :
             /\ journal'[k].seq = k
             /\ k - Len(journal) \in 1..Len(Checkpoint(log[i]))
             /\ journal'[k] = Checkpoint(log[i])[k - Len(journal)]
    BY <1>0, <1>3, <2>0, CheckpointGoesBehind
  <2>2. DOMAIN journal' = 1..Len(journal') BY <1>0, LenProperties DEF FilesTypeOK
  <2>3. Readable'
    <3>1. ASSUME NEW k \in DOMAIN journal' PROVE journal'[k].seq = k
      <4>1. CASE k <= Len(journal)
        <5>1. k \in 1..Len(journal) BY <1>1, <2>1, <2>2, <4>1
        <5> QED BY <1>0, <1>1, <2>1, <5>1 DEF Readable
      <4>2. CASE k > Len(journal)
        <5>1. k \in Len(journal) + 1..Len(log[i]) BY <1>1, <2>1, <2>2, <4>2
        <5> QED BY <2>1, <5>1
      <4> QED BY <1>1, <2>1, <2>2, <4>1, <4>2
    <3> QED BY <1>0, <3>1 DEF Readable
  <2>4. ASSUME NEW k \in Len(journal) + 1..Len(journal'), loadedBoard # i
        PROVE  journal'[k].edit \in late'
    <3> DEFINE c == Checkpoint(log[i])
               m == k - Len(journal)
    <3>1. c \in Seq(Members) BY <1>0, <2>0, CheckpointType
    <3>2. m \in 1..Len(c) /\ journal'[k] = c[m] BY <2>1
    <3> HIDE DEF m, c
    <3>3. EditsOf(c) \in Seq(Edit) /\ Len(EditsOf(c)) = Len(c) /\ EditsOf(c)[m] = c[m].edit
      BY <3>1, <3>2, EditsOfType
    <3>4. m \in DOMAIN EditsOf(c) BY <3>2, <3>3, LenProperties
    <3>5. EditsOf(c)[m] \in ToSet(EditsOf(c)) BY <3>4 DEF ToSet
    <3>6. ToSet(EditsOf(c)) \subseteq late' BY <1>3, <2>4 DEF c
    <3> QED BY <3>2, <3>3, <3>5, <3>6
  <2>5. Len(journal) + 1 \in Len(journal) + 1..Len(journal') BY <1>1, <2>0, <2>1
  <2>6. synced <= synced' /\ Len(journal) <= Len(journal') /\ Len(log'[i]) = Len(journal')
    BY <1>1, <1>3, <2>0, <2>1
  <2> QED BY <1>0, <1>3, <2>1, <2>3, <2>4, <2>5, <2>6
<1> QED BY <1>2, <1>3 DEF LoadJournal, CutTornMember

\* The member of an append goes behind the complete ones, or is lost behind a
\* torn one.
LEMMA AppendWriteEffect ==
  ASSUME TypeOK, TypeOK', NEW i \in Instance, AppendWrite(i)
  PROVE  /\ task[i].edit \in Edit /\ task[i] \in Tasks
         /\ task'[i].phase = "sync" /\ task'[i].edit = task[i].edit /\ task'[i] # None
         /\ \A j \in Instance : j # i => task'[j] = task[j]
         /\ \/ /\ tail = "clean" /\ tail' = "clean"
               /\ Len(journal') = Len(journal) + 1
               /\ \A k \in 1..Len(journal) : journal'[k] = journal[k]
               /\ journal'[Len(journal) + 1] = [seq |-> Len(log[i]), edit |-> task[i].edit]
               /\ History' = Append(History, task[i].edit)
            \/ tail # "clean" /\ tail' = "garbled" /\ journal' = journal
<1>0. /\ FilesTypeOK /\ FilesTypeOK' /\ InstancesTypeOK /\ journal \in Seq(Members)
      /\ task[i] \in Tasks /\ task[i].edit \in Edit /\ log[i] \in Seq(Edit)
  BY DEF TypeOK, AppendWrite, InstancesTypeOK, FilesTypeOK, Tasks
<1>1. task' = [task EXCEPT ![i].phase = "sync"] BY DEF AppendWrite
<1>2. /\ task'[i] = [task[i] EXCEPT !.phase = "sync"]
      /\ \A j \in Instance : j # i => task'[j] = task[j]
  BY <1>0, <1>1 DEF InstancesTypeOK
<1>3. task'[i].phase = "sync" /\ task'[i].edit = task[i].edit /\ task'[i] \in Tasks
  BY <1>0, <1>2 DEF Tasks
<1>4. task'[i] # None BY <1>3, ConstantsAssumption
<1>5. CASE tail = "clean"
  <2> DEFINE r == [seq |-> Len(log[i]), edit |-> task[i].edit]
  <2>1. journal' = Append(journal, r) /\ tail' = tail BY <1>5 DEF AppendWrite
  <2>2. r \in Members /\ r.edit = task[i].edit BY <1>0, LenProperties DEF Members
  <2> HIDE DEF r
  <2>3. /\ Len(journal') = Len(journal) + 1
        /\ \A k \in 1..Len(journal) : journal'[k] = journal[k]
        /\ journal'[Len(journal) + 1] = r
    BY <1>0, <2>1, <2>2, AppendProperties
  <2>4. History' = Append(History, task[i].edit)
    BY <1>0, <2>1, <2>2, EditsOfAppend DEF History
  <2> QED BY <1>0, <1>2, <1>3, <1>4, <1>5, <2>1, <2>3, <2>4 DEF r
<1>6. CASE tail # "clean"
  BY <1>0, <1>2, <1>3, <1>4, <1>6 DEF AppendWrite
<1> QED BY <1>5, <1>6

\* The synced members stay, and only a crash takes away others.
LEMMA JournalStep ==
  ASSUME TypeOK, TypeOK', [Next]_vars
  PROVE  /\ synced <= synced'
         /\ \A k \in 1..synced : journal'[k] = journal[k]
         /\ ~Crash => /\ Len(journal) <= Len(journal')
                      /\ \A k \in 1..Len(journal) : journal'[k] = journal[k]
                      /\ IsPrefix(History, History')
                      /\ ~Readable => ~Readable'
<1>0. /\ FilesTypeOK /\ FilesTypeOK' /\ journal \in Seq(Members) /\ Len(journal) \in Nat
      /\ DOMAIN journal = 1..Len(journal) /\ synced \in Nat /\ synced <= Len(journal)
      /\ DOMAIN journal' = 1..Len(journal') /\ Len(journal') \in Nat
  BY LenProperties DEF TypeOK, FilesTypeOK
<1> DEFINE Kept == /\ Len(journal) <= Len(journal')
                   /\ \A k \in 1..Len(journal) : journal'[k] = journal[k]
                   /\ ~Readable => ~Readable'
           Stays == Kept /\ synced <= synced'
<1>1. ASSUME NEW i \in Instance, LoadJournal(i) PROVE Stays
  BY <1>1, LoadJournalEffect
<1>2. ASSUME NEW i \in Instance, AppendWrite(i) PROVE Stays
  <2>1. synced' = synced BY <1>2 DEF AppendWrite
  <2>2. Len(journal) <= Len(journal') /\ \A k \in 1..Len(journal) : journal'[k] = journal[k]
    <3>1. \/ /\ Len(journal') = Len(journal) + 1
             /\ \A k \in 1..Len(journal) : journal'[k] = journal[k]
          \/ journal' = journal
      BY <1>2, AppendWriteEffect
    <3>2. CASE journal' = journal BY <1>0, <3>2
    <3>3. CASE /\ Len(journal') = Len(journal) + 1
               /\ \A k \in 1..Len(journal) : journal'[k] = journal[k]
      <4>1. Len(journal) <= Len(journal') BY <1>0, <3>3
      <4> QED BY <3>3, <4>1
    <3> QED BY <3>1, <3>2, <3>3
  <2>3. ~Readable => ~Readable'
    <3>1. tail = "garbled" => tail' = "garbled" BY <1>2 DEF AppendWrite
    <3>2. \A k \in DOMAIN journal : k \in DOMAIN journal' /\ journal'[k] = journal[k]
      BY <1>0, <2>2
    <3> QED BY <3>1, <3>2 DEF Readable
  <2> QED BY <1>0, <2>1, <2>2, <2>3
<1>3. ASSUME NEW i \in Instance, AppendFail(i) \/ AppendSync(i) PROVE Stays
  <2>1. journal' = journal /\ synced <= synced' /\ (tail = "garbled" => tail' = "garbled")
    BY <1>0, <1>3 DEF AppendFail, AppendSync, TornAt, Dispose
  <2> QED BY <1>0, <2>1 DEF Readable
<1>4. ASSUME UNCHANGED <<journal, synced, tail>> PROVE Stays
  BY <1>0, <1>4 DEF Readable
<1>5. Crash \/ Stays
  <2> HIDE DEF Stays
  <2> QED BY <1>1, <1>2, <1>3, <1>4, Frame
<1>6. CASE Crash
  <2>1. synced' = synced BY <1>6 DEF Crash
  <2>2. PICK n \in synced..Len(journal) : journal' = SubSeq(journal, 1, n) BY <1>6 DEF Crash
  <2>3. n \in 0..Len(journal) BY <1>0
  <2>4. \A k \in 1..n : journal'[k] = journal[k] BY <1>0, <2>2, <2>3, InitialPart
  <2> QED BY <1>0, <1>6, <2>1, <2>3, <2>4
<1>7. Stays => IsPrefix(History, History')
  <2> SUFFICES ASSUME Stays PROVE IsPrefix(History, History')
    OBVIOUS
  <2>1. /\ History \in Seq(Edit) /\ Len(History) = Len(journal)
        /\ \A k \in 1..Len(journal) : History[k] = journal[k].edit
    BY <1>0, HistoryType
  <2>2. /\ History' \in Seq(Edit) /\ Len(History') = Len(journal')
        /\ \A k \in 1..Len(journal') : History'[k] = journal'[k].edit
    BY <1>0, EditsOfType DEF FilesTypeOK, History
  <2>3. /\ Len(History) <= Len(History')
        /\ \A k \in 1..Len(History) : History[k] = History'[k]
    BY <1>0, <2>1, <2>2
  <2> QED BY <2>1, <2>2, <2>3, PrefixByElements
<1>8. Stays => \A k \in 1..synced : journal'[k] = journal[k] BY <1>0
<1> HIDE DEF Kept
<1> QED BY <1>5, <1>6, <1>7, <1>8 DEF Kept

\* A journal whose last member is not a member, and which is synced, stays so.
LEMMA GarbledStays ==
  ASSUME TypeOK, TypeOK', [Next]_vars, tail = "garbled"
  PROVE  /\ ~Crash => tail' = "garbled"
         /\ synced = Len(journal) => tail' = "garbled" /\ synced' = Len(journal')
<1>0. FilesTypeOK /\ FilesTypeOK' BY DEF TypeOK
<1>1. ASSUME NEW i \in Instance, LoadJournal(i) PROVE FALSE
  BY <1>1 DEF LoadJournal, Readable, CutTornMember
<1>2. ASSUME NEW i \in Instance, AppendWrite(i) \/ AppendFail(i)
      PROVE  tail' = "garbled" /\ UNCHANGED <<journal, synced>>
  BY <1>2 DEF AppendWrite, AppendFail, TornAt, Dispose
<1>3. ASSUME NEW i \in Instance, AppendSync(i)
      PROVE  tail' = "garbled" /\ journal' = journal /\ synced' = Len(journal)
  BY <1>3 DEF AppendSync
<1>4. ASSUME Crash, synced = Len(journal) PROVE tail' = "garbled" /\ synced' = Len(journal')
  <2>1. PICK n \in synced..Len(journal) :
          /\ journal' = SubSeq(journal, 1, n)
          /\ n < Len(journal) \/ tail' \in {tail, TornAt(tail)}
    BY <1>4 DEF Crash
  <2>2. Len(journal) \in Nat BY <1>0, LenProperties DEF FilesTypeOK
  <2>3. n = Len(journal) /\ tail' = "garbled" BY <1>4, <2>1, <2>2 DEF TornAt
  <2>4. Len(journal') = n BY <1>0, <2>1, <2>2, <2>3, InitialPart DEF FilesTypeOK
  <2> QED BY <1>4, <2>3, <2>4 DEF Crash
<1>5. CASE UNCHANGED <<journal, tail, synced>> BY <1>5
<1>6. CASE ~Crash BY <1>1, <1>2, <1>3, <1>5, <1>6, Frame
<1> QED BY <1>4, <1>6

\* What a load finds can no longer be put right once it is wrong for good.
LEMMA LostStays ==
  ASSUME TypeOK, TypeOK', [Next]_vars, Lost
  PROVE  Lost'
<1>0. FilesTypeOK /\ FilesTypeOK' BY DEF TypeOK
<1>1. misread => misread'
  <2>1. ASSUME NEW i \in Instance, MisreadSvg(i), misread PROVE misread'
    BY <2>1 DEF MisreadSvg
  <2> QED BY <2>1, Frame
<1>2. ASSUME NEW k \in 1..synced, journal[k].seq # k PROVE Hopeless'
  <2>1. journal'[k] = journal[k] /\ synced <= synced' BY JournalStep
  <2>2. k \in 1..synced' BY <1>0, <2>1 DEF FilesTypeOK
  <2> QED BY <1>2, <2>1, <2>2 DEF Hopeless
<1>3. ASSUME tail = "garbled", synced = Len(journal) PROVE Hopeless'
  BY <1>3, GarbledStays DEF Hopeless
<1> QED BY <1>1, <1>2, <1>3 DEF Lost, Hopeless

LEMMA HopelessIsUnreadable ==
  ASSUME FilesTypeOK, Readable
  PROVE  ~Hopeless
<1>1. /\ DOMAIN journal = 1..Len(journal) /\ Len(journal) \in Nat
      /\ synced \in Nat /\ synced <= Len(journal)
  BY LenProperties DEF FilesTypeOK
<1>2. \A k \in 1..synced : k \in DOMAIN journal BY <1>1
<1>3. tail # "garbled" /\ \A k \in DOMAIN journal : journal[k].seq = k BY DEF Readable
<1> QED BY <1>2, <1>3 DEF Hopeless


\* The registry and the reader of the journal, action by action.
LEMMA RegistryStep ==
  ASSUME IInv, TypeOK', [Next]_vars
  PROVE  RegistryIsRight'
<1>0. /\ InstancesTypeOK /\ SavingTypeOK /\ GhostsTypeOK /\ BusyInstancesAreReady
      /\ RegistryIsRight /\ None \notin Instance
      /\ status \in [Instance -> {"unused", "loading", "recovering", "ready", "failed", "dead"}]
      /\ disposed \in [Instance -> BOOLEAN]
  BY ConstantsAssumption DEF IInv, TypeOK, InstancesTypeOK
<1> DEFINE Good(j) == /\ status[j] = "unused" => ~disposed[j]
                      /\ Loading(j) => ~disposed[j]
                      /\ Loading(j) \/ Live(j) => loadedBoard = j \/ j \in orphans
                      /\ Ready(j) => reader = j
<1>1. \A j \in Instance : Good(j) BY <1>0 DEF RegistryIsRight
<1> SUFFICES ASSUME NEW j \in Instance PROVE Good(j)'
  BY DEF RegistryIsRight
<1>j. Good(j) BY <1>1
<1> USE DEF Loading, Live, Ready
<1>2. ASSUME NEW i \in Instance, StartLoad(i) PROVE Good(j)'
  BY <1>0, <1>j, <1>2 DEF StartLoad, ghosts
<1>3. ASSUME NEW i \in Instance, LoadSvg(i) \/ MisreadSvg(i) \/ LoadFails(i) PROVE Good(j)'
  <2>1. /\ status[i] \in {"loading", "recovering"}
        /\ \E x \in {"recovering", "failed"} : status' = [status EXCEPT ![i] = x]
        /\ UNCHANGED <<disposed, loadedBoard, orphans, reader>>
    BY <1>3 DEF LoadSvg, MisreadSvg, LoadFails, ghosts
  <2> QED BY <1>0, <1>j, <2>1
<1>4. ASSUME NEW i \in Instance, LoadJournal(i) PROVE Good(j)'
  <2>1. /\ status[i] = "recovering" /\ status' = [status EXCEPT ![i] = "ready"]
        /\ reader' = IF loadedBoard = i THEN i ELSE reader
        /\ UNCHANGED <<disposed, loadedBoard, orphans>>
    BY <1>4 DEF LoadJournal, CutTornMember
  <2> QED BY <1>0, <1>j, <2>1
<1>5. ASSUME NEW i \in Instance, AppendFail(i) PROVE Good(j)'
  <2>1. status[i] = "ready" BY <1>0, <1>5, WorkersAreReady DEF AppendFail, Appending, Dispose
  <2>2. /\ disposed' = [disposed EXCEPT ![i] = TRUE]
        /\ UNCHANGED <<status, loadedBoard, orphans, reader>>
    BY <1>5 DEF AppendFail, Dispose
  <2> QED BY <1>0, <1>j, <2>1, <2>2
<1>6. ASSUME NEW i \in Instance, ResumeUnload(i) PROVE Good(j)'
  <2>1. status[i] = "ready" BY <1>0, <1>6 DEF ResumeUnload, BusyInstancesAreReady, Busy, Dispose
  <2>2. UNCHANGED <<status, reader>> BY <1>6 DEF ResumeUnload, Dispose
  <2>3. CASE UNCHANGED <<loadedBoard, disposed, orphans>> BY <1>j, <2>2, <2>3
  <2>4. CASE /\ loadedBoard' = None /\ disposed' = [disposed EXCEPT ![i] = TRUE]
             /\ orphans' = orphans \union ({loadedBoard} \ {i, None})
    BY <1>0, <1>j, <2>1, <2>2, <2>4
  <2> QED BY <1>6, <2>3, <2>4 DEF ResumeUnload, Dispose
<1>7. ASSUME DropStale PROVE Good(j)'
  <2>1. UNCHANGED <<status, orphans, reader>> BY <1>7 DEF DropStale, ghosts, Dispose
  <2>2. CASE UNCHANGED <<loadedBoard, disposed>> BY <1>j, <2>1, <2>2
  <2>3. CASE /\ loadedBoard = job.inst /\ loadedBoard' = None
             /\ disposed' = [disposed EXCEPT ![job.inst] = TRUE]
    <3>1. job # None /\ job.inst \in Instance
      BY <1>0, <1>7 DEF DropStale, SavingTypeOK, Jobs, Dispose
    <3>2. status[job.inst] = "ready" BY <1>0, <3>1 DEF BusyInstancesAreReady, Busy, Saving
    <3> QED BY <1>0, <1>j, <2>1, <2>3, <3>1, <3>2
  <2> QED BY <1>7, <2>2, <2>3 DEF DropStale, Dispose
<1>8. ASSUME Crash PROVE Good(j)'
  <2>1. /\ status' = [i \in Instance |-> IF status[i] = "unused" THEN "unused" ELSE "dead"]
        /\ disposed' = [i \in Instance |-> status[i] # "unused"]
    BY <1>8 DEF Crash
  <2> QED BY <2>1
<1>9. ASSUME UNCHANGED <<status, disposed, loadedBoard, orphans, reader>> PROVE Good(j)'
  BY <1>j, <1>9
<1> HIDE DEF Good
<1> QED BY <1>2, <1>3, <1>4, <1>5, <1>6, <1>7, <1>8, <1>9, Frame

\* The phase of a task is set by its own steps only.
LEMMA TaskStep ==
  ASSUME TypeOK, [Next]_vars, NEW j \in Instance
  PROVE  \/ task'[j] = task[j]
         \/ /\ Begin(j) \/ Refuse(j) \/ AppendSync(j) \/ AppendFail(j) \/ Crash
            /\ ~InPhase(j, "write")' /\ ~InPhase(j, "sync")'
         \/ Apply(j) \/ AppendWrite(j)
<1>0. task \in [Instance -> Tasks \union {None}] BY DEF TypeOK, InstancesTypeOK
<1> DEFINE Goal == \/ task'[j] = task[j]
                   \/ /\ Begin(j) \/ Refuse(j) \/ AppendSync(j) \/ AppendFail(j) \/ Crash
                      /\ ~InPhase(j, "write")' /\ ~InPhase(j, "sync")'
                   \/ Apply(j) \/ AppendWrite(j)
<1>1. ASSUME NEW i \in Instance, Begin(i) PROVE Goal
  <2>1. task' = task \/ task' = [task EXCEPT ![i] = Task(Head(queue[i]), "prepare")]
    BY <1>1 DEF Begin
  <2>2. CASE i = j BY <1>0, <1>1, <2>1, <2>2 DEF InPhase, Task, Begin
  <2>3. CASE i # j BY <1>0, <2>1, <2>3
  <2> QED BY <2>2, <2>3
<1>2. ASSUME NEW i \in Instance, Refuse(i) \/ AppendSync(i) \/ AppendFail(i) PROVE Goal
  <2>1. task' = [task EXCEPT ![i] = None]
    BY <1>2 DEF Refuse, AppendSync, AppendFail, Dispose
  <2> QED BY <1>0, <1>2, <2>1 DEF InPhase
<1>3. ASSUME NEW i \in Instance, Apply(i) \/ AppendWrite(i) PROVE Goal
  <2>1. \E x : task' = [task EXCEPT ![i] = x]
    BY <1>3 DEF Apply, AppendWrite, DelaySave
  <2> QED BY <1>0, <1>3, <2>1
<1>4. ASSUME Crash PROVE Goal
  BY <1>4 DEF Crash, InPhase
<1> HIDE DEF Goal
<1>5. task' = task => Goal BY DEF Goal
<1>6. Goal BY <1>1, <1>2, <1>3, <1>4, <1>5, Frame
<1> QED BY <1>6 DEF Goal

\* The log of an instance that takes part in appends or that is ready changes
\* by its own steps only.
LEMMA LogStep ==
  ASSUME IInv, [Next]_vars, NEW j \in Instance
  PROVE  \/ log'[j] = log[j]
         \/ /\ LoadSvg(j) \/ MisreadSvg(j)
            /\ status'[j] = "recovering" /\ task[j] = None /\ task'[j] = None
         \/ LoadJournal(j) /\ task[j] = None /\ task'[j] = None
         \/ /\ Apply(j) /\ status[j] = "ready" /\ status'[j] = "ready"
            /\ task[j] # None /\ task[j].phase = "prepare" /\ task[j] \in Tasks
            /\ log'[j] = Append(log[j], task[j].edit)
<1>0. /\ task \in [Instance -> Tasks \union {None}] /\ log \in [Instance -> Seq(Edit)]
      /\ status \in [Instance -> {"unused", "loading", "recovering", "ready", "failed", "dead"}]
      /\ BusyInstancesAreReady
  BY DEF IInv, TypeOK, InstancesTypeOK
<1> DEFINE Goal ==
         \/ log'[j] = log[j]
         \/ /\ LoadSvg(j) \/ MisreadSvg(j)
            /\ status'[j] = "recovering" /\ task[j] = None /\ task'[j] = None
         \/ LoadJournal(j) /\ task[j] = None /\ task'[j] = None
         \/ /\ Apply(j) /\ status[j] = "ready" /\ status'[j] = "ready"
            /\ task[j] # None /\ task[j].phase = "prepare" /\ task[j] \in Tasks
            /\ log'[j] = Append(log[j], task[j].edit)
<1>1. ASSUME NEW i \in Instance, LoadSvg(i) \/ MisreadSvg(i) PROVE Goal
  <2>1. /\ status[i] = "loading" /\ status' = [status EXCEPT ![i] = "recovering"]
        /\ task' = task /\ \E x : log' = [log EXCEPT ![i] = x]
    BY <1>1 DEF LoadSvg, MisreadSvg, session
  <2>2. task[i] = None BY <1>0, <2>1, WorkersAreReady
  <2> QED BY <1>0, <1>1, <2>1, <2>2
<1>2. ASSUME NEW i \in Instance, LoadJournal(i) PROVE Goal
  <2>1. /\ status[i] = "recovering" /\ task' = task
        /\ log' = log \/ \E x : log' = [log EXCEPT ![i] = x]
    BY <1>2 DEF LoadJournal, session, CutTornMember
  <2>2. task[i] = None BY <1>0, <2>1, WorkersAreReady
  <2> QED BY <1>0, <1>2, <2>1, <2>2
<1>3. ASSUME NEW i \in Instance, Apply(i) PROVE Goal
  <2>1. /\ task[i] # None /\ task[i].phase = "prepare" /\ status' = status
        /\ log' = [log EXCEPT ![i] = Append(log[i], task[i].edit)]
    BY <1>3 DEF Apply
  <2>2. status[i] = "ready" BY <1>0, <2>1, WorkersAreReady
  <2> QED BY <1>0, <1>3, <2>1, <2>2
<1> HIDE DEF Goal
<1>4. log' = log => Goal BY DEF Goal
<1>5. Goal BY <1>1, <1>2, <1>3, <1>4, Frame
<1> QED BY <1>5 DEF Goal

\* An instance that is ready was ready, or has just finished its load.
LEMMA ReadyStep ==
  ASSUME TypeOK, [Next]_vars, NEW j \in Instance, status'[j] = "ready"
  PROVE  /\ ~Crash
         /\ status[j] = "ready" \/ LoadJournal(j)
         /\ ~LoadSvg(j) /\ ~MisreadSvg(j)
         /\ ~disposed'[j] => ~disposed[j]
         /\ ~journalFailed'[j] => ~journalFailed[j]
<1>0. /\ disposed \in [Instance -> BOOLEAN] /\ journalFailed \in [Instance -> BOOLEAN]
      /\ status \in [Instance -> {"unused", "loading", "recovering", "ready", "failed", "dead"}]
  BY DEF TypeOK, InstancesTypeOK
<1>1. ~Crash
  <2>1. Crash => status'[j] # "ready" BY DEF Crash
  <2> QED BY <2>1
<1>2. ~LoadSvg(j) /\ ~MisreadSvg(j)
  BY <1>0 DEF LoadSvg, MisreadSvg
<1>3. status[j] = "ready" \/ LoadJournal(j)
  <2>1. ASSUME NEW i \in Instance, StartLoad(i) \/ LoadSvg(i) \/ MisreadSvg(i) \/ LoadFails(i)
        PROVE  status[j] = "ready"
    <3>1. \E x \in {"loading", "recovering", "failed"} : status' = [status EXCEPT ![i] = x]
      BY <2>1 DEF StartLoad, LoadSvg, MisreadSvg, LoadFails
    <3> QED BY <1>0, <3>1
  <2>2. ASSUME NEW i \in Instance, LoadJournal(i) PROVE status[j] = "ready" \/ LoadJournal(j)
    <3>1. status' = [status EXCEPT ![i] = "ready"] BY <2>2 DEF LoadJournal, CutTornMember
    <3> QED BY <1>0, <2>2, <3>1
  <2> QED BY <1>1, <2>1, <2>2, Frame
<1>4. ~disposed'[j] => ~disposed[j]
  <2>1. ASSUME NEW i \in Instance, AppendFail(i) \/ ResumeUnload(i)
        PROVE  disposed' = disposed \/ disposed' = [disposed EXCEPT ![i] = TRUE]
    BY <2>1 DEF AppendFail, ResumeUnload, Dispose
  <2>2. DropStale => disposed' = disposed \/ disposed' = [disposed EXCEPT ![job.inst] = TRUE]
    BY DEF DropStale, Dispose
  <2> QED BY <1>0, <1>1, <2>1, <2>2, Frame
<1>5. ~journalFailed'[j] => ~journalFailed[j]
  <2>1. ASSUME NEW i \in Instance, Apply(i) \/ AppendFail(i)
        PROVE  journalFailed' = journalFailed \/ journalFailed' = [journalFailed EXCEPT ![i] = TRUE]
    BY <2>1 DEF Apply, AppendFail, Dispose, DelaySave
  <2> QED BY <1>0, <2>1, Frame
<1> QED BY <1>1, <1>2, <1>3, <1>4, <1>5


\* The sequences the invariant compares.
LEMMA SequenceTypes ==
  ASSUME TypeOK
  PROVE  /\ History \in Seq(Edit) /\ StoredSvg \in Seq(Edit)
         /\ \A j \in Instance : log[j] \in Seq(Edit)
         /\ job # None => job \in Jobs /\ job.snap \in Seq(Edit) /\ job.snap # None
                          /\ job.inst \in Instance
<1>1. FilesTypeOK /\ InstancesTypeOK /\ SavingTypeOK BY DEF TypeOK
<1>2. History \in Seq(Edit) BY <1>1, HistoryType
<1>3. StoredSvg \in Seq(Edit) BY <1>1, EmptySeq DEF FilesTypeOK, StoredSvg
<1>4. job # None => job \in Jobs /\ job.snap \in Seq(Edit) /\ job.inst \in Instance
  BY <1>1 DEF SavingTypeOK, Jobs
<1>5. job # None => job.snap # None BY <1>4, ConstantsAssumption
<1> QED BY <1>1, <1>2, <1>3, <1>4, <1>5 DEF InstancesTypeOK

LEMMA NextSequenceTypes ==
  ASSUME TypeOK'
  PROVE  /\ History' \in Seq(Edit) /\ StoredSvg' \in Seq(Edit)
         /\ DOMAIN History' = 1..Len(journal') /\ Len(journal') \in Nat
         /\ \A k \in 1..Len(journal') : History'[k] = journal'[k].edit
         /\ \A j \in Instance : log'[j] \in Seq(Edit)
<1>1. FilesTypeOK' /\ InstancesTypeOK' BY DEF TypeOK
<1>2. /\ History' \in Seq(Edit) /\ Len(History') = Len(journal')
      /\ \A k \in 1..Len(journal') : History'[k] = journal'[k].edit
  BY <1>1, EditsOfType DEF FilesTypeOK, History
<1>3. StoredSvg' \in Seq(Edit) BY <1>1, EmptySeq DEF FilesTypeOK, StoredSvg
<1>4. DOMAIN History' = 1..Len(journal') /\ Len(journal') \in Nat
  BY <1>1, <1>2, LenProperties DEF FilesTypeOK
<1> QED BY <1>1, <1>2, <1>3, <1>4 DEF InstancesTypeOK

LEMMA FrontOfAppend ==
  ASSUME NEW S, NEW s \in Seq(S), NEW x \in S
  PROVE  /\ Append(s, x) # << >> /\ Append(s, x) \in Seq(S)
         /\ Last(Append(s, x)) = x /\ Front(Append(s, x)) = s
<1> DEFINE t == Append(s, x)
<1>1. /\ t \in Seq(S) /\ Len(t) = Len(s) + 1 /\ Len(s) \in Nat
      /\ \A k \in 1..Len(s) : t[k] = s[k]
      /\ t[Len(s) + 1] = x
  BY AppendProperties, LenProperties
<1> HIDE DEF t
<1>2. t # << >> BY <1>1, EmptySeq
<1>3. Last(t) = x BY <1>1 DEF Last
<1>4. Front(t) = s
  <2>1. Len(s) \in 0..Len(t) BY <1>1
  <2>2. /\ SubSeq(t, 1, Len(s)) \in Seq(S) /\ Len(SubSeq(t, 1, Len(s))) = Len(s)
        /\ \A k \in 1..Len(s) : SubSeq(t, 1, Len(s))[k] = t[k]
    BY <1>1, <2>1, InitialPart
  <2>3. SubSeq(t, 1, Len(s)) = s BY <1>1, <2>2, SeqEqual
  <2>4. Front(t) = SubSeq(t, 1, Len(t) - 1) BY DEF Front
  <2>5. Len(t) - 1 = Len(s) BY <1>1
  <2> QED BY <2>3, <2>4, <2>5
<1> QED BY <1>1, <1>2, <1>3, <1>4 DEF t

LEMMA FrontAndLast ==
  ASSUME NEW S, NEW s \in Seq(S), s # << >>
  PROVE  /\ Front(s) \in Seq(S) /\ Len(Front(s)) = Len(s) - 1
         /\ Append(Front(s), Last(s)) = s
<1> DEFINE f == Front(s)
<1>1. Len(s) \in Nat \ {0} BY LenProperties, EmptySeq
<1>2. Len(s) - 1 \in 0..Len(s) /\ f = SubSeq(s, 1, Len(s) - 1) BY <1>1 DEF Front
<1>3. f \in Seq(S) /\ Len(f) = Len(s) - 1 /\ \A k \in 1..Len(s) - 1 : f[k] = s[k]
  BY <1>2, InitialPart
<1>4. Last(s) = s[Len(s)] /\ Last(s) \in S
  <2>1. Len(s) \in 1..Len(s) BY <1>1
  <2> QED BY <2>1, ElementOfSeq DEF Last
<1> HIDE DEF f
<1> DEFINE t == Append(f, Last(s))
<1>5. /\ t \in Seq(S) /\ Len(t) = Len(f) + 1 /\ t[Len(f) + 1] = Last(s)
      /\ \A k \in 1..Len(f) : t[k] = f[k]
  BY <1>3, <1>4, AppendProperties
<1> HIDE DEF t
<1>6. \A k \in 1..Len(s) : t[k] = s[k] BY <1>1, <1>3, <1>4, <1>5
<1>7. Len(t) = Len(s) BY <1>1, <1>3, <1>5
<1>8. t = s BY <1>5, <1>6, <1>7, SeqEqual
<1> QED BY <1>3, <1>8 DEF f, t

LEMMA LastIsIn ==
  ASSUME NEW S, NEW s \in Seq(S), s # << >>
  PROVE  Last(s) \in ToSet(s)
<1>1. Len(s) \in Nat \ {0} /\ DOMAIN s = 1..Len(s) BY LenProperties, EmptySeq
<1>2. Len(s) \in DOMAIN s BY <1>1
<1> QED BY <1>2 DEF Last, ToSet

LEMMA AppendsTheLastStep ==
  ASSUME IInv, TypeOK', [Next]_vars
  PROVE  AppendsTheLast'
<1>0. /\ TypeOK /\ AppendsTheLast /\ InstancesTypeOK
  BY DEF IInv, TypeOK
<1> SUFFICES ASSUME NEW j \in Instance, Appending(j)'
             PROVE  log'[j] # << >> /\ task'[j].edit = Last(log'[j])
  BY DEF AppendsTheLast
<1>1. CASE task'[j] = task[j]
  <2>1. Appending(j) BY <1>1 DEF Appending
  <2>2. task[j] # None /\ task[j].phase # "prepare" BY <2>1 DEF Appending
  <2>3. log'[j] = log[j]
    <3>1. status'[j] # "recovering" \/ log'[j] = log[j] BY <2>2, LogStep
    <3> QED BY <2>2, LogStep
  <2> QED BY <1>0, <1>1, <2>1, <2>3 DEF AppendsTheLast
<1>2. CASE Apply(j)
  <2>1. /\ task[j] # None /\ task[j] \in Tasks /\ log'[j] = Append(log[j], task[j].edit)
        /\ task'[j] = None \/ task'[j] = [task[j] EXCEPT !.phase = "write"]
    BY <1>0, <1>2 DEF Apply, InstancesTypeOK, DelaySave
  <2>2. task'[j].edit = task[j].edit /\ task[j].edit \in Edit /\ log[j] \in Seq(Edit)
    BY <1>0, <2>1 DEF Appending, Tasks, InstancesTypeOK
  <2> QED BY <2>1, <2>2, FrontOfAppend
<1>3. CASE AppendWrite(j)
  <2>1. Appending(j) /\ log' = log BY <1>3 DEF AppendWrite, Appending
  <2>2. task'[j].edit = task[j].edit BY <1>0, <1>3, AppendWriteEffect
  <2> QED BY <1>0, <2>1, <2>2 DEF AppendsTheLast
<1>4. ~InPhase(j, "write")' /\ ~InPhase(j, "sync")' => FALSE BY DEF Appending, InPhase
<1> QED BY <1>0, <1>1, <1>2, <1>3, <1>4, TaskStep

\* With nothing lost, a load ends with the log the journal then holds.
LEMMA LoadEndsWithHistory ==
  ASSUME IInv, TypeOK', NEW i \in Instance, LoadJournal(i), ~misread
  PROVE  /\ log'[i] = History' /\ ~Lost
         /\ IsPrefix(StoredSvg, History')
         /\ IsPrefix(History, History') /\ IsPrefix(log[i], History')
<1>0. /\ FilesTypeOK /\ FilesTypeOK' /\ InstancesTypeOK /\ InstancesTypeOK' /\ Readable
      /\ status[i] = "recovering" /\ log[i] \in Seq(Edit) /\ journal \in Seq(Members)
  BY
  DEF IInv, TypeOK, LoadJournal, InstancesTypeOK, FilesTypeOK, CutTornMember
<1>1. /\ History \in Seq(Edit) /\ Len(History) = Len(journal) /\ Len(journal) \in Nat
      /\ Len(log[i]) \in Nat /\ StoredSvg \in Seq(Edit) /\ History' \in Seq(Edit)
  BY <1>0, HistoryType, SequenceTypes, EditsOfType, LenProperties
  DEF IInv, FilesTypeOK, History
<1>2. ~Lost BY <1>0, HopelessIsUnreadable DEF Lost
<1>3. /\ Comparable(StoredSvg, History)
      /\ \/ log[i] = StoredSvg
         \/ IsPrefix(log[i], History) /\ IsPrefix(StoredSvg, History)
  BY <1>0, <1>2 DEF IInv, SnapshotIsRight
<1>4. Comparable(log[i], History) BY <1>3 DEF Comparable
<1>5. CASE Len(log[i]) <= Len(journal) /\ UNCHANGED <<journal, synced, late>>
           /\ log' = [log EXCEPT ![i] = Replayed(i)]
  <2>1. IsPrefix(log[i], History)
    <3>1. CASE IsPrefix(History, log[i])
      <4>1. Len(History) <= Len(log[i]) /\ \A k \in 1..Len(History) : History[k] = log[i][k]
        BY <1>0, <1>1, <3>1, PrefixByElements
      <4>2. Len(History) = Len(log[i]) BY <1>1, <1>5, <4>1
      <4>3. History = log[i] BY <1>0, <1>1, <4>1, <4>2, SeqEqual
      <4> QED BY <3>1, <4>3
    <3> QED BY <1>4, <3>1 DEF Comparable
  <2>2. log[i] \o SubSeq(History, Len(log[i]) + 1, Len(History)) = History
    BY <1>0, <1>1, <2>1, PrefixAndRest
  <2>3. Replayed(i) = History BY <1>1, <2>2 DEF Replayed, History
  <2>4. log'[i] = History BY <1>0, <1>5, <2>3 DEF InstancesTypeOK
  <2>5. History' = History BY <1>5 DEF History
  <2>6. IsPrefix(History, History) BY <1>1, PrefixReflexive
  <2>7. IsPrefix(StoredSvg, History) BY <1>3, <2>1
  <2> QED BY <1>2, <2>1, <2>4, <2>5, <2>6, <2>7
<1>6. CASE /\ Len(log[i]) > Len(journal) /\ journal' = journal \o Checkpoint(log[i])
           /\ UNCHANGED log
  <2>1. IsPrefix(History, log[i]) /\ ~IsPrefix(log[i], History)
    <3>1. ASSUME IsPrefix(log[i], History) PROVE FALSE
      <4>1. Len(log[i]) <= Len(History) BY <1>0, <1>1, <3>1, PrefixByElements
      <4> QED BY <1>1, <1>6, <4>1
    <3> QED BY <1>4, <3>1 DEF Comparable
  <2>2. Len(journal) < Len(log[i]) BY <1>1, <1>6
  <2>3. EditsOf(journal') = log[i]
    BY <1>0, <1>6, <2>1, <2>2, CheckpointIsSnapshot DEF History
  <2>4. History' = log[i] BY <2>3 DEF History
  <2>5. IsPrefix(log[i], log[i]) BY <1>0, PrefixReflexive
  <2>6. log[i] = StoredSvg BY <1>3, <2>1
  <2> QED BY <1>2, <1>6, <2>1, <2>4, <2>5, <2>6
<1> QED BY <1>5, <1>6 DEF LoadJournal, CutTornMember

LEMMA LogIsJournalledStep ==
  ASSUME IInv, TypeOK', [Next]_vars
  PROVE  LogIsJournalled'
<1>0. TypeOK /\ LogIsJournalled /\ AppendsTheLast /\ FilesTypeOK BY DEF IInv, TypeOK
<1> SUFFICES ASSUME NEW j \in Instance, status'[j] = "ready", ~journalFailed'[j], ~Lost'
             PROVE  \/ IsPrefix(log'[j], History')
                    \/ InPhase(j, "write")' /\ IsPrefix(Front(log'[j]), History')
                    \/ InPhase(j, "sync")' /\ ~Readable'
  BY DEF LogIsJournalled
<1>1. /\ ~Lost /\ ~Crash /\ ~journalFailed[j] /\ (status[j] = "ready" \/ LoadJournal(j))
      /\ ~LoadSvg(j) /\ ~MisreadSvg(j)
  BY <1>0, LostStays, ReadyStep
<1>2. /\ History \in Seq(Edit) /\ History' \in Seq(Edit) /\ log[j] \in Seq(Edit)
      /\ log'[j] \in Seq(Edit)
  BY <1>0, SequenceTypes, NextSequenceTypes
<1>3. IsPrefix(History, History') /\ (~Readable => ~Readable') BY <1>0, <1>1, JournalStep
<1>4. CASE LoadJournal(j)
  <2>1. log'[j] = History' BY <1>1, <1>4, LoadEndsWithHistory DEF Lost
  <2> QED BY <1>2, <2>1, PrefixReflexive
<1>5. CASE ~LoadJournal(j)
  <2>1. \/ IsPrefix(log[j], History)
        \/ InPhase(j, "write") /\ IsPrefix(Front(log[j]), History)
        \/ InPhase(j, "sync") /\ ~Readable
    BY <1>0, <1>1, <1>5 DEF LogIsJournalled
  <2>2. CASE Apply(j)
    <3>1. /\ task[j] # None /\ task[j].phase = "prepare" /\ task[j] \in Tasks
          /\ log'[j] = Append(log[j], task[j].edit)
          /\ ~disposed[j] => task'[j] = [task[j] EXCEPT !.phase = "write"]
          /\ disposed[j] => journalFailed'[j]
      BY <1>0, <2>2 DEF Apply, TypeOK, InstancesTypeOK, DelaySave
    <3>2. task'[j] = [task[j] EXCEPT !.phase = "write"] BY <3>1
    <3>3. task'[j].phase = "write" /\ task'[j] \in Tasks /\ task[j].edit \in Edit
      BY <3>1, <3>2 DEF Tasks
    <3>4. InPhase(j, "write")' BY <3>3, ConstantsAssumption DEF InPhase
    <3>5. Front(log'[j]) = log[j] BY <1>2, <3>1, <3>3, FrontOfAppend
    <3>6. IsPrefix(log[j], History) BY <2>1, <3>1 DEF InPhase
    <3>7. IsPrefix(Front(log'[j]), History') BY <1>2, <1>3, <3>5, <3>6, PrefixTransitive
    <3> QED BY <3>4, <3>7
  <2>3. CASE AppendWrite(j)
    <3>1. log' = log /\ InPhase(j, "write") /\ Appending(j)
      BY <2>3 DEF AppendWrite, InPhase, Appending
    <3>2. InPhase(j, "sync")' BY <1>0, <2>3, AppendWriteEffect DEF InPhase
    <3>3. CASE IsPrefix(log[j], History)
      BY <1>2, <1>3, <3>1, <3>3, PrefixTransitive
    <3>4. CASE ~Readable BY <1>3, <3>2, <3>4
    <3>5. CASE Readable /\ IsPrefix(Front(log[j]), History)
      <4>1. log[j] # << >> /\ task[j].edit = Last(log[j]) /\ Len(log[j]) \in Nat \ {0}
        BY <1>0, <1>2, <3>1, LenProperties, EmptySeq DEF AppendsTheLast
      <4>2. CASE tail # "clean"
        BY <2>3, <3>2, <4>2 DEF AppendWrite, Readable
      <4>3. CASE tail = "clean"
        <5>1. /\ Len(journal') = Len(journal) + 1
              /\ journal'[Len(journal) + 1] = [seq |-> Len(log[j]), edit |-> task[j].edit]
              /\ History' = Append(History, task[j].edit) /\ task[j].edit \in Edit
          BY <1>0, <2>3, <4>3, AppendWriteEffect
        <5>2. /\ Len(History) = Len(journal) /\ Len(journal) \in Nat
              /\ DOMAIN journal' = 1..Len(journal')
          BY <1>0, HistoryType, LenProperties DEF TypeOK, FilesTypeOK
        <5>3. CASE Len(log[j]) # Len(journal) + 1
          <6>1. Len(journal) + 1 \in DOMAIN journal' BY <5>1, <5>2
          <6>2. ~Readable' BY <5>1, <5>3, <6>1 DEF Readable
          <6> QED BY <3>2, <6>2
        <5>4. CASE Len(log[j]) = Len(journal) + 1
          <6>1. log'[j] = History'
            <7> DEFINE f == Front(log[j])
                       l == Last(log[j])
            <7>1. f \in Seq(Edit) /\ Append(f, l) = log[j] /\ Len(f) = Len(log[j]) - 1
              BY <1>2, <4>1, FrontAndLast
            <7> HIDE DEF f, l
            <7>2. Len(f) = Len(History) /\ IsPrefix(f, History)
              BY <3>5, <5>2, <5>4, <7>1 DEF f
            <7>3. \A k \in 1..Len(f) : f[k] = History[k]
              BY <1>2, <7>1, <7>2, PrefixByElements
            <7>4. f = History BY <1>2, <7>1, <7>2, <7>3, SeqEqual
            <7> QED BY <3>1, <4>1, <5>1, <7>1, <7>4 DEF l
          <6> QED BY <1>2, <6>1, PrefixReflexive
        <5> QED BY <5>3, <5>4
      <4> QED BY <4>2, <4>3
    <3> QED BY <2>1, <3>1, <3>3, <3>4, <3>5 DEF InPhase
  <2>4. CASE ~Apply(j) /\ ~AppendWrite(j)
    <3>1. log'[j] = log[j] BY <1>1, <1>5, <2>4, LogStep
    <3>2. CASE task'[j] = task[j]
      <4>1. /\ InPhase(j, "write")' <=> InPhase(j, "write")
            /\ InPhase(j, "sync")' <=> InPhase(j, "sync")
        BY <3>2 DEF InPhase
      <4>2. CASE IsPrefix(log[j], History) BY <1>2, <1>3, <3>1, <4>2, PrefixTransitive
      <4>3. CASE InPhase(j, "write") /\ IsPrefix(Front(log[j]), History)
        <5>1. Appending(j) BY <4>3 DEF InPhase, Appending
        <5>2. log[j] # << >> BY <1>0, <5>1 DEF AppendsTheLast
        <5>3. Front(log[j]) \in Seq(Edit) BY <1>2, <5>2, FrontAndLast
        <5>4. IsPrefix(Front(log'[j]), History')
          BY <1>2, <1>3, <3>1, <4>3, <5>3, PrefixTransitive
        <5> QED BY <4>1, <4>3, <5>4
      <4>4. CASE InPhase(j, "sync") /\ ~Readable BY <1>3, <4>1, <4>4
      <4> QED BY <2>1, <4>2, <4>3, <4>4
    <3>3. CASE Begin(j) \/ Refuse(j)
      <4>1. ~InPhase(j, "write") /\ ~InPhase(j, "sync") BY <3>3 DEF Begin, Refuse, InPhase
      <4> QED BY <1>2, <1>3, <2>1, <3>1, <4>1, PrefixTransitive
    <3>4. CASE AppendSync(j)
      <4>1. InPhase(j, "sync") /\ ~InPhase(j, "write") BY <3>4 DEF AppendSync, InPhase
      <4>2. CASE IsPrefix(log[j], History) BY <1>2, <1>3, <3>1, <4>2, PrefixTransitive
      <4>3. CASE ~Readable
        <5>1. synced' = Len(journal') /\ journal' = journal /\ tail' = tail
          BY <3>4 DEF AppendSync
        <5>2. DOMAIN journal = 1..Len(journal) BY <1>0, LenProperties DEF FilesTypeOK
        <5>3. Hopeless' BY <4>3, <5>1, <5>2 DEF Hopeless, Readable
        <5> QED BY <5>3 DEF Lost
      <4> QED BY <2>1, <4>1, <4>2, <4>3
    <3>5. CASE AppendFail(j)
      <4>1. journalFailed'[j] BY <1>0, <3>5 DEF AppendFail, TypeOK, InstancesTypeOK, Dispose
      <4> QED BY <4>1
    <3> QED BY <1>0, <1>1, <2>4, <3>2, <3>3, <3>4, <3>5, TaskStep
  <2> QED BY <2>2, <2>3, <2>4
<1> QED BY <1>4, <1>5


LEMMA ReaderFollowsItselfStep ==
  ASSUME IInv, TypeOK', [Next]_vars
  PROVE  ReaderFollowsItself'
<1>0. /\ TypeOK /\ FilesTypeOK /\ FilesTypeOK' /\ InstancesTypeOK /\ ReaderFollowsItself
      /\ task \in [Instance -> Tasks \union {None}] /\ BusyInstancesAreReady
      /\ Len(journal) \in Nat /\ DOMAIN journal = 1..Len(journal)
      /\ DOMAIN journal' = 1..Len(journal')
      /\ \A j \in Instance : Len(log[j]) \in Nat
  BY LenProperties DEF IInv, TypeOK, FilesTypeOK, InstancesTypeOK
<1> SUFFICES ASSUME late' = {}
             PROVE  /\ Readable'
                    /\ \A j \in Instance : j = reader' =>
                         /\ Live(j)' \/ InPhase(j, "write")' => tail' = "clean"
                         /\ InPhase(j, "write")' => Len(log'[j]) = Len(journal') + 1
                         /\ InPhase(j, "sync")' \/ (Live(j)' /\ ~InPhase(j, "write")') =>
                              Len(log'[j]) = Len(journal')
  BY DEF ReaderFollowsItself
\* No other has written into the journal.
<1>1. late = {} /\ \A i \in Instance : AppendWrite(i) => i = reader
  <2>1. ASSUME NEW i \in Instance, LoadJournal(i) PROVE late \subseteq late'
    BY <1>0, <2>1, LoadJournalEffect
  <2>2. ASSUME NEW i \in Instance, AppendWrite(i) PROVE late \subseteq late' /\ i = reader
    BY <2>2 DEF AppendWrite, WritesBy
  <2>3. ASSUME NEW i \in Instance, AppendFail(i) PROVE late \subseteq late'
    BY <2>3 DEF AppendFail, WritesBy, Dispose
  <2>4. Crash => late \subseteq late' BY DEF Crash, WritesBy
  <2> QED BY <2>1, <2>2, <2>3, <2>4, Frame
<1>2. /\ Readable
      /\ \A j \in Instance : j = reader =>
           /\ Live(j) \/ InPhase(j, "write") => tail = "clean"
           /\ InPhase(j, "write") => Len(log[j]) = Len(journal) + 1
           /\ InPhase(j, "sync") \/ (Live(j) /\ ~InPhase(j, "write")) =>
                Len(log[j]) = Len(journal)
  BY <1>0, <1>1 DEF ReaderFollowsItself
<1> DEFINE Good(j) ==
       /\ Live(j)' \/ InPhase(j, "write")' => tail' = "clean"
       /\ InPhase(j, "write")' => Len(log'[j]) = Len(journal') + 1
       /\ InPhase(j, "sync")' \/ (Live(j)' /\ ~InPhase(j, "write")') =>
            Len(log'[j]) = Len(journal')
<1>3. ASSUME NEW i \in Instance, LoadJournal(i)
      PROVE  Readable' /\ \A j \in Instance : j = reader' => Good(j)
  <2>1. /\ Readable' /\ tail' = "clean" /\ Len(log'[i]) = Len(journal')
        /\ journal' = journal \/ loadedBoard = i
    BY <1>0, <1>3, LoadJournalEffect
  <2>2. /\ status[i] = "recovering" /\ task' = task /\ disposed' = disposed
        /\ status' = [status EXCEPT ![i] = "ready"]
        /\ reader' = IF loadedBoard = i THEN i ELSE reader
        /\ log' = log \/ \E x : log' = [log EXCEPT ![i] = x]
    BY <1>3 DEF LoadJournal, session, CutTornMember
  <2>3. task[i] = None BY <1>0, <2>2, WorkersAreReady
  <2>4. Good(i) BY <2>1, <2>2, <2>3 DEF InPhase
  <2>5. ASSUME NEW j \in Instance, j # i, j = reader' PROVE Good(j)
    <3>1. j = reader /\ journal' = journal BY <2>1, <2>2, <2>5
    <3>2. log'[j] = log[j] /\ status'[j] = status[j]
      BY <1>0, <2>2, <2>5 DEF InstancesTypeOK
    <3> QED BY <1>2, <2>1, <2>2, <3>1, <3>2 DEF InPhase, Live
  <2> HIDE DEF Good
  <2> QED BY <2>1, <2>4, <2>5
<1>4. ASSUME NEW i \in Instance, AppendWrite(i)
      PROVE  Readable' /\ \A j \in Instance : j = reader' => Good(j)
  <2>1. /\ i = reader /\ reader' = reader /\ log' = log /\ InPhase(i, "write")
    BY <1>1, <1>4 DEF AppendWrite, InPhase
  <2>2. tail = "clean" /\ Len(log[i]) = Len(journal) + 1 BY <1>2, <2>1
  <2>3. /\ task'[i].phase = "sync" /\ tail' = "clean" /\ Len(journal') = Len(journal) + 1
        /\ \A k \in 1..Len(journal) : journal'[k] = journal[k]
        /\ journal'[Len(journal) + 1] = [seq |-> Len(log[i]), edit |-> task[i].edit]
    BY <1>0, <1>4, <2>2, AppendWriteEffect
  <2>4. journal'[Len(journal) + 1].seq = Len(journal) + 1 BY <2>2, <2>3
  <2>5. \A k \in 1..Len(journal) : journal'[k].seq = k BY <1>0, <1>2, <2>3 DEF Readable
  <2>6. \A k \in DOMAIN journal' : k \in 1..Len(journal) \/ k = Len(journal) + 1
    BY <1>0, <2>3
  <2>7. Readable' BY <2>3, <2>4, <2>5, <2>6 DEF Readable
  <2>8. Good(i) BY <2>1, <2>2, <2>3 DEF InPhase
  <2> QED BY <2>1, <2>7, <2>8
\* The others leave the complete members and the reader alone.
<1>5. ASSUME \A i \in Instance : ~LoadJournal(i) /\ ~AppendWrite(i)
      PROVE  Readable' /\ \A j \in Instance : j = reader' => Good(j)
  <2>1. reader' = reader BY <1>5, Frame
  <2>2. CASE Crash
    <3>1. PICK n \in synced..Len(journal) :
            /\ journal' = SubSeq(journal, 1, n)
            /\ \/ tail' \in {"clean", "torn", tail}
               \/ \E i \in Writers : tail' = TornAt(tail) /\ WritesBy(i, {task[i].edit})
      BY <2>2 DEF Crash
    <3>2. n \in 0..Len(journal) BY <1>0 DEF FilesTypeOK
    <3>3. Len(journal') = n /\ \A k \in 1..n : journal'[k] = journal[k]
      BY <1>0, <3>1, <3>2, InitialPart DEF FilesTypeOK
    <3>4. tail' # "garbled"
      <4>1. ASSUME NEW i \in Writers, tail' = TornAt(tail), WritesBy(i, {task[i].edit})
            PROVE  tail' # "garbled"
        <5>1. i = reader BY <4>1 DEF WritesBy
        <5>2. i \in Instance /\ InPhase(i, "write") BY <4>1 DEF Writers, InPhase
        <5> QED BY <1>2, <4>1, <5>1, <5>2 DEF TornAt
      <4> QED BY <1>2, <3>1, <4>1 DEF Readable
    <3>5. \A k \in DOMAIN journal' : journal'[k].seq = k
      BY <1>0, <1>2, <3>2, <3>3 DEF Readable
    <3>6. Readable' BY <3>4, <3>5 DEF Readable
    <3>7. \A j \in Instance : Good(j) BY <2>2 DEF Crash, InPhase, Live
    <3> QED BY <3>6, <3>7
  <2>3. CASE ~Crash
    <3>1. journal' = journal BY <1>5, <2>3, Frame
    <3>2. ASSUME NEW i \in Instance, AppendFail(i)
          PROVE  tail' = tail \/ (i = reader /\ tail = "clean" /\ tail' = "torn")
      <4>1. \/ tail' = tail
            \/ InPhase(i, "write") /\ tail' = TornAt(tail) /\ i = reader
        BY <3>2 DEF AppendFail, WritesBy, InPhase, Appending, Dispose
      <4> QED BY <1>2, <4>1 DEF TornAt
    <3>3. tail' = tail \/ \E i \in Instance : AppendFail(i) /\ i = reader /\ tail' = "torn"
      BY <1>5, <2>3, <3>2, Frame
    <3>4. Readable' BY <1>2, <3>1, <3>3 DEF Readable
    <3>5. ASSUME NEW j \in Instance, j = reader PROVE Good(j)
      <4>1. ASSUME Live(j)' PROVE Live(j)
        BY <1>0, <1>5, <4>1, ReadyStep DEF Live
      <4>2. CASE Apply(j)
        <5>1. /\ task[j] # None /\ task[j].phase = "prepare" /\ tail' = tail
              /\ disposed' = disposed
              /\ disposed[j] => task'[j] = None
              /\ ~disposed[j] => task'[j] = [task[j] EXCEPT !.phase = "write"]
          BY <1>0, <4>2 DEF Apply, files, DelaySave
        <5>2. task[j] \in Tasks /\ status[j] = "ready" BY <1>0, <5>1, WorkersAreReady
        <5>3. log'[j] = Append(log[j], task[j].edit)
          BY <1>0, <4>2 DEF Apply, InstancesTypeOK
        <5>4. Len(log'[j]) = Len(log[j]) + 1
          BY <1>0, <5>2, <5>3, AppendProperties DEF InstancesTypeOK, Tasks
        <5>5. CASE disposed[j] BY <5>1, <5>5 DEF InPhase, Live
        <5>6. CASE ~disposed[j]
          <6>1. task'[j].phase = "write" /\ task'[j] # None
            BY <5>1, <5>2, <5>6, ConstantsAssumption DEF Tasks
          <6>2. Live(j) /\ ~InPhase(j, "write") BY <5>1, <5>2, <5>6 DEF Live, InPhase
          <6>3. tail = "clean" /\ Len(log[j]) = Len(journal) BY <1>2, <3>5, <6>2
          <6> QED BY <3>1, <5>1, <5>4, <6>1, <6>3 DEF InPhase
        <5> QED BY <5>5, <5>6
      <4>3. CASE AppendFail(j)
        <5>1. disposed'[j] /\ task'[j] = None
          BY <1>0, <4>3 DEF AppendFail, Dispose, InstancesTypeOK
        <5> QED BY <5>1 DEF InPhase, Live
      <4>4. CASE ~Apply(j) /\ ~AppendFail(j)
        <5>1. tail' = tail BY <3>3, <3>5, <4>4
        <5>2. log'[j] = log[j] \/ (task'[j] = None /\ status'[j] = "recovering")
          BY <1>5, <4>4, LogStep
        <5>3. CASE task'[j] = None /\ status'[j] = "recovering"
          BY <5>3 DEF InPhase, Live
        <5>4. CASE log'[j] = log[j]
          <6>1. CASE task'[j] = task[j]
            BY <1>2, <3>1, <3>5, <4>1, <5>1, <5>4, <6>1 DEF InPhase
          <6>2. CASE Begin(j) \/ Refuse(j)
            <7>1. ~InPhase(j, "write") /\ ~InPhase(j, "write")' /\ ~InPhase(j, "sync")'
              BY <1>0, <6>2 DEF Begin, Refuse, InPhase, Task
            <7> QED BY <1>2, <3>1, <3>5, <4>1, <5>1, <5>4, <7>1
          <6>3. CASE AppendSync(j)
            <7>1. /\ InPhase(j, "sync") /\ ~InPhase(j, "write")
                  /\ ~InPhase(j, "write")' /\ ~InPhase(j, "sync")'
              BY <1>0, <6>3 DEF AppendSync, InPhase
            <7> QED BY <1>2, <3>1, <3>5, <4>1, <5>1, <5>4, <7>1
          <6> QED BY <1>0, <1>5, <2>3, <4>4, <6>1, <6>2, <6>3, TaskStep
        <5> QED BY <5>2, <5>3, <5>4
      <4> QED BY <4>2, <4>3, <4>4
    <3> HIDE DEF Good
    <3> QED BY <2>1, <3>4, <3>5
  <2> QED BY <2>2, <2>3
<1>6. Readable' /\ \A j \in Instance : j = reader' => Good(j)
  BY <1>3, <1>4, <1>5
<1> QED BY <1>6

\* What a save changes of the files and of itself.
LEMMA StoredStep ==
  ASSUME TypeOK, SavesAreJournalled, [Next]_vars
  PROVE  /\ \/ StoredSvg' = StoredSvg
            \/ /\ StageSnapshot /\ job # None /\ job.phase = "write"
               /\ \/ StoredSvg' = job.snap
                  \/ StoredSvg' = << >> /\ ~HasItems(job.snap)
            \/ /\ PublishSnapshot /\ job # None /\ job.phase = "staged"
               /\ StoredSvg' = job.snap
         /\ \/ job' = None
            \/ job' = job /\ backup' \in {backup, None}
            \/ StartSave /\ job'.snap = << >> /\ job'.phase = "drain"
            \/ /\ TakeSnapshot /\ job # None /\ Drained(job.inst) /\ ~Skips(job.inst)
               /\ ~journalFailed[job.inst]
               /\ job'.snap = log[job.inst] /\ job'.phase = "write"
            \/ /\ StageSnapshot \/ PublishSnapshot
               /\ job # None /\ job'.snap = job.snap
               /\ job'.phase = "staged" => backup' = job.snap /\ job.phase = "write"
               /\ job'.phase # "write"
<1>0. /\ FilesTypeOK
      /\ job # None => job \in Jobs /\ job.snap # None
  BY SequenceTypes DEF TypeOK
<1> DEFINE Stored == \/ StoredSvg' = StoredSvg
                     \/ /\ StageSnapshot /\ job # None /\ job.phase = "write"
                        /\ \/ StoredSvg' = job.snap
                           \/ StoredSvg' = << >> /\ ~HasItems(job.snap)
                     \/ /\ PublishSnapshot /\ job # None /\ job.phase = "staged"
                        /\ StoredSvg' = job.snap
           Moved == \/ job' = None
                    \/ job' = job /\ backup' \in {backup, None}
                    \/ StartSave /\ job'.snap = << >> /\ job'.phase = "drain"
                    \/ /\ TakeSnapshot /\ job # None /\ Drained(job.inst) /\ ~Skips(job.inst)
                       /\ ~journalFailed[job.inst]
                       /\ job'.snap = log[job.inst] /\ job'.phase = "write"
                    \/ /\ StageSnapshot \/ PublishSnapshot
                       /\ job # None /\ job'.snap = job.snap
                       /\ job'.phase = "staged" => backup' = job.snap /\ job.phase = "write"
                       /\ job'.phase # "write"
<1>1. ASSUME NEW i \in Instance, LoadSvg(i) PROVE Stored /\ Moved
  <2>1. job' = job BY <1>1 DEF LoadSvg, saving
  <2>2. CASE svg = None /\ backup # None
    <3>1. svg' = backup /\ backup' = None BY <1>1, <2>2 DEF LoadSvg
    <3>2. StoredSvg' = StoredSvg BY <2>2, <3>1 DEF StoredSvg
    <3> QED BY <2>1, <3>1, <3>2
  <2>3. CASE ~(svg = None /\ backup # None)
    <3>1. svg' = svg /\ backup' = backup BY <1>1, <2>3 DEF LoadSvg
    <3>2. StoredSvg' = StoredSvg BY <3>1 DEF StoredSvg
    <3> QED BY <2>1, <3>1, <3>2
  <2> QED BY <2>2, <2>3
<1>2. ASSUME StageSnapshot PROVE Stored /\ Moved
  <2>1. job # None /\ job.phase = "write" /\ job \in Jobs /\ job.snap # None
    BY <1>0, <1>2 DEF StageSnapshot
  <2>2. CASE Rewriting \/ HasItems(job.snap)
    <3>1. backup' = job.snap /\ svg' = svg /\ job' = [job EXCEPT !.phase = "staged"]
      BY <1>2, <2>2 DEF StageSnapshot
    <3>2. StoredSvg' = StoredSvg \/ StoredSvg' = job.snap BY <2>1, <3>1 DEF StoredSvg
    <3>3. job'.snap = job.snap /\ job'.phase = "staged" BY <2>1, <3>1 DEF Jobs
    <3> QED BY <1>2, <2>1, <3>1, <3>2, <3>3
  <2>3. CASE ~(Rewriting \/ HasItems(job.snap))
    <3>1. backup' = None /\ svg' = None /\ job' = [job EXCEPT !.phase = "published"]
      BY <1>2, <2>3 DEF StageSnapshot
    <3>2. StoredSvg' = << >> BY <3>1 DEF StoredSvg
    <3>3. job'.snap = job.snap /\ job'.phase = "published" BY <2>1, <3>1 DEF Jobs
    <3> QED BY <1>2, <2>1, <2>3, <3>2, <3>3
  <2> QED BY <2>2, <2>3
<1>3. ASSUME PublishSnapshot PROVE Stored /\ Moved
  <2>1. /\ job # None /\ job.phase = "staged" /\ job \in Jobs /\ job.snap # None
        /\ backup # None /\ svg' = backup /\ job' = [job EXCEPT !.phase = "published"]
    BY <1>0, <1>3 DEF PublishSnapshot
  <2>2. backup = job.snap BY <2>1 DEF SavesAreJournalled
  <2>3. StoredSvg' = job.snap BY <2>1, <2>2 DEF StoredSvg
  <2>4. job'.snap = job.snap /\ job'.phase = "published" BY <2>1 DEF Jobs
  <2> QED BY <1>3, <2>1, <2>3, <2>4
<1>4. ASSUME UNCHANGED <<svg, backup>> PROVE Stored
  BY <1>4 DEF StoredSvg
<1>5. ASSUME TakeSnapshot PROVE Moved
  <2>1. \/ job' = None
        \/ /\ job # None /\ Drained(job.inst) /\ ~Skips(job.inst) /\ ~journalFailed[job.inst]
           /\ job' = Job(job.inst, job.by, "write", log[job.inst])
    BY <1>5 DEF TakeSnapshot, EndSave
  <2> QED BY <1>5, <2>1 DEF Job
<1>6. ASSUME StartSave PROVE Moved
  <2>1. job' = Job(Head(saveQueue).inst, Head(saveQueue).by, "drain", << >>)
    BY <1>6 DEF StartSave
  <2> QED BY <1>6, <2>1 DEF Job
<1>7. FinishSave \/ DropStale \/ SaveFail \/ Crash => job' = None
  BY DEF FinishSave, DropStale, SaveFail, Crash, EndSave
<1>8. Stored
  <2> HIDE DEF Stored
  <2> QED BY <1>1, <1>2, <1>3, <1>4, Frame
<1>9. job' = job /\ UNCHANGED <<svg, backup>> => Moved OBVIOUS
<1>10. job' = None => Moved OBVIOUS
<1>11. Moved
  <2> HIDE DEF Moved
  <2> QED BY <1>1, <1>2, <1>3, <1>5, <1>6, <1>7, <1>9, <1>10, Frame
<1> QED BY <1>8, <1>11


LEMMA JobType ==
  ASSUME TypeOK
  PROVE  job # None => job \in Jobs /\ job.snap \in Seq(Edit) /\ job.inst \in Instance
BY SequenceTypes

LEMMA NextJobType ==
  ASSUME TypeOK'
  PROVE  job' # None => job' \in Jobs /\ job'.snap \in Seq(Edit) /\ job'.inst \in Instance
BY DEF TypeOK, SavingTypeOK, Jobs

\* The instance that is saved is ready, and what it has recorded is journalled
\* when its appends have settled.
LEMMA DrainedIsJournalled ==
  ASSUME IInv, job # None, Drained(job.inst), ~journalFailed[job.inst], ~Lost
  PROVE  IsPrefix(log[job.inst], History)
<1>0. job.inst \in Instance BY JobType DEF IInv
<1>1. status[job.inst] = "ready" BY <1>0 DEF IInv, BusyInstancesAreReady, Busy, Saving
<1>2. ~InPhase(job.inst, "write") /\ ~InPhase(job.inst, "sync")
  BY DEF Drained, Appending, InPhase
<1> QED BY <1>0, <1>1, <1>2 DEF IInv, LogIsJournalled

LEMMA SavesAreJournalledStep ==
  ASSUME IInv, TypeOK', [Next]_vars
  PROVE  SavesAreJournalled'
<1>0. TypeOK /\ SavesAreJournalled BY DEF IInv
<1> SUFFICES ASSUME job' # None
             PROVE  /\ Lost' \/ IsPrefix(job'.snap, History')
                    /\ job'.phase = "staged" => backup' \in {job'.snap, None}
  BY DEF SavesAreJournalled
<1>1. ~Crash BY DEF Crash
<1>2. History \in Seq(Edit) /\ History' \in Seq(Edit) BY <1>0, SequenceTypes, NextSequenceTypes
<1>3. IsPrefix(History, History') BY <1>0, <1>1, JournalStep
<1>4. Lost => Lost' BY <1>0, LostStays
<1>5. job # None => job.snap \in Seq(Edit) /\ job.inst \in Instance BY <1>0, JobType
<1>6. job # None => Lost \/ IsPrefix(job.snap, History') \/ ~IsPrefix(job.snap, History)
  BY <1>2, <1>3, <1>5, PrefixTransitive
<1>7. CASE job' = job /\ backup' \in {backup, None}
  <2>1. job # None BY <1>7
  <2>2. Lost \/ IsPrefix(job.snap, History') BY <1>0, <1>6, <2>1 DEF SavesAreJournalled
  <2>3. job.phase = "staged" => backup \in {job.snap, None} BY <1>0, <2>1 DEF SavesAreJournalled
  <2> QED BY <1>4, <1>7, <2>2, <2>3
<1>8. CASE StartSave /\ job'.snap = << >> /\ job'.phase = "drain"
  BY <1>2, <1>8, EmptyIsPrefix
<1>9. CASE /\ TakeSnapshot /\ job # None /\ Drained(job.inst) /\ ~journalFailed[job.inst]
           /\ job'.snap = log[job.inst] /\ job'.phase = "write"
  <2>1. Lost \/ IsPrefix(log[job.inst], History) BY <1>9, DrainedIsJournalled
  <2>2. log[job.inst] \in Seq(Edit) BY <1>0, <1>5, <1>9, SequenceTypes
  <2>3. Lost \/ IsPrefix(log[job.inst], History') BY <1>2, <1>3, <2>1, <2>2, PrefixTransitive
  <2> QED BY <1>4, <1>9, <2>3
<1>10. CASE /\ job # None /\ job'.snap = job.snap
            /\ job'.phase = "staged" => backup' = job.snap
  <2>1. Lost \/ IsPrefix(job.snap, History') BY <1>0, <1>6, <1>10 DEF SavesAreJournalled
  <2> QED BY <1>4, <1>10, <2>1
<1> QED BY <1>0, <1>7, <1>8, <1>9, <1>10, StoredStep

\* How an instance gets to read the journal.
LEMMA RecoveringStep ==
  ASSUME IInv, [Next]_vars, NEW j \in Instance, status'[j] = "recovering"
  PROVE  \/ status[j] = "recovering" /\ log'[j] = log[j]
         \/ LoadSvg(j) \/ MisreadSvg(j)
<1>0. InstancesTypeOK BY DEF IInv, TypeOK
<1>1. status[j] = "recovering" \/ LoadSvg(j) \/ MisreadSvg(j)
  <2>1. ASSUME NEW i \in Instance, StartLoad(i) \/ LoadJournal(i) \/ LoadFails(i)
        PROVE  status[j] = "recovering"
    BY <1>0, <2>1 DEF StartLoad, LoadJournal, LoadFails, InstancesTypeOK, CutTornMember
  <2>2. ASSUME NEW i \in Instance, LoadSvg(i) \/ MisreadSvg(i), i # j
        PROVE  status[j] = "recovering"
    BY <1>0, <2>2 DEF LoadSvg, MisreadSvg, InstancesTypeOK
  <2>3. ~Crash BY <1>0 DEF Crash, InstancesTypeOK
  <2> QED BY <2>1, <2>2, <2>3, Frame
<1>2. ASSUME LoadJournal(j) PROVE FALSE
  BY <1>0, <1>2 DEF LoadJournal, InstancesTypeOK, CutTornMember
<1>3. status[j] = "recovering" => ~(status[j] = "ready") OBVIOUS
<1> QED BY <1>1, <1>2, <1>3, LogStep

LEMMA SnapshotIsRightStep ==
  ASSUME IInv, TypeOK', [Next]_vars
  PROVE  SnapshotIsRight'
<1>0. TypeOK /\ SavesAreJournalled /\ SnapshotIsRight /\ BusyInstancesAreReady
      /\ FilesTypeOK /\ InstancesTypeOK
  BY DEF IInv, TypeOK
<1> SUFFICES ASSUME ~Lost'
             PROVE  /\ Comparable(StoredSvg', History')
                    /\ \A j \in Instance :
                         /\ status'[j] = "ready" => IsPrefix(StoredSvg', History')
                         /\ status'[j] = "recovering" =>
                              \/ log'[j] = StoredSvg'
                              \/ IsPrefix(log'[j], History') /\ IsPrefix(StoredSvg', History')
  BY DEF SnapshotIsRight, Comparable
<1>1. ~Lost /\ ~misread /\ ~misread' BY <1>0, LostStays DEF Lost
<1>2. /\ History \in Seq(Edit) /\ History' \in Seq(Edit) /\ StoredSvg \in Seq(Edit)
      /\ StoredSvg' \in Seq(Edit) /\ Len(History) = Len(journal) /\ Len(journal) \in Nat
      /\ Len(StoredSvg) \in Nat
  BY <1>0, SequenceTypes, NextSequenceTypes, HistoryType, LenProperties
<1>3. /\ Comparable(StoredSvg, History)
      /\ \A i \in Instance : status[i] = "ready" => IsPrefix(StoredSvg, History)
      /\ \A i \in Instance : status[i] = "recovering" =>
           \/ log[i] = StoredSvg
           \/ IsPrefix(log[i], History) /\ IsPrefix(StoredSvg, History)
  BY <1>0, <1>1 DEF SnapshotIsRight
<1>4. CASE Crash
  <2>1. UNCHANGED <<svg, backup>> BY <1>4 DEF Crash
  <2>2. StoredSvg' = StoredSvg BY <2>1 DEF StoredSvg
  <2>3. PICK k \in synced..Len(journal) : journal' = SubSeq(journal, 1, k) BY <1>4 DEF Crash
  <2>4. k \in 0..Len(journal) /\ journal \in Seq(Members) BY <1>0, <1>2, <2>3 DEF FilesTypeOK
  <2>5. IsPrefix(History', History) BY <2>3, <2>4, EditsOfInitialPart DEF History
  <2>6. Comparable(StoredSvg', History')
    <3>1. CASE IsPrefix(StoredSvg, History)
      BY <1>2, <2>2, <2>5, <3>1, PrefixesCompare DEF Comparable
    <3>2. CASE IsPrefix(History, StoredSvg)
      BY <1>2, <2>2, <2>5, <3>2, PrefixTransitive DEF Comparable
    <3> QED BY <1>3, <3>1, <3>2 DEF Comparable
  <2>7. \A j \in Instance : status'[j] # "ready" /\ status'[j] # "recovering"
    BY <1>4 DEF Crash
  <2> QED BY <2>6, <2>7
<1>5. CASE ~Crash
  <2>1. IsPrefix(History, History') BY <1>0, <1>5, JournalStep
  <2>2. ASSUME NEW s \in Seq(Edit), IsPrefix(s, History) PROVE IsPrefix(s, History')
    BY <1>2, <2>1, <2>2, PrefixTransitive
  <2>3. \/ StoredSvg' = StoredSvg
        \/ IsPrefix(StoredSvg', History') /\ IsPrefix(StoredSvg, History')
    <3>1. CASE /\ job # None
               /\ StoredSvg' = job.snap \/ StoredSvg' = << >>
      <4>1. job.snap \in Seq(Edit) /\ job.inst \in Instance BY <1>0, <3>1, JobType
      <4>2. status[job.inst] = "ready" BY <1>0, <3>1, <4>1 DEF BusyInstancesAreReady, Busy, Saving
      <4>3. IsPrefix(StoredSvg, History') BY <1>2, <1>3, <2>2, <4>1, <4>2
      <4>4. IsPrefix(job.snap, History') BY <1>0, <1>1, <2>2, <3>1, <4>1 DEF SavesAreJournalled
      <4>5. IsPrefix(<< >>, History') BY <1>2, EmptyIsPrefix
      <4> QED BY <3>1, <4>3, <4>4, <4>5
    <3> QED BY <1>0, <3>1, StoredStep
  <2>4. ASSUME NEW j \in Instance, status[j] = "ready" \/ LoadJournal(j)
        PROVE  IsPrefix(StoredSvg', History')
    <3>1. IsPrefix(StoredSvg, History')
      <4>1. CASE status[j] = "ready" BY <1>2, <1>3, <2>2, <4>1
      <4>2. CASE LoadJournal(j) BY <1>1, <4>2, LoadEndsWithHistory
      <4> QED BY <2>4, <4>1, <4>2
    <3> QED BY <2>3, <3>1
  <2>5. Comparable(StoredSvg', History')
    <3>1. CASE journal' = journal
      <4>1. History' = History BY <3>1 DEF History
      <4> QED BY <1>3, <2>3, <4>1 DEF Comparable
    <3>2. ASSUME NEW j \in Instance, LoadJournal(j) \/ AppendWrite(j)
          PROVE  Comparable(StoredSvg', History')
      <4>1. AppendWrite(j) => status[j] = "ready" BY <1>0, WorkersAreReady DEF AppendWrite
      <4> QED BY <2>4, <3>2, <4>1 DEF Comparable
    <3> QED BY <1>5, <3>1, <3>2, Frame
  <2>6. ASSUME NEW j \in Instance, status'[j] = "ready" PROVE IsPrefix(StoredSvg', History')
    BY <1>0, <2>4, <2>6, ReadyStep
  <2>7. ASSUME NEW j \in Instance, status'[j] = "recovering"
        PROVE  \/ log'[j] = StoredSvg'
               \/ IsPrefix(log'[j], History') /\ IsPrefix(StoredSvg', History')
    <3>1. CASE LoadSvg(j)
      <4>1. log'[j] = StoredSvg BY <1>0, <3>1 DEF LoadSvg, InstancesTypeOK
      <4> QED BY <2>3, <4>1
    <3>2. CASE MisreadSvg(j)
      <4>1. log'[j] = << >> BY <1>0, <3>2 DEF MisreadSvg, InstancesTypeOK
      <4>2. Len(StoredSvg) <= Len(journal)
        <5>1. misread' = (misread \/ Len(StoredSvg) > Len(journal)) BY <3>2 DEF MisreadSvg
        <5>2. ~(Len(StoredSvg) > Len(journal)) BY <1>1, <5>1
        <5> QED BY <1>2, <5>2
      <4>3. IsPrefix(StoredSvg, History)
        <5>1. CASE IsPrefix(History, StoredSvg)
          <6>1. Len(History) <= Len(StoredSvg)
                /\ \A k \in 1..Len(History) : History[k] = StoredSvg[k]
            BY <1>2, <5>1, PrefixByElements
          <6>2. Len(History) = Len(StoredSvg) BY <1>2, <4>2, <6>1
          <6>3. History = StoredSvg BY <1>2, <6>1, <6>2, SeqEqual
          <6> QED BY <5>1, <6>3
        <5> QED BY <1>3, <5>1 DEF Comparable
      <4>4. IsPrefix(StoredSvg, History') BY <1>2, <2>2, <4>3
      <4>5. IsPrefix(log'[j], History') BY <1>2, <4>1, EmptyIsPrefix
      <4> QED BY <2>3, <4>4, <4>5
    <3>3. CASE status[j] = "recovering" /\ log'[j] = log[j]
      <4>1. CASE log[j] = StoredSvg BY <2>3, <3>3, <4>1
      <4>2. CASE IsPrefix(log[j], History) /\ IsPrefix(StoredSvg, History)
        <5>1. log[j] \in Seq(Edit) BY <1>0, SequenceTypes
        <5>2. IsPrefix(log'[j], History') BY <2>2, <3>3, <4>2, <5>1
        <5>3. IsPrefix(StoredSvg, History') BY <1>2, <2>2, <4>2
        <5> QED BY <2>3, <5>2, <5>3
      <4> QED BY <1>3, <3>3, <4>1, <4>2
    <3> QED BY <2>7, <3>1, <3>2, <3>3, RecoveringStep
  <2> QED BY <2>5, <2>6, <2>7
<1> QED BY <1>4, <1>5

\* What the history variables remember, they keep.
LEMMA GhostsStay ==
  ASSUME [Next]_vars
  PROVE  orphans \subseteq orphans' /\ (misread => misread')
<1>1. ASSUME NEW i \in Instance, ResumeUnload(i) PROVE orphans \subseteq orphans'
  BY <1>1 DEF ResumeUnload
<1>2. ASSUME NEW i \in Instance, MisreadSvg(i), misread PROVE misread'
  <2>1. misread' = (misread \/ Len(StoredSvg) > Len(journal)) BY <1>2 DEF MisreadSvg
  <2> QED BY <1>2, <2>1
<1> QED BY <1>1, <1>2, Frame

\* The registry knows every live instance while no name was deleted wrongly.
LEMMA LiveIsRegistered ==
  ASSUME IInv, orphans = {}, NEW i \in Instance, Live(i)
  PROVE  loadedBoard = i
BY DEF IInv, RegistryIsRight

LEMMA SavesExtendStep ==
  ASSUME IInv, TypeOK', [Next]_vars
  PROVE  SavesExtendTheSnapshot'
<1>0. TypeOK /\ SavesAreJournalled /\ SavesExtendTheSnapshot /\ BusyInstancesAreReady
      /\ InstancesTypeOK
  BY DEF IInv, TypeOK
<1> SUFFICES ASSUME orphans' = {}, ~misread'
             PROVE  /\ \A j \in Instance : Live(j)' =>
                         /\ IsPrefix(StoredSvg', log'[j])
                         /\ job' # None => IsPrefix(job'.snap, log'[j])
                    /\ job' # None /\ job'.phase \in {"write", "staged"} =>
                         IsPrefix(StoredSvg', job'.snap)
  BY DEF SavesExtendTheSnapshot
<1>1. orphans = {} /\ ~misread BY GhostsStay
<1>2. /\ History \in Seq(Edit) /\ History' \in Seq(Edit) /\ StoredSvg \in Seq(Edit)
      /\ \A j \in Instance : log[j] \in Seq(Edit) /\ log'[j] \in Seq(Edit)
  BY <1>0, SequenceTypes, NextSequenceTypes
<1>3. job # None => job.snap \in Seq(Edit) /\ job.inst \in Instance BY <1>0, JobType
<1>4. /\ \A j \in Instance : Live(j) =>
           /\ IsPrefix(StoredSvg, log[j])
           /\ job # None => IsPrefix(job.snap, log[j])
      /\ job # None /\ job.phase \in {"write", "staged"} => IsPrefix(StoredSvg, job.snap)
  BY <1>0, <1>1 DEF SavesExtendTheSnapshot
<1>5. ASSUME TakeSnapshot, job # None, ~Skips(job.inst)
      PROVE  Live(job.inst) /\ UNCHANGED <<svg, backup, log>> /\ StoredSvg' = StoredSvg
  <2>1. status[job.inst] = "ready" BY <1>0, <1>3, <1>5 DEF BusyInstancesAreReady, Busy, Saving
  <2>2. UNCHANGED <<svg, backup, log>> BY <1>5 DEF TakeSnapshot, files
  <2> QED BY <1>5, <2>1, <2>2 DEF Live, Skips, StoredSvg
<1>6. ASSUME NEW j \in Instance, Live(j)'
      PROVE  /\ IsPrefix(StoredSvg', log'[j])
             /\ job' # None => IsPrefix(job'.snap, log'[j])
  <2>1. ~Crash /\ (Live(j) \/ LoadJournal(j)) /\ ~LoadSvg(j) /\ ~MisreadSvg(j)
    BY <1>0, <1>6, ReadyStep DEF Live
  <2>2. CASE LoadJournal(j)
    <3>1. UNCHANGED <<svg, backup, job>> BY <2>2 DEF LoadJournal, CutTornMember
    <3>2. StoredSvg' = StoredSvg BY <3>1 DEF StoredSvg
    <3>3. /\ log'[j] = History' /\ ~Lost /\ IsPrefix(StoredSvg, History')
          /\ IsPrefix(History, History')
      BY <1>1, <2>2, LoadEndsWithHistory
    <3>4. job # None => IsPrefix(job.snap, History) BY <1>0, <3>3 DEF SavesAreJournalled
    <3>5. job # None => IsPrefix(job.snap, History')
      BY <1>2, <1>3, <3>3, <3>4, PrefixTransitive
    <3> QED BY <3>1, <3>2, <3>3, <3>5
  <2>3. CASE Live(j) /\ ~LoadJournal(j)
    <3>1. IsPrefix(log[j], log'[j])
      <4>1. CASE log'[j] = log[j] BY <1>2, <4>1, PrefixReflexive
      <4>2. CASE task[j] \in Tasks /\ log'[j] = Append(log[j], task[j].edit)
        <5>1. task[j].edit \in Edit BY <4>2 DEF Tasks
        <5>2. IsPrefix(log[j], log[j]) BY <1>2, PrefixReflexive
        <5> QED BY <1>2, <4>2, <5>1, <5>2, PrefixOfAppend
      <4> QED BY <2>1, <2>3, <4>1, <4>2, LogStep
    <3>2. ASSUME NEW s \in Seq(Edit), IsPrefix(s, log[j]) PROVE IsPrefix(s, log'[j])
      BY <1>2, <3>1, <3>2, PrefixTransitive
    <3>3. IsPrefix(StoredSvg, log'[j]) BY <1>2, <1>4, <2>3, <3>2
    <3>4. job # None => IsPrefix(job.snap, log'[j]) BY <1>3, <1>4, <2>3, <3>2
    <3>5. IsPrefix(<< >>, log'[j]) BY <1>2, EmptyIsPrefix
    <3>6. IsPrefix(StoredSvg', log'[j]) BY <1>0, <3>3, <3>4, <3>5, StoredStep
    <3>7. ASSUME TakeSnapshot, job # None, ~Skips(job.inst), job'.snap = log[job.inst]
          PROVE  IsPrefix(job'.snap, log'[j])
      <4>1. Live(job.inst) BY <3>7, <1>5
      <4>2. job.inst = j BY <1>1, <1>3, <2>3, <3>7, <4>1, LiveIsRegistered
      <4> QED BY <3>1, <3>7, <4>2
    <3>8. ASSUME job' # None PROVE IsPrefix(job'.snap, log'[j])
      BY <1>0, <3>4, <3>5, <3>7, <3>8, StoredStep
    <3> QED BY <3>6, <3>8
  <2> QED BY <2>1, <2>2, <2>3
<1>7. ASSUME job' # None, job'.phase \in {"write", "staged"}
      PROVE  IsPrefix(StoredSvg', job'.snap)
  <2>1. ASSUME job # None, job.phase \in {"write", "staged"}
        PROVE  IsPrefix(StoredSvg', job.snap)
    <3>1. IsPrefix(StoredSvg, job.snap) BY <1>4, <2>1
    <3>2. IsPrefix(job.snap, job.snap) BY <1>3, <2>1, PrefixReflexive
    <3>3. IsPrefix(<< >>, job.snap) BY <1>3, <2>1, EmptyIsPrefix
    <3> QED BY <1>0, <3>1, <3>2, <3>3, StoredStep
  <2>2. CASE job' = job BY <1>7, <2>1, <2>2
  <2>3. CASE job'.phase = "drain" BY <1>7, <2>3
  <2>4. CASE /\ TakeSnapshot /\ job # None /\ ~Skips(job.inst)
             /\ job'.snap = log[job.inst]
    <3>1. Live(job.inst) /\ StoredSvg' = StoredSvg BY <1>5, <2>4
    <3>2. IsPrefix(StoredSvg, log[job.inst]) BY <1>3, <1>4, <2>4, <3>1
    <3> QED BY <2>4, <3>1, <3>2
  <2>5. CASE (StageSnapshot \/ PublishSnapshot) /\ job # None /\ job'.snap = job.snap
    <3>1. job.phase \in {"write", "staged"} BY <2>5 DEF StageSnapshot, PublishSnapshot
    <3> QED BY <2>1, <2>5, <3>1
  <2> QED BY <1>0, <1>7, <2>2, <2>3, <2>4, <2>5, StoredStep
<1> QED BY <1>6, <1>7

\* Acknowledged is what was synced.
LEMMA AckedStep ==
  ASSUME TypeOK, TypeOK', [Next]_vars, NEW e \in Acked'
  PROVE  e \in Acked \/ \E i \in Instance : AppendSync(i) /\ e = task[i].edit
<1> USE DEF TypeOK
<1>0. e \in Edit /\ outcome'[e] = "acked" BY DEF Acked
<1>1. ASSUME outcome[e] # "acked"
      PROVE  \E i \in Instance : AppendSync(i) /\ e = task[i].edit
  <2>1. ASSUME NEW i \in Instance, Begin(i) \/ Refuse(i) \/ Apply(i) \/ AppendFail(i) PROVE FALSE
    BY <1>0, <1>1, <2>1 DEF Begin, Refuse, Apply, AppendFail, OutsideTypeOK, Dispose, DelaySave
  <2>2. ASSUME NEW i \in Instance, NEW f \in Edit, Submit(f, i) PROVE FALSE
    BY <1>0, <1>1, <2>2 DEF Submit, OutsideTypeOK
  <2>3. ~Crash BY <1>0, <1>1 DEF Crash
  <2>4. ASSUME NEW i \in Instance, AppendSync(i) PROVE e = task[i].edit
    BY <1>0, <1>1, <2>4 DEF AppendSync, OutsideTypeOK
  <2> QED BY <1>0, <1>1, <2>1, <2>2, <2>3, <2>4, Frame
<1> QED BY <1>0, <1>1 DEF Acked

LEMMA AcksAreRightStep ==
  ASSUME IInv, TypeOK', [Next]_vars
  PROVE  AcksAreRight'
<1>0. TypeOK /\ AcksAreRight /\ FilesTypeOK /\ FilesTypeOK' /\ InstancesTypeOK /\ OutsideTypeOK
      /\ OutsideTypeOK'
  BY DEF IInv, TypeOK
<1>1. /\ synced <= synced' /\ synced \in Nat /\ synced' \in Nat
      /\ \A k \in 1..synced : journal'[k] = journal[k]
  BY <1>0, JournalStep, LenProperties DEF FilesTypeOK
<1>2. ASSUME NEW e \in Acked'
      PROVE  e \in Acked \/ \E i \in Instance : AppendSync(i) /\ e = task[i].edit
  BY <1>0, <1>2, AckedStep
<1>3. ASSUME NEW e \in Acked'
      PROVE  \/ \E k \in 1..synced' : journal'[k].edit = e
             \/ tail' = "garbled" /\ synced' = Len(journal')
  <2>1. CASE e \in Acked
    <3>1. ASSUME NEW k \in 1..synced, journal[k].edit = e
          PROVE  \E l \in 1..synced' : journal'[l].edit = e
      <4>1. k \in 1..synced' /\ journal'[k].edit = e BY <1>1, <3>1
      <4> QED BY <4>1
    <3>2. CASE tail = "garbled" /\ synced = Len(journal) BY <1>0, <3>2, GarbledStays
    <3> QED BY <1>0, <2>1, <3>1, <3>2 DEF AcksAreRight
  <2>2. ASSUME NEW i \in Instance, AppendSync(i), e = task[i].edit
        PROVE  \/ \E k \in 1..synced' : journal'[k].edit = e
               \/ tail' = "garbled" /\ synced' = Len(journal')
    <3>1. /\ journal' = journal /\ tail' = tail /\ synced' = Len(journal) /\ InPhase(i, "sync")
      BY <2>2 DEF AppendSync, InPhase
    <3>2. CASE tail = "garbled" BY <3>1, <3>2
    <3>3. CASE e \in ToSet(History)
      <4>1. PICK k \in 1..Len(journal) : journal[k].edit = e
        BY <1>0, <3>3, HistoryType DEF ToSet
      <4> QED BY <3>1, <4>1
    <3> QED BY <1>0, <2>2, <3>1, <3>2, <3>3 DEF AcksAreRight
  <2> QED BY <1>2, <2>1, <2>2
<1>4. ASSUME NEW i \in Instance, InPhase(i, "sync")'
      PROVE  task'[i].edit \in ToSet(History') \/ tail' = "garbled"
  <2>0. History \in Seq(Edit) /\ History' \in Seq(Edit)
    BY <1>0, SequenceTypes, NextSequenceTypes
  <2>1. ~Crash BY <1>4 DEF Crash, InPhase
  <2>2. CASE task'[i] = task[i]
    <3>1. InPhase(i, "sync") BY <1>4, <2>2 DEF InPhase
    <3>2. tail = "garbled" => tail' = "garbled" BY <1>0, <2>1, GarbledStays
    <3>3. ToSet(History) \subseteq ToSet(History') BY <1>0, <2>0, <2>1, JournalStep, PrefixToSet
    <3> QED BY <1>0, <2>2, <3>1, <3>2, <3>3 DEF AcksAreRight
  <2>3. CASE Apply(i)
    <3>1. task'[i] = None \/ task'[i] = [task[i] EXCEPT !.phase = "write"]
      BY <1>0, <2>3 DEF Apply, InstancesTypeOK, DelaySave
    <3>2. task[i] \in Tasks BY <1>0, <2>3 DEF Apply, InstancesTypeOK
    <3> QED BY <1>4, <3>1, <3>2 DEF InPhase, Tasks
  <2>4. CASE AppendWrite(i)
    <3>1. /\ task'[i].edit = task[i].edit /\ task[i].edit \in Edit
          /\ History' = Append(History, task[i].edit) \/ tail' = "garbled"
      BY <1>0, <2>4, AppendWriteEffect
    <3>2. task[i].edit \in ToSet(Append(History, task[i].edit))
      <4>1. /\ Append(History, task[i].edit) # << >> /\ Append(History, task[i].edit) \in Seq(Edit)
            /\ Last(Append(History, task[i].edit)) = task[i].edit
        BY <2>0, <3>1, FrontOfAppend
      <4> QED BY <4>1, LastIsIn
    <3> QED BY <3>1, <3>2
  <2> QED BY <1>0, <1>4, <2>1, <2>2, <2>3, <2>4, TaskStep
<1> QED BY <1>3, <1>4 DEF AcksAreRight

LEMMA LateStays ==
  ASSUME TypeOK, TypeOK', [Next]_vars
  PROVE  late \subseteq late'
<1>1. ASSUME NEW i \in Instance, LoadJournal(i) PROVE late \subseteq late'
  BY <1>1, LoadJournalEffect
<1>2. ASSUME NEW i \in Instance, AppendWrite(i) \/ AppendFail(i) PROVE late \subseteq late'
  BY <1>2 DEF AppendWrite, AppendFail, WritesBy
<1>3. ASSUME Crash PROVE late \subseteq late' BY <1>3 DEF Crash, WritesBy
<1> QED BY <1>1, <1>2, <1>3, Frame

\* The edit whose append has just reached the file is the last that the reader
\* has recorded, or a late one.
LEMMA WrittenIsKnown ==
  ASSUME IInv, NEW i \in Instance, AppendWrite(i), NEW j \in Instance, Ready(j)
  PROVE  task[i].edit \in ToSet(log[j]) \union late'
<1>1. TypeOK /\ AppendsTheLast /\ reader = j BY DEF IInv, RegistryIsRight
<1>2. WritesBy(i, {task[i].edit}) /\ Appending(i) BY DEF AppendWrite, Appending
<1>3. CASE i = j
  <2>1. log[i] # << >> /\ task[i].edit = Last(log[i]) BY <1>1, <1>2 DEF AppendsTheLast
  <2>2. log[i] \in Seq(Edit) BY <1>1, SequenceTypes
  <2> QED BY <1>3, <2>1, <2>2, LastIsIn
<1>4. CASE i # j BY <1>1, <1>2, <1>4 DEF WritesBy
<1> QED BY <1>3, <1>4

LEMMA NothingIsMissingStep ==
  ASSUME IInv, TypeOK', [Next]_vars
  PROVE  NothingIsMissing'
<1>0. TypeOK /\ NothingIsMissing /\ FilesTypeOK /\ FilesTypeOK' /\ InstancesTypeOK
      /\ AcksAreRight'
  BY AcksAreRightStep DEF IInv, TypeOK
<1> SUFFICES ASSUME ~misread', NEW j \in Instance, Ready(j)', NEW e \in Recorded', e \notin late'
             PROVE  e \in ToSet(log'[j])
  BY DEF NothingIsMissing
<1>1. ~misread /\ late \subseteq late' BY <1>0, GhostsStay, LateStays
<1>2. /\ ~Crash /\ (status[j] = "ready" \/ LoadJournal(j)) /\ ~LoadSvg(j) /\ ~MisreadSvg(j)
  BY <1>0, ReadyStep DEF Ready
<1>3. /\ History \in Seq(Edit) /\ History' \in Seq(Edit)
      /\ log[j] \in Seq(Edit) /\ log'[j] \in Seq(Edit)
      /\ DOMAIN History' = 1..Len(journal')
      /\ \A k \in 1..Len(journal') : History'[k] = journal'[k].edit
      /\ Len(journal') \in Nat /\ Len(journal) \in Nat
  BY <1>0, SequenceTypes, NextSequenceTypes, LenProperties DEF FilesTypeOK
<1>4. \/ e \in ToSet(History') \/ e \in Acked'
      \/ \E i \in Instance : InPhase(i, "sync")' /\ e = task'[i].edit
  BY DEF Recorded
<1>5. CASE LoadJournal(j)
  <2>1. log'[j] = History' /\ tail' = "clean"
    BY <1>0, <1>1, <1>5, LoadEndsWithHistory, LoadJournalEffect
  <2>2. ASSUME e \in Acked' PROVE e \in ToSet(History')
    <3>1. PICK k \in 1..synced' : journal'[k].edit = e
      BY <1>0, <2>1, <2>2 DEF AcksAreRight
    <3>2. k \in 1..Len(journal') BY <1>0, <1>3 DEF FilesTypeOK
    <3> QED BY <1>3, <3>1, <3>2 DEF ToSet
  <2>3. ASSUME NEW i \in Instance, InPhase(i, "sync")', e = task'[i].edit
        PROVE  e \in ToSet(History')
    BY <1>0, <2>1, <2>3 DEF AcksAreRight
  <2> QED BY <1>4, <2>1, <2>2, <2>3
<1>6. CASE ~LoadJournal(j)
  <2>1. status[j] = "ready" BY <1>2, <1>6
  <2>2. Ready(j)
    <3>1. ASSUME NEW i \in Instance, StartLoad(i) PROVE FALSE
      BY <1>0, <2>1, <3>1 DEF StartLoad, Ready, InstancesTypeOK
    <3>2. ASSUME NEW i \in Instance, ResumeUnload(i) PROVE loadedBoard' \in {loadedBoard, None}
      BY <3>2 DEF ResumeUnload
    <3>3. DropStale => loadedBoard' \in {loadedBoard, None} BY DEF DropStale
    <3>4. loadedBoard' = j /\ j # None BY ConstantsAssumption DEF Ready
    <3>5. loadedBoard = j BY <1>2, <3>1, <3>2, <3>3, <3>4, Frame
    <3> QED BY <2>1, <3>5 DEF Ready
  <2>3. IsPrefix(log[j], log'[j])
    <3>1. CASE log'[j] = log[j] BY <1>3, <3>1, PrefixReflexive
    <3>2. CASE task[j] \in Tasks /\ log'[j] = Append(log[j], task[j].edit)
      <4>1. task[j].edit \in Edit BY <3>2 DEF Tasks
      <4>2. IsPrefix(log[j], log[j]) BY <1>3, PrefixReflexive
      <4> QED BY <1>3, <3>2, <4>1, <4>2, PrefixOfAppend
    <3> QED BY <1>2, <1>6, <3>1, <3>2, LogStep
  <2>4. ToSet(log[j]) \subseteq ToSet(log'[j]) BY <1>3, <2>3, PrefixToSet
  <2>5. e \in Recorded => e \in ToSet(log'[j])
    BY <1>0, <1>1, <2>2, <2>4 DEF NothingIsMissing
  <2>6. ASSUME NEW i \in Instance, AppendWrite(i), e = task[i].edit
        PROVE  e \in ToSet(log'[j])
    BY <2>2, <2>4, <2>6, WrittenIsKnown
  <2>7. CASE e \in ToSet(History')
    <3>1. PICK k \in 1..Len(journal') : journal'[k].edit = e BY <1>3, <2>7 DEF ToSet
    <3>2. ASSUME k \in 1..Len(journal), journal'[k] = journal[k] PROVE e \in Recorded
      <4>1. e \in ToSet(History) BY <1>0, <3>1, <3>2, HistoryType DEF ToSet
      <4> QED BY <4>1 DEF Recorded
    <3>3. CASE journal' = journal BY <2>5, <3>2, <3>3
    <3>4. ASSUME NEW i \in Instance, LoadJournal(i) PROVE e \in ToSet(log'[j])
      <4>1. i # j /\ loadedBoard # i BY <1>6, <2>2, <3>4 DEF Ready
      <4>2. /\ \A l \in 1..Len(journal) : journal'[l] = journal[l]
            /\ \/ journal' = journal
               \/ \A l \in Len(journal) + 1..Len(journal') : journal'[l].edit \in late'
        BY <1>0, <3>4, <4>1, LoadJournalEffect
      <4>3. CASE k \in 1..Len(journal) BY <2>5, <3>2, <4>2, <4>3
      <4>4. CASE k \in Len(journal) + 1..Len(journal') BY <2>5, <3>1, <3>2, <4>2, <4>4
      <4> QED BY <1>3, <4>3, <4>4
    <3>5. ASSUME NEW i \in Instance, AppendWrite(i) PROVE e \in ToSet(log'[j])
      <4>1. \/ /\ Len(journal') = Len(journal) + 1
               /\ \A l \in 1..Len(journal) : journal'[l] = journal[l]
               /\ journal'[Len(journal) + 1] = [seq |-> Len(log[i]), edit |-> task[i].edit]
            \/ journal' = journal
        BY <1>0, <3>5, AppendWriteEffect
      <4>2. CASE k \in 1..Len(journal) BY <2>5, <3>2, <4>1, <4>2
      <4>3. CASE k = Len(journal) + 1 /\ Len(journal') = Len(journal) + 1
                 /\ journal'[Len(journal) + 1] = [seq |-> Len(log[i]), edit |-> task[i].edit]
        BY <2>6, <3>1, <3>5, <4>3
      <4> QED BY <1>3, <3>3, <4>1, <4>2, <4>3
    <3> QED BY <1>2, <3>3, <3>4, <3>5, Frame
  <2>8. CASE e \in Acked'
    <3>1. e \in Acked => e \in Recorded BY DEF Recorded
    <3>2. ASSUME NEW i \in Instance, AppendSync(i), e = task[i].edit PROVE e \in Recorded
      <4>1. InPhase(i, "sync") BY <3>2 DEF AppendSync, InPhase
      <4> QED BY <3>2, <4>1 DEF Recorded
    <3> QED BY <1>0, <2>5, <2>8, <3>1, <3>2, AckedStep
  <2>9. ASSUME NEW i \in Instance, InPhase(i, "sync")', e = task'[i].edit
        PROVE  e \in ToSet(log'[j])
    <3>1. CASE task'[i] = task[i]
      <4>1. InPhase(i, "sync") BY <2>9, <3>1 DEF InPhase
      <4>2. e \in Recorded BY <2>9, <3>1, <4>1 DEF Recorded
      <4> QED BY <2>5, <4>2
    <3>2. CASE Apply(i)
      <4>1. task'[i] = None \/ task'[i] = [task[i] EXCEPT !.phase = "write"]
        BY <1>0, <3>2 DEF Apply, InstancesTypeOK, DelaySave
      <4>2. task[i] \in Tasks BY <1>0, <3>2 DEF Apply, InstancesTypeOK
      <4> QED BY <2>9, <4>1, <4>2 DEF InPhase, Tasks
    <3>3. CASE AppendWrite(i)
      <4>1. task'[i].edit = task[i].edit BY <1>0, <3>3, AppendWriteEffect
      <4> QED BY <2>6, <2>9, <3>3, <4>1
    <3> QED BY <1>0, <1>2, <2>9, <3>1, <3>2, <3>3, TaskStep
  <2> QED BY <1>4, <2>7, <2>8, <2>9
<1> QED BY <1>5, <1>6


\* The answer to an edit is given once, when it leaves the session queue.
LEMMA WorkStep ==
  ASSUME IInv, TypeOK', [Next]_vars
  PROVE  /\ WorkIsPending'
         /\ \A e \in Edit : outcome[e] = "acked" => outcome'[e] = "acked"
<1> DEFINE Kept == \A e \in Edit : outcome[e] = "acked" => outcome'[e] = "acked"
<1>0. /\ InstancesTypeOK /\ OutsideTypeOK /\ WorkIsPending
      /\ task \in [Instance -> Tasks \union {None}] /\ queue \in [Instance -> Seq(Edit)]
      /\ outcome \in [Edit -> {"new", "pending", "acked", "rejected", "unanswered"}]
  BY DEF IInv, TypeOK, InstancesTypeOK, OutsideTypeOK
<1>1. \A i \in Instance : DOMAIN queue[i] = 1..Len(queue[i]) /\ Len(queue[i]) \in Nat
  BY <1>0, LenProperties
<1>2. \A i \in Instance : \A k \in Positions(i) : k \in Nat /\ InHand(i, k) \in Edit
  BY <1>0, <1>1, ElementOfSeq DEF Positions, InHand, Tasks
<1>3. ASSUME UNCHANGED <<task, queue, outcome>> PROVE WorkIsPending' /\ Kept
  BY <1>0, <1>3 DEF WorkIsPending, Positions, InHand
\* Instance i lets one edit go, or none; those it keeps have moved up by n.
<1>4. ASSUME NEW i \in Instance, NEW n \in {0, 1}, NEW x \in Positions(i),
             \A k \in Positions(i)' :
                k + n \in Positions(i) /\ InHand(i, k)' = InHand(i, k + n),
             \A j \in Instance : j # i => task'[j] = task[j] /\ queue'[j] = queue[j],
             \/ outcome' = outcome
             \/ /\ \E a \in {"acked", "rejected", "unanswered"} :
                     outcome' = [outcome EXCEPT ![InHand(i, x)] = a]
                /\ \A k \in Positions(i)' : k + n # x
      PROVE  WorkIsPending' /\ Kept
  <2>1. outcome[InHand(i, x)] = "pending" /\ InHand(i, x) \in Edit
    BY <1>0, <1>2, <1>4 DEF WorkIsPending
  <2>2. Kept BY <1>0, <1>4, <2>1
  <2>3. \A j \in Instance : j # i =>
          /\ Positions(j)' = Positions(j)
          /\ \A k \in Positions(j) : InHand(j, k)' = InHand(j, k)
    BY <1>4 DEF Positions, InHand
  <2> DEFINE Origin(j, k) == IF j = i THEN k + n ELSE k
  <2>4. ASSUME NEW j \in Instance, NEW k \in Positions(j)'
        PROVE  Origin(j, k) \in Positions(j) /\ InHand(j, k)' = InHand(j, Origin(j, k))
    BY <1>4, <2>3, <2>4
  <2>5. ASSUME NEW j \in Instance, NEW k \in Positions(j)'
        PROVE  outcome'[InHand(j, k)'] = "pending"
    <3>1. /\ outcome[InHand(j, Origin(j, k))] = "pending"
          /\ InHand(j, Origin(j, k)) = InHand(i, x) => j = i /\ Origin(j, k) = x
      BY <1>0, <1>4, <2>4, <2>5 DEF WorkIsPending
    <3>2. CASE outcome' = outcome BY <2>4, <2>5, <3>1, <3>2
    <3>3. CASE outcome' # outcome
      <4>1. InHand(j, Origin(j, k)) # InHand(i, x) BY <1>4, <2>5, <3>1, <3>3
      <4> QED BY <1>0, <1>2, <1>4, <2>4, <2>5, <3>1, <3>3, <4>1
    <3> QED BY <3>2, <3>3
  <2>a. queue' \in [Instance -> Seq(Edit)] BY DEF TypeOK, InstancesTypeOK
  <2>6. ASSUME NEW j \in Instance, NEW k \in Positions(j)',
               NEW m \in Instance, NEW l \in Positions(m)', InHand(j, k)' = InHand(m, l)'
        PROVE  j = m /\ k = l
    <3>1. Origin(j, k) \in Positions(j) /\ InHand(j, k)' = InHand(j, Origin(j, k)) BY <2>4
    <3>2. Origin(m, l) \in Positions(m) /\ InHand(m, l)' = InHand(m, Origin(m, l)) BY <2>4
    <3> HIDE DEF Origin
    <3>3. InHand(j, Origin(j, k)) = InHand(m, Origin(m, l)) BY <2>6, <3>1, <3>2
    <3>4. j = m /\ Origin(j, k) = Origin(m, l) BY <1>0, <3>1, <3>2, <3>3 DEF WorkIsPending
    <3>5. \A o \in Instance : \A q \in Positions(o)' : q \in Nat
      BY <2>a, LenProperties DEF Positions
    <3>6. k \in Nat /\ l \in Nat BY <2>6, <3>5
    <3> QED BY <3>4, <3>6 DEF Origin
  <2> QED BY <2>2, <2>5, <2>6 DEF WorkIsPending
<1>5. ASSUME NEW i \in Instance, Begin(i) PROVE WorkIsPending' /\ Kept
  <2>1. task[i] = None /\ queue[i] # << >> /\ queue'[i] = Tail(queue[i])
    BY <1>0, <1>5 DEF Begin
  <2>2. /\ Len(queue[i]) \in Nat \ {0} /\ Head(queue[i]) = queue[i][1]
        /\ DOMAIN Tail(queue[i]) = 1..Len(queue[i]) - 1
        /\ \A k \in 1..Len(queue[i]) - 1 : Tail(queue[i])[k] = queue[i][k + 1]
    <3>1. queue[i] \in Seq(Edit) BY <1>0
    <3>2. /\ Tail(queue[i]) \in Seq(Edit) /\ Len(Tail(queue[i])) = Len(queue[i]) - 1
          /\ \A k \in 1..Len(Tail(queue[i])) : Tail(queue[i])[k] = queue[i][k + 1]
      BY <2>1, <3>1, HeadTailProperties
    <3>3. Len(queue[i]) \in Nat \ {0} BY <2>1, <3>1, LenProperties, EmptySeq
    <3>4. Head(queue[i]) = queue[i][1] BY <3>1
    <3> QED BY <3>2, <3>3, <3>4, LenProperties
  <2>3. 1 \in Positions(i) /\ InHand(i, 1) = Head(queue[i])
    BY <1>1, <2>1, <2>2 DEF Positions, InHand
  <2>4. Positions(i) = 1..Len(queue[i]) BY <1>1, <2>1 DEF Positions
  <2>5. CASE disposed[i]
    <3>1. task'[i] = None /\ outcome' = [outcome EXCEPT ![InHand(i, 1)] = "rejected"]
      BY <1>5, <2>1, <2>3, <2>5 DEF Begin
    <3>2. Positions(i)' = 1..Len(queue[i]) - 1 BY <2>1, <2>2, <3>1 DEF Positions
    <3>3. \A k \in Positions(i)' :
            k + 1 \in Positions(i) /\ k + 1 # 1 /\ InHand(i, k)' = InHand(i, k + 1)
      BY <2>1, <2>2, <2>4, <3>2 DEF InHand
    <3>4. \A j \in Instance : j # i => task'[j] = task[j] /\ queue'[j] = queue[j]
      BY <1>0, <1>5, <2>5 DEF Begin
    <3> QED BY <1>4, <2>3, <3>1, <3>3, <3>4
  <2>6. CASE ~disposed[i]
    <3>1. task'[i] = Task(Head(queue[i]), "prepare") /\ outcome' = outcome
      BY <1>0, <1>5, <2>6 DEF Begin
    <3>2. Positions(i)' \subseteq 0..Len(queue[i]) - 1
      BY <2>1, <2>2 DEF Positions
    <3>3. \A k \in Positions(i)' :
            k + 1 \in Positions(i) /\ InHand(i, k)' = InHand(i, k + 1)
      BY <2>1, <2>2, <2>4, <3>1, <3>2 DEF InHand, Task
    <3>4. \A j \in Instance : j # i => task'[j] = task[j] /\ queue'[j] = queue[j]
      BY <1>0, <1>5, <2>6 DEF Begin
    <3> QED BY <1>4, <2>3, <3>1, <3>3, <3>4
  <2> QED BY <2>5, <2>6
<1>6. ASSUME NEW i \in Instance, task[i] # None, queue' = queue,
             \/ task' = [task EXCEPT ![i] = None]
             \/ outcome' = outcome /\ \E p : task' = [task EXCEPT ![i].phase = p],
             \/ outcome' = outcome
             \/ \E a \in {"acked", "rejected", "unanswered"} :
                   outcome' = [outcome EXCEPT ![task[i].edit] = a]
      PROVE  WorkIsPending' /\ Kept
  <2>1. 0 \in Positions(i) /\ InHand(i, 0) = task[i].edit BY <1>6 DEF Positions, InHand
  <2>2. \A j \in Instance : j # i => task'[j] = task[j] /\ queue'[j] = queue[j]
    BY <1>0, <1>6
  <2>3. CASE task' = [task EXCEPT ![i] = None]
    <3>1. Positions(i)' = 1..Len(queue[i]) BY <1>0, <1>1, <1>6, <2>3 DEF Positions
    <3>2. \A k \in Positions(i)' :
            k + 0 \in Positions(i) /\ k + 0 # 0 /\ InHand(i, k)' = InHand(i, k + 0)
      BY <1>1, <1>6, <3>1 DEF Positions, InHand
    <3> QED BY <1>4, <1>6, <2>1, <2>2, <3>2
  <2>4. CASE outcome' = outcome /\ \E p : task' = [task EXCEPT ![i].phase = p]
    <3>1. task'[i].edit = task[i].edit
      <4>1. PICK p : task' = [task EXCEPT ![i].phase = p] BY <2>4
      <4>2. task[i] \in Tasks /\ task'[i] = [task[i] EXCEPT !.phase = p] BY <1>0, <1>6, <4>1
      <4> QED BY <4>2 DEF Tasks
    <3>2. \A k \in Positions(i)' :
            k + 0 \in Positions(i) /\ InHand(i, k)' = InHand(i, k + 0)
      BY <1>1, <1>6, <2>1, <3>1 DEF Positions, InHand
    <3> QED BY <1>4, <2>1, <2>2, <2>4, <3>2
  <2> QED BY <1>6, <2>3, <2>4
<1>7. ASSUME NEW i \in Instance, Refuse(i) \/ Apply(i) \/ AppendWrite(i) \/ AppendSync(i)
                   \/ AppendFail(i)
      PROVE  WorkIsPending' /\ Kept
  <2>1. task[i] # None /\ queue' = queue
    BY <1>7 DEF Refuse, Apply, AppendWrite, AppendSync, AppendFail, Appending, Dispose
  <2>2. CASE Refuse(i) BY <1>6, <2>1, <2>2 DEF Refuse
  <2>3. CASE Apply(i) BY <1>6, <2>1, <2>3 DEF Apply
  <2>4. CASE AppendWrite(i) BY <1>6, <2>1, <2>4 DEF AppendWrite
  <2>5. CASE AppendSync(i) BY <1>6, <2>1, <2>5 DEF AppendSync
  <2>6. CASE AppendFail(i) BY <1>6, <2>1, <2>6 DEF AppendFail, Dispose
  <2> QED BY <1>7, <2>2, <2>3, <2>4, <2>5, <2>6
<1>8. ASSUME NEW i \in Instance, NEW e \in Edit, Submit(e, i) PROVE WorkIsPending' /\ Kept
  <2>1. /\ outcome[e] = "new" /\ outcome' = [outcome EXCEPT ![e] = "pending"]
        /\ queue' = [queue EXCEPT ![i] = Append(queue[i], e)] /\ task' = task
    BY <1>8 DEF Submit
  <2>2. Kept BY <1>0, <2>1
  <2> DEFINE n == Len(queue[i]) + 1
  <2>3. /\ DOMAIN queue'[i] = 1..n /\ queue'[i][n] = e /\ n \in Nat \ {0}
        /\ \A k \in 1..Len(queue[i]) : queue'[i][k] = queue[i][k]
    <3>1. queue'[i] = Append(queue[i], e) /\ queue[i] \in Seq(Edit) BY <1>0, <2>1
    <3>2. /\ Append(queue[i], e) \in Seq(Edit) /\ Len(Append(queue[i], e)) = n
          /\ \A k \in 1..Len(queue[i]) : Append(queue[i], e)[k] = queue[i][k]
          /\ Append(queue[i], e)[n] = e
      BY <3>1, AppendProperties
    <3> QED BY <1>1, <3>1, <3>2, LenProperties
  <2> HIDE DEF n
  <2>4. ASSUME NEW j \in Instance, NEW k \in Positions(j)'
        PROVE  \/ k \in Positions(j) /\ InHand(j, k)' = InHand(j, k)
               \/ j = i /\ k = n /\ InHand(j, k)' = e
    <3>1. CASE j # i BY <1>0, <2>1, <2>4, <3>1 DEF Positions, InHand
    <3>2. CASE j = i
      BY <1>1, <2>1, <2>3, <2>4, <3>2 DEF Positions, InHand, n
    <3> QED BY <3>1, <3>2
  <2>5. \A j \in Instance : \A k \in Positions(j) :
          InHand(j, k) # e /\ outcome'[InHand(j, k)] = "pending"
    BY <1>0, <1>2, <2>1 DEF WorkIsPending
  <2>6. outcome'[e] = "pending" BY <1>0, <2>1
  <2>7. ASSUME NEW j \in Instance, NEW k \in Positions(j)'
        PROVE  /\ outcome'[InHand(j, k)'] = "pending"
               /\ \A m \in Instance : \A l \in Positions(m)' :
                    InHand(j, k)' = InHand(m, l)' => j = m /\ k = l
    BY <1>0, <2>4, <2>5, <2>6, <2>7 DEF WorkIsPending
  <2> QED BY <2>2, <2>7 DEF WorkIsPending
<1>9. ASSUME Crash PROVE WorkIsPending' /\ Kept
  <2>1. \A i \in Instance : Positions(i)' = {}
    <3>1. DOMAIN << >> = {} BY SMT
    <3> QED BY <1>9, <3>1 DEF Crash, Positions
  <2>2. Kept BY <1>9 DEF Crash
  <2> QED BY <2>1, <2>2 DEF WorkIsPending
<1>10. \/ UNCHANGED <<task, queue, outcome>>
       \/ \E i \in Instance : \/ Begin(i) \/ Refuse(i) \/ Apply(i) \/ AppendWrite(i)
                             \/ AppendSync(i) \/ AppendFail(i)
                             \/ \E e \in Edit : Submit(e, i)
       \/ Crash
  BY DEF Next, StartLoad, LoadSvg, MisreadSvg, LoadJournal, LoadFails, ResumeUnload, TimerFires,
         Admit, Join, Leave, Closed, RetryUnload, StartSave, TakeSnapshot, StageSnapshot,
         PublishSnapshot, FinishSave, DropStale, SaveFail, session, vars, CutTornMember
<1> QED BY <1>3, <1>5, <1>7, <1>8, <1>9, <1>10

LEMMA InitIInv == Init => IInv
<1> SUFFICES ASSUME Init PROVE IInv
  OBVIOUS
<1>1. TypeOK BY InitTypeOK
<1>2. EditsOf(<< >>) = << >> /\ DOMAIN << >> = {} /\ << >> \in Seq(Edit) /\ Len(<< >>) = 0
  <2>1. << >> \in Seq(Members) /\ << >> \in Seq(Edit) /\ Len(<< >>) = 0 BY EmptySeq
  <2>2. EditsOf(<< >>) \in Seq(Edit) /\ Len(EditsOf(<< >>)) = 0 BY <2>1, EditsOfType
  <2>3. EditsOf(<< >>) = << >> BY <2>2, EmptySeq
  <2>4. DOMAIN << >> = 1..0 BY <2>1, LenProperties
  <2> QED BY <2>1, <2>3, <2>4
<1>3. StoredSvg = << >> /\ History = << >> BY <1>2 DEF Init, StoredSvg, History
<1>4. \A i \in Instance : ~InPhase(i, "write") /\ ~InPhase(i, "sync")
  BY DEF Init, InPhase
<1>5. Acked = {} BY DEF Init, Acked
<1>6. BusyInstancesAreReady BY <1>2 DEF Init, BusyInstancesAreReady, Busy, Saving
<1>7. RegistryIsRight
  BY ConstantsAssumption DEF Init, RegistryIsRight, Loading, Live, Ready
<1>8. AppendsTheLast BY DEF Init, AppendsTheLast, Appending
<1>9. LogIsJournalled BY DEF Init, LogIsJournalled
<1>10. ReaderFollowsItself
  <2>1. Readable BY <1>2 DEF Init, Readable
  <2>2. {reader} \cap Instance = {} BY ConstantsAssumption DEF Init
  <2> QED BY <2>1, <2>2 DEF ReaderFollowsItself
<1>11. SavesAreJournalled BY DEF Init, SavesAreJournalled
<1>12. SnapshotIsRight
  <2>1. IsPrefix(StoredSvg, History) BY <1>2, <1>3, PrefixReflexive
  <2> QED BY <2>1 DEF Init, SnapshotIsRight, Comparable
<1>13. SavesExtendTheSnapshot BY DEF Init, SavesExtendTheSnapshot, Live
<1>14. AcksAreRight BY <1>4, <1>5 DEF AcksAreRight
<1>15. NothingIsMissing BY ConstantsAssumption DEF Init, NothingIsMissing, Ready
<1>16. WorkIsPending BY <1>2 DEF Init, WorkIsPending, Positions
<1> QED
  BY <1>1, <1>6, <1>7, <1>8, <1>9, <1>10, <1>11, <1>12, <1>13, <1>14, <1>15, <1>16 DEF IInv

LEMMA StepIInv == IInv /\ [Next]_vars => IInv'
<1> SUFFICES ASSUME IInv, [Next]_vars PROVE IInv'
  OBVIOUS
<1>1. TypeOK' BY StepTypeOK DEF IInv
<1> QED
  BY <1>1, BusyStep, RegistryStep, AppendsTheLastStep, LogIsJournalledStep,
     ReaderFollowsItselfStep, SavesAreJournalledStep, SnapshotIsRightStep, SavesExtendStep,
     AcksAreRightStep, NothingIsMissingStep, WorkStep DEF IInv

\* Every reachable state satisfies the inductive invariant: what memory, the
\* snapshot and the journal of a board still have to do with one another,
\* however many instances of it are alive.
THEOREM InvariantHolds == Spec => []IInv
<1>1. Init => IInv BY InitIInv
<1>2. IInv /\ [Next]_vars => IInv' BY StepIInv
<1> QED BY <1>1, <1>2, PTL DEF Spec

\* An acknowledged edit is in the synced journal, and only one that was written
\* behind a torn member is there without being readable.
THEOREM AckedEditsAreNeverLost == Spec => []AckedEditsAreDurable
<1>1. IInv => AckedEditsAreDurable BY DEF IInv, AcksAreRight, AckedEditsAreDurable
<1> QED BY <1>1, InvariantHolds, PTL

\* While no instance has written behind the back of the one that read the
\* journal last, it can be read, whatever crashed or failed.
THEOREM JournalStaysReadable == Spec => []OnlyLateWritesBreakTheJournal
<1>1. IInv => OnlyLateWritesBreakTheJournal
  BY DEF IInv, ReaderFollowsItself, OnlyLateWritesBreakTheJournal
<1> QED BY <1>1, InvariantHolds, PTL

\* Two instances take edits only when one of them has lost its name to the
\* unload of another.
THEOREM OneInstanceTakesEdits == Spec => []OneLiveInstance
<1>1. IInv => OneLiveInstance
  <2>1. IInv => RegistryIsRight BY DEF IInv
  <2>2. RegistryIsRight => OneLiveInstance BY DEF RegistryIsRight, OneLiveInstance
  <2> QED BY <2>1, <2>2
<1> QED BY <1>1, InvariantHolds, PTL

\* Snapshot and journal, as far as either can be read, are prefixes of one
\* history.
THEOREM SnapshotAndJournalAgree == Spec => []SnapshotAgreesWithJournal
<1>1. IInv => SnapshotAgreesWithJournal
  <2> SUFFICES ASSUME IInv, Readable, ~misread PROVE Comparable(StoredSvg, History)
    BY DEF SnapshotAgreesWithJournal, Comparable, History
  <2>1. ~Lost BY HopelessIsUnreadable DEF IInv, TypeOK, Lost
  <2> QED BY <2>1 DEF IInv, SnapshotIsRight
<1> QED BY <1>1, InvariantHolds, PTL

\* Whoever is served a loaded board sees every acknowledged edit but the late
\* ones, even from an instance that a failed append has disposed of.
THEOREM LoadedBoardIsComplete == Spec => []LoadedBoardHasAckedEdits
<1>1. IInv => LoadedBoardHasAckedEdits
  <2>1. Acked \subseteq Recorded BY DEF Recorded
  <2>2. IInv => NothingIsMissing BY DEF IInv
  <2> QED BY <2>1, <2>2 DEF NothingIsMissing, LoadedBoardHasAckedEdits
<1> QED BY <1>1, InvariantHolds, PTL

-----------------------------------------------------------------------------
(* The board implements the log it promises *)

\* A crash takes members from the end, or adds a torn one.
LEMMA CrashEffect ==
  ASSUME IInv, IInv', Crash
  PROVE  /\ Acked' = Acked
         /\ \/ History' = History /\ (~Readable => ~Readable')
            \/ /\ IsStrictPrefix(History', History) /\ Acked \subseteq ToSet(History')
               /\ Readable => Readable'
<1>0. /\ FilesTypeOK /\ FilesTypeOK' /\ journal \in Seq(Members) /\ Len(journal) \in Nat
      /\ DOMAIN journal = 1..Len(journal) /\ DOMAIN journal' = 1..Len(journal')
  BY LenProperties DEF IInv, TypeOK, FilesTypeOK
<1>1. Acked' = Acked BY DEF Crash, Acked
<1>2. PICK n \in synced..Len(journal) :
        /\ journal' = SubSeq(journal, 1, n)
        /\ \/ n < Len(journal) /\ tail' \in {"clean", "torn"}
           \/ n = Len(journal) /\ tail' \in {tail, TornAt(tail)}
  BY DEF Crash
<1>3. n \in 0..Len(journal)
  <2>1. synced \in Nat BY <1>0 DEF FilesTypeOK
  <2>2. n \in synced..Len(journal) BY <1>2
  <2> HIDE <1>2
  <2> QED BY <1>0, <2>1, <2>2
<1>4. Len(journal') = n /\ \A k \in 1..n : journal'[k] = journal[k]
  BY <1>0, <1>2, <1>3, InitialPart
<1>5. CASE n = Len(journal)
  <2>1. journal' = journal BY <1>0, <1>4, <1>5, SeqEqual DEF FilesTypeOK
  <2>2. tail = "garbled" => tail' = "garbled" BY <1>2, <1>5, <1>0 DEF TornAt
  <2>3. ~Readable => ~Readable' BY <2>1, <2>2 DEF Readable
  <2> QED BY <1>1, <2>1, <2>3 DEF History
<1>6. CASE n < Len(journal) /\ tail' \in {"clean", "torn"}
  <2>1. IsPrefix(History', History) BY <1>0, <1>2, <1>3, EditsOfInitialPart DEF History
  <2>2. /\ DOMAIN History' = 1..n /\ Len(History') = n /\ Len(History) = Len(journal)
        /\ \A k \in 1..n : History'[k] = journal'[k].edit
    BY <1>0, <1>4, EditsOfType, HistoryType, LenProperties DEF History, FilesTypeOK
  <2>3. History' # History BY <1>0, <1>6, <2>2
  <2>4. Acked' \subseteq ToSet(History')
    <3>1. \A e \in Acked' : \E k \in 1..synced' : journal'[k].edit = e
      BY <1>6 DEF IInv, AcksAreRight
    <3>2. synced' \in 0..n BY <1>0, <1>4 DEF FilesTypeOK
    <3> QED BY <2>2, <3>1, <3>2 DEF ToSet
  <2>5. Readable => Readable'
    <3> SUFFICES ASSUME Readable, NEW k \in 1..n PROVE journal'[k].seq = k
      BY <1>0, <1>4, <1>6 DEF Readable
    <3>1. k \in DOMAIN journal BY <1>0, <1>3
    <3> QED BY <1>4, <3>1 DEF Readable
  <2> QED BY <1>1, <2>1, <2>3, <2>4, <2>5 DEF IsStrictPrefix
<1> QED BY <1>2, <1>5, <1>6

LEMMA StepImplementsLog ==
  ASSUME IInv, IInv', [Next]_vars
  PROVE  \/ /\ Acked' = Acked /\ (~Readable => ~Readable')
            /\ History' = History \/ IsStrictPrefix(History, History')
         \/ \E e \in Edit : /\ e \in ToSet(History) \/ ~Readable
                            /\ Acked' = Acked \union {e} /\ UNCHANGED History
                            /\ Readable' <=> Readable
         \/ /\ IsStrictPrefix(History', History) /\ Acked \subseteq ToSet(History')
            /\ Acked' = Acked /\ (Readable => Readable')
<1>0. TypeOK /\ TypeOK' /\ InstancesTypeOK /\ OutsideTypeOK BY DEF IInv, TypeOK
<1>1. ASSUME NEW i \in Instance, AppendSync(i)
      PROVE  \E e \in Edit : /\ e \in ToSet(History) \/ ~Readable
                             /\ Acked' = Acked \union {e} /\ UNCHANGED History
                             /\ Readable' <=> Readable
  <2>1. task[i].edit \in Edit BY <1>0, <1>1 DEF AppendSync, InstancesTypeOK, Tasks
  <2>2. task[i].edit \in ToSet(History) \/ ~Readable
    <3>1. InPhase(i, "sync") BY <1>1 DEF AppendSync, InPhase
    <3> QED BY <3>1 DEF IInv, AcksAreRight, Readable
  <2>3. journal' = journal /\ tail' = tail BY <1>1 DEF AppendSync
  <2>4. History' = History /\ (Readable' <=> Readable) BY <2>3 DEF History, Readable
  <2>5. Acked' = Acked \union {task[i].edit}
    BY <1>0, <1>1, <2>1 DEF AppendSync, Acked, OutsideTypeOK
  <2> QED BY <2>1, <2>2, <2>4, <2>5
<1>2. CASE Crash BY <1>2, CrashEffect
<1>3. CASE ~Crash /\ ~\E i \in Instance : AppendSync(i)
  <2>1. Acked \subseteq Acked' BY <1>0, WorkStep DEF Acked
  <2>2. Acked' \subseteq Acked BY <1>0, <1>3, AckedStep
  <2>3. IsPrefix(History, History') /\ (~Readable => ~Readable') BY <1>0, <1>3, JournalStep
  <2> QED BY <2>1, <2>2, <2>3 DEF IsStrictPrefix
<1> QED BY <1>1, <1>2, <1>3

\* Every behaviour of the board is one of the log it promises: edits are
\* recorded at the end, acknowledged once recorded, and lost unacknowledged;
\* once the log is broken it stays so, unless its last edits are lost.
THEOREM BoardIsDurableLog == Spec => ImplementsDurableLog
<1>1. Init => DurableHistory!Init
  <2>1. Init => EditsOf(journal) = << >> /\ Readable
    <3>1. << >> \in Seq(Members) /\ Len(<< >>) = 0 BY EmptySeq
    <3>2. EditsOf(<< >>) \in Seq(Edit) /\ Len(EditsOf(<< >>)) = 0 BY <3>1, EditsOfType
    <3>3. EditsOf(<< >>) = << >> BY <3>2, EmptySeq
    <3>4. DOMAIN << >> = 1..0 BY <3>1, LenProperties
    <3> QED BY <3>3, <3>4 DEF Init, Readable
  <2>2. Init => Acked = {} BY DEF Init, Acked
  <2> QED BY <2>1, <2>2 DEF DurableHistory!Init
<1>2. IInv /\ IInv' /\ [Next]_vars => [DurableHistory!Next]_DurableHistory!logVars
  <2> SUFFICES ASSUME IInv, IInv', [Next]_vars
               PROVE  DurableHistory!Next \/ UNCHANGED <<History, Acked, ~Readable>>
    BY DEF DurableHistory!logVars, History
  <2>1. ASSUME Acked' = Acked, ~Readable => ~Readable',
               History' = History \/ IsStrictPrefix(History, History')
        PROVE  DurableHistory!Next \/ UNCHANGED <<History, Acked, ~Readable>>
    <3>1. CASE IsStrictPrefix(History, History')
      <4>1. DurableHistory!Record
        BY <2>1, <3>1 DEF DurableHistory!Record, History, IsStrictPrefix, IsPrefix,
              DurableHistory!IsStrictPrefix, DurableHistory!IsPrefix
      <4> QED BY <4>1 DEF DurableHistory!Next
    <3>2. CASE History' = History /\ ~Readable'
      <4>1. DurableHistory!Break BY <2>1, <3>2 DEF DurableHistory!Break, History
      <4> QED BY <4>1 DEF DurableHistory!Next
    <3>3. CASE History' = History /\ Readable'
      <4>1. Readable BY <2>1, <3>3
      <4>2. ~Readable' <=> ~Readable BY <3>3, <4>1
      <4> QED BY <2>1, <3>3, <4>2
    <3> QED BY <2>1, <3>1, <3>2, <3>3
  <2>2. ASSUME NEW e \in Edit, e \in ToSet(History) \/ ~Readable,
               Acked' = Acked \union {e}, UNCHANGED History, Readable' <=> Readable
        PROVE  DurableHistory!Acknowledge(e)
    BY <2>2 DEF DurableHistory!Acknowledge, History, ToSet, DurableHistory!ToSet
  <2>3. /\ IsStrictPrefix(History', History) /\ Acked \subseteq ToSet(History')
        /\ Acked' = Acked /\ (Readable => Readable')
        => DurableHistory!Lose
    BY DEF DurableHistory!Lose, History, IsStrictPrefix, IsPrefix, ToSet,
           DurableHistory!IsStrictPrefix, DurableHistory!IsPrefix, DurableHistory!ToSet
  <2> QED BY <2>1, <2>2, <2>3, StepImplementsLog DEF DurableHistory!Next
<1> QED BY <1>1, <1>2, InvariantHolds, PTL DEF Spec, ImplementsDurableLog, DurableHistory!Spec

-----------------------------------------------------------------------------
(* The stored snapshot only gets longer *)

LEMMA SnapshotGrows ==
  ASSUME IInv, orphans = {}, ~misread, [Next]_vars
  PROVE  \/ IsPrefix(StoredSvg, StoredSvg')
         \/ StoredSvg' = << >> /\ job # None /\ ~HasItems(job.snap)
<1>0. TypeOK /\ SavesAreJournalled /\ SavesExtendTheSnapshot BY DEF IInv
<1>1. StoredSvg \in Seq(Edit) BY <1>0, SequenceTypes
<1>2. IsPrefix(StoredSvg, StoredSvg) BY <1>1, PrefixReflexive
<1>3. job # None /\ job.phase \in {"write", "staged"} => IsPrefix(StoredSvg, job.snap)
  BY <1>0 DEF SavesExtendTheSnapshot
<1> QED BY <1>0, <1>2, <1>3, StoredStep

\* The stored snapshot never goes back, whoever saves and whoever loads, as
\* long as no name was deleted by the unload of another instance and no
\* snapshot ahead of the journal was misread: not when the last save of a
\* forgotten instance meets the load of its successor.
THEOREM StoredSnapshotNeverGoesBack == Spec => SnapshotNeverGoesBack
<1>1. IInv /\ [Next]_vars =>
        [\/ IsPrefix(StoredSvg, StoredSvg')
         \/ StoredSvg' = << >> /\ job # None /\ ~HasItems(job.snap)
         \/ orphans # {} \/ misread]_vars
  BY SnapshotGrows
<1> QED BY <1>1, InvariantHolds, PTL DEF Spec, SnapshotNeverGoesBack

=============================================================================
