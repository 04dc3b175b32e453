--------------------------- MODULE CommitLogProofs ---------------------------
(***************************************************************************)
(* Theorems about CommitLog, for any jobs, sequence numbers, executions,   *)
(* output files and faults.                                                *)
(***************************************************************************)
EXTENDS CommitLog, TLAPS

\* Of the states a power cut may leave, only the newest one can hold a DONE.
Newest ==
    \A j \in Job : /\ dir[j] \in onDisk[j]
                   /\ \A d \in onDisk[j] : HasDone(d) => d = dir[j]

DoneIsWhole == \A j \in Job : HasDone(dir[j]) => Whole(dir[j])

\* What a commit() has done to its job's directory by the step it is at.
Partial(d, r) ==
    /\ d # NoDir /\ d.done = NoDone /\ d.status = NoRun
    /\ \A n \in Name : d.files[n] = NoRun \/ (d.files[n] = r /\ n \in OutputsOf[r])
InProgress ==
    /\ pc = "link" => dir[call.job] = EmptyDir
    /\ pc = "outputs" => Partial(dir[call.job], call.run)
    /\ pc = "rename" => /\ dir[call.job] # NoDir /\ dir[call.job].done = NoDone
                        /\ Whole(dir[call.job])
    /\ pc = "sync" => HasDone(dir[call.job])
    /\ pc \in {"outputs", "rename", "sync"} => NoDir \notin onDisk[call.job]
    /\ pc \in {"bump", "append", "syncState"} => call.job \in Durable

ConsumedDurable ==
    consumed \subseteq Durable /\ \A c \in consumedOnDisk : c \subseteq Durable

\* A DONE that is visible but not durable does not outlive the power cut that
\* precedes every boot.
BootDurable == pc \in {"off"} \cup BootSteps => Committed \subseteq Durable

\* The inductive invariant.
IInv == /\ TypeOK
        /\ Newest
        /\ DoneIsWhole
        /\ InProgress
        /\ ConsumedDurable
        /\ BootDurable

-----------------------------------------------------------------------------
(* Lemmas on directories.                                                  *)

\* A directory that was just made.
LEMMA EmptyDirFacts == EmptyDir \in Dir /\ EmptyDir # NoDir /\ ~HasDone(EmptyDir)
BY NoDirAssumption DEF EmptyDir, Dir, HasDone

\* A DONE has a sequence number.
LEMMA HasDoneSeq == ASSUME NEW d \in Dir \cup {NoDir}, HasDone(d)
                    PROVE  d \in Dir /\ d.done \in SeqNo
BY DEF HasDone, Dir

\* A job is durable iff its DONE stands alone among the states on disk.
LEMMA DurableIff ==
    ASSUME Newest, NEW j \in Job
    PROVE  j \in Durable <=> HasDone(dir[j]) /\ onDisk[j] = {dir[j]}
BY DEF Newest, Durable

\* While a commit() is at a step that writes, its job has no DONE.
LEMMA WritingHasNoDone ==
    ASSUME IInv, pc \in {"link", "outputs", "rename"}
    PROVE  /\ call \in Call /\ dir[call.job] \in Dir /\ ~HasDone(dir[call.job])
<1>1. call \in Call /\ dir[call.job] \in Dir \cup {NoDir}
  BY DEF IInv, TypeOK, Call, CommitSteps
<1>2. dir[call.job] # NoDir /\ ~HasDone(dir[call.job])
  BY EmptyDirFacts DEF IInv, InProgress, Partial, HasDone
<1> QED BY <1>1, <1>2

\* A change of a directory without DONE: what it may and may not disturb.
LEMMA ChangeFacts ==
    ASSUME IInv, call \in Call, ~HasDone(dir[call.job]),
           NEW d \in Dir, HasDone(d) => Whole(d), Change(d)
    PROVE  /\ dir' \in [Job -> Dir \cup {NoDir}]
           /\ onDisk' \in [Job -> SUBSET (Dir \cup {NoDir})]
           /\ dir'[call.job] = d /\ onDisk'[call.job] = onDisk[call.job] \cup {d}
           /\ Newest' /\ DoneIsWhole' /\ Durable \subseteq Durable'
           /\ ConsumedDurable'
<1>1. call.job \in Job
  BY DEF Call
<1>2. /\ dir' \in [Job -> Dir \cup {NoDir}]
      /\ onDisk' \in [Job -> SUBSET (Dir \cup {NoDir})]
      /\ dir'[call.job] = d /\ onDisk'[call.job] = onDisk[call.job] \cup {d}
      /\ \A j \in Job \ {call.job} : dir'[j] = dir[j] /\ onDisk'[j] = onDisk[j]
  BY <1>1 DEF IInv, TypeOK, Change
<1>3. \A e \in onDisk[call.job] : ~HasDone(e)
  BY <1>1 DEF IInv, Newest
<1>4. Newest'
  BY <1>1, <1>2, <1>3 DEF IInv, Newest, HasDone
<1>5. DoneIsWhole'
  BY <1>1, <1>2 DEF IInv, DoneIsWhole, HasDone, Whole
<1>6. Durable \subseteq Durable'
  BY <1>1, <1>2, DurableIff DEF IInv, Durable, HasDone
<1>7. ConsumedDurable'
  BY <1>6 DEF IInv, ConsumedDurable, Change
<1> QED BY <1>2, <1>4, <1>5, <1>6, <1>7

-----------------------------------------------------------------------------
(* Each kind of step preserves the invariant.                              *)

\* Steps that leave the store alone and end up outside commit() and the boot
\* pass, or where the invariant says nothing of the directories.
LEMMA StoreUnchanged ==
    ASSUME IInv, UNCHANGED store, TypeOK', pc' \in {"idle", "commit", "failed"}
    PROVE  IInv'
<1>1. Newest' /\ DoneIsWhole' /\ ConsumedDurable'
  BY DEF IInv, store, Newest, DoneIsWhole, ConsumedDurable, Durable
<1>2. InProgress' /\ BootDurable'
  BY DEF InProgress, BootDurable, BootSteps
<1> QED BY <1>1, <1>2 DEF IInv

\* What was handed out has its type.
LEMMA HandedType ==
    ASSUME IInv, NEW j \in Job, HasDone(dir[j]), Give(j)
    PROVE  handed' \in [Job -> SUBSET Run]
<1>1. dir[j].status \in Run
  BY DEF IInv, DoneIsWhole, Whole
<1> QED BY <1>1 DEF IInv, TypeOK, Give

\* A step that commits nothing keeps the invariant.
LEMMA OffCommitStep ==
    ASSUME IInv,
           \/ \E j \in Job, s \in SeqNo, r \in Run : Start(j, s, r)
           \/ \E j \in Job, s \in SeqNo : Replay(j, s)
           \/ CommitAgain \/ Kill \/ Raise \/ GiveUp \/ BootFails
    PROVE  IInv'
<1>1. ASSUME NEW j \in Job, NEW s \in SeqNo, NEW r \in Run, Start(j, s, r)
      PROVE  IInv'
  <2>1. TypeOK' /\ pc' = "commit"
    BY <1>1 DEF Start, IInv, TypeOK, store, Call, CommitSteps
  <2> QED BY <1>1, <2>1, StoreUnchanged DEF Start
<1>2. ASSUME NEW j \in Job, NEW s \in SeqNo, Replay(j, s)
      PROVE  IInv'
  <2>1. TypeOK' /\ pc' = "idle"
    BY <1>2, HandedType DEF Replay, IInv, TypeOK, store
  <2> QED BY <1>2, <2>1, StoreUnchanged DEF Replay
<1>3. CASE CommitAgain
  <2>1. call.job \in Job
    BY <1>3 DEF CommitAgain, IInv, TypeOK, Call, CommitSteps
  <2>2. TypeOK' /\ pc' = "idle"
    BY <1>3, <2>1, HandedType DEF CommitAgain, IInv, TypeOK, store, CommitSteps
  <2> QED BY <1>3, <2>2, StoreUnchanged DEF CommitAgain
<1>4. CASE Kill \/ Raise \/ GiveUp \/ BootFails
  <2>1. /\ TypeOK' /\ pc' \in {"idle", "failed"}
        /\ UNCHANGED store
    BY <1>4 DEF Kill, Raise, GiveUp, BootFails, Goto, IInv, TypeOK, store, CommitSteps
  <2> QED BY <2>1, StoreUnchanged
<1> QED BY <1>1, <1>2, <1>3, <1>4

\* A step of commit() that changes its job's directory.
LEMMA WriteStep ==
    ASSUME IInv, \/ MakeDir \/ (\E n \in Name : WriteOutput(n))
                 \/ WriteStatus \/ RenameDone
    PROVE  IInv'
<1>1. CASE MakeDir
  <2>1. call \in Call /\ ~HasDone(dir[call.job])
    BY <1>1 DEF MakeDir, IInv, TypeOK, CommitSteps
  <2>2. Change(EmptyDir) /\ pc' = "link" /\ UNCHANGED <<call, handed>>
    BY <1>1 DEF MakeDir, Wiped, Goto
  <2>3. /\ dir' \in [Job -> Dir \cup {NoDir}]
        /\ onDisk' \in [Job -> SUBSET (Dir \cup {NoDir})]
        /\ dir'[call.job] = EmptyDir
        /\ Newest' /\ DoneIsWhole' /\ ConsumedDurable'
    BY <2>1, <2>2, EmptyDirFacts, ChangeFacts
  <2>4. TypeOK'
    BY <2>1, <2>2, <2>3 DEF IInv, TypeOK, Change, CommitSteps
  <2>5. InProgress' /\ BootDurable'
    BY <2>2, <2>3 DEF InProgress, BootDurable, BootSteps
  <2> QED BY <2>3, <2>4, <2>5 DEF IInv
<1>2. ASSUME NEW n \in Name, WriteOutput(n)
      PROVE  IInv'
  <2> DEFINE d == [dir[call.job] EXCEPT !.files[n] = call.run]
  <2>1. call \in Call /\ dir[call.job] \in Dir /\ ~HasDone(dir[call.job])
    BY <1>2, WritingHasNoDone DEF WriteOutput
  <2>2. Change(d) /\ pc = "outputs" /\ UNCHANGED <<pc, call, handed>>
    BY <1>2 DEF WriteOutput
  <2>3. Partial(dir[call.job], call.run) /\ NoDir \notin onDisk[call.job]
    BY <2>2 DEF IInv, InProgress
  <2>4. d \in Dir /\ Partial(d, call.run)
    BY <1>2, <2>1, <2>3, NoDirAssumption DEF Dir, Call, Partial, WriteOutput
  <2>5. /\ dir' \in [Job -> Dir \cup {NoDir}]
        /\ onDisk' \in [Job -> SUBSET (Dir \cup {NoDir})]
        /\ dir'[call.job] = d /\ onDisk'[call.job] = onDisk[call.job] \cup {d}
        /\ Newest' /\ DoneIsWhole' /\ ConsumedDurable'
    <3>1. ~HasDone(d)
      BY <2>4 DEF Partial, HasDone
    <3> HIDE DEF d
    <3> QED BY <3>1, <2>1, <2>2, <2>4, ChangeFacts
  <2> HIDE DEF d
  <2>6. TypeOK'
    BY <2>1, <2>2, <2>5 DEF IInv, TypeOK, Change
  <2>7. InProgress'
    BY <2>2, <2>3, <2>4, <2>5 DEF InProgress, Partial
  <2>8. BootDurable'
    BY <2>2 DEF BootDurable, BootSteps
  <2> QED BY <2>5, <2>6, <2>7, <2>8 DEF IInv
<1>3. CASE WriteStatus
  <2> DEFINE d == [dir[call.job] EXCEPT !.status = call.run]
  <2>1. call \in Call /\ dir[call.job] \in Dir /\ ~HasDone(dir[call.job])
    BY <1>3, WritingHasNoDone DEF WriteStatus
  <2>2. Change(d) /\ pc = "outputs" /\ pc' = "rename" /\ UNCHANGED <<call, handed>>
    BY <1>3 DEF WriteStatus, Goto
  <2>3. Partial(dir[call.job], call.run) /\ NoDir \notin onDisk[call.job]
    BY <2>2 DEF IInv, InProgress
  <2>4. d \in Dir /\ d # NoDir /\ d.done = NoDone
    BY <2>1, <2>3, NoDirAssumption DEF Dir, Call, Partial
  <2>5. Whole(d)
    <3>1. d.status = call.run /\ d.files = dir[call.job].files /\ call.run \in Run
      BY <2>1 DEF Dir, Call
    <3>2. d.files \in [Name -> Run \cup {NoRun}]
      BY <2>1, <3>1 DEF Dir
    <3>3. \A n \in Name : d.files[n] = IF n \in OutputsOf[call.run] THEN call.run ELSE NoRun
      BY <1>3, <2>3, <3>1 DEF WriteStatus, Partial
    <3> HIDE DEF d
    <3> QED BY <3>1, <3>2, <3>3 DEF Whole
  <2>6. /\ dir' \in [Job -> Dir \cup {NoDir}]
        /\ onDisk' \in [Job -> SUBSET (Dir \cup {NoDir})]
        /\ dir'[call.job] = d /\ onDisk'[call.job] = onDisk[call.job] \cup {d}
        /\ Newest' /\ DoneIsWhole' /\ ConsumedDurable'
    <3> HIDE DEF d
    <3> QED BY <2>1, <2>2, <2>4, <2>5, ChangeFacts
  <2> HIDE DEF d
  <2>7. TypeOK'
    BY <2>1, <2>2, <2>6 DEF IInv, TypeOK, Change, CommitSteps
  <2>8. InProgress' /\ BootDurable'
    BY <2>2, <2>3, <2>4, <2>5, <2>6 DEF InProgress, BootDurable, BootSteps, Whole
  <2> QED BY <2>6, <2>7, <2>8 DEF IInv
<1>4. CASE RenameDone
  <2> DEFINE d == [dir[call.job] EXCEPT !.done = call.seq]
  <2>1. call \in Call /\ dir[call.job] \in Dir /\ ~HasDone(dir[call.job])
    BY <1>4, WritingHasNoDone DEF RenameDone
  <2>2. Change(d) /\ pc = "rename" /\ pc' = "sync" /\ UNCHANGED <<call, handed>>
    BY <1>4 DEF RenameDone, Goto
  <2>3. Whole(dir[call.job]) /\ NoDir \notin onDisk[call.job]
    BY <2>2 DEF IInv, InProgress
  <2>4. d \in Dir /\ d # NoDir /\ HasDone(d)
    BY <2>1, NoDirAssumption, SeqNoAssumption DEF Dir, Call, HasDone, NoDone
  <2>5. Whole(d)
    BY <2>1, <2>3 DEF Whole, Dir
  <2>6. /\ dir' \in [Job -> Dir \cup {NoDir}]
        /\ onDisk' \in [Job -> SUBSET (Dir \cup {NoDir})]
        /\ dir'[call.job] = d /\ onDisk'[call.job] = onDisk[call.job] \cup {d}
        /\ Newest' /\ DoneIsWhole' /\ ConsumedDurable'
    <3> HIDE DEF d
    <3> QED BY <2>1, <2>2, <2>4, <2>5, ChangeFacts
  <2> HIDE DEF d
  <2>7. TypeOK'
    BY <2>1, <2>2, <2>6 DEF IInv, TypeOK, Change, CommitSteps
  <2>8. InProgress' /\ BootDurable'
    BY <2>2, <2>3, <2>4, <2>6 DEF InProgress, BootDurable, BootSteps
  <2> QED BY <2>6, <2>7, <2>8 DEF IInv
<1> QED BY <1>1, <1>2, <1>3, <1>4

\* An fsync of commit() only narrows what a power cut may leave.
LEMMA FsyncStep ==
    ASSUME IInv, SyncParent \/ SyncDir
    PROVE  IInv'
<1>1. call \in Call /\ call.job \in Job
  BY DEF SyncParent, SyncDir, IInv, TypeOK, CommitSteps, Call
<1>2. /\ dir' = dir /\ onDisk' \in [Job -> SUBSET (Dir \cup {NoDir})]
      /\ \A j \in Job : dir[j] \in onDisk'[j] /\ onDisk'[j] \subseteq onDisk[j]
  BY <1>1 DEF SyncParent, SyncDir, LinkSynced, DirSynced, IInv, TypeOK, Newest
<1>3. Newest' /\ DoneIsWhole'
  BY <1>2 DEF IInv, Newest, DoneIsWhole
<1>4. TypeOK'
  BY <1>1, <1>2 DEF SyncParent, SyncDir, Goto, IInv, TypeOK, CommitSteps
<1>5. ConsumedDurable'
  <2>1. Durable \subseteq Durable'
    BY <1>2 DEF Durable
  <2> QED BY <2>1 DEF SyncParent, SyncDir, IInv, ConsumedDurable
<1>6. InProgress' /\ BootDurable'
  <2>1. CASE SyncParent
    <3>1. pc = "link" /\ pc' = "outputs" /\ call' = call /\ dir[call.job] = EmptyDir
      BY <2>1 DEF SyncParent, Goto, IInv, InProgress
    <3>2. Partial(EmptyDir, call.run)
      BY NoDirAssumption DEF Partial, EmptyDir, Dir
    <3>3. NoDir \notin onDisk'[call.job]
      BY <1>1, <2>1, <3>1, EmptyDirFacts DEF SyncParent, LinkSynced
    <3> QED BY <1>2, <3>1, <3>2, <3>3 DEF InProgress, BootDurable, BootSteps, Partial
  <2>2. CASE SyncDir
    <3>1. /\ pc = "sync" /\ pc' = "bump" /\ call' = call
          /\ HasDone(dir[call.job]) /\ NoDir \notin onDisk[call.job]
      BY <2>2 DEF SyncDir, Goto, IInv, InProgress
    <3>2. onDisk'[call.job] = {dir[call.job]}
      BY <1>1, <2>2, <3>1 DEF SyncDir, DirSynced, IInv, TypeOK
    <3>3. (call.job \in Durable)'
      BY <1>1, <1>2, <3>1, <3>2 DEF Durable
    <3> QED BY <3>1, <3>3 DEF InProgress, BootDurable, BootSteps
  <2> QED BY <2>1, <2>2
<1> QED BY <1>3, <1>4, <1>5, <1>6 DEF IInv

\* The caches are brought up to date after the commit point.
LEMMA BumpStep ==
    ASSUME IInv, BumpSeq \/ AppendConsumed \/ SyncState
    PROVE  IInv'
<1>1. call \in Call /\ call.job \in Job /\ call.seq \in SeqNo /\ call.job \in Durable
  BY DEF BumpSeq, AppendConsumed, SyncState, IInv, TypeOK, InProgress, CommitSteps, Call
<1>2. UNCHANGED <<dir, onDisk>>
  BY DEF BumpSeq, AppendConsumed, SyncState
<1>3. Newest' /\ DoneIsWhole' /\ Durable' = Durable
  BY <1>2 DEF IInv, Newest, DoneIsWhole, Durable
<1>4. ConsumedDurable'
  <2>1. consumed' \subseteq Durable
    BY <1>1 DEF BumpSeq, AppendConsumed, SyncState, IInv, ConsumedDurable
  <2>2. consumedOnDisk' \subseteq consumedOnDisk \cup {consumed'}
    BY DEF BumpSeq, AppendConsumed, SyncState, CachesDurable
  <2> QED BY <1>3, <2>1, <2>2 DEF IInv, ConsumedDurable
<1>5. TypeOK'
  <2>1. CASE BumpSeq
    BY <1>1, <2>1 DEF BumpSeq, Goto, IInv, TypeOK, CommitSteps
  <2>2. CASE AppendConsumed
    BY <1>1, <2>2 DEF AppendConsumed, Goto, IInv, TypeOK, CommitSteps
  <2>3. CASE SyncState
    <3>1. HasDone(dir[call.job])
      BY <1>1, DurableIff DEF IInv
    <3> QED BY <1>1, <2>3, <3>1, HandedType
            DEF SyncState, CachesDurable, IInv, TypeOK, CommitSteps
  <2> QED BY <2>1, <2>2, <2>3
<1>6. InProgress' /\ BootDurable'
  BY <1>1, <1>3 DEF BumpSeq, AppendConsumed, SyncState, Goto, InProgress, BootDurable, BootSteps
<1> QED BY <1>3, <1>4, <1>5, <1>6 DEF IInv

\* The boot pass; every DONE it finds is durable.
LEMMA BootPreserves ==
    ASSUME IInv, BootStep
    PROVE  IInv'
<1>1. InProgress'
  BY DEF BootStep, Boot, Purge, BootSeq, BootConsumed, BootSync, Goto, InProgress
<1>2. CASE Boot
  <2>1. TypeOK'
    BY <1>2 DEF Boot, Goto, store, IInv, TypeOK, CommitSteps, BootSteps
  <2> QED BY <1>1, <1>2, <2>1
          DEF Boot, store, IInv, Newest, DoneIsWhole, ConsumedDurable, Durable,
              BootDurable, Committed
<1>3. ASSUME NEW j \in Job, Purge(j)
      PROVE  IInv'
  <2>1. /\ dir' \in [Job -> Dir \cup {NoDir}]
        /\ onDisk' \in [Job -> SUBSET (Dir \cup {NoDir})]
        /\ dir'[j] = NoDir /\ onDisk'[j] = onDisk[j] \cup {NoDir}
        /\ \A k \in Job \ {j} : dir'[k] = dir[k] /\ onDisk'[k] = onDisk[k]
        /\ ~HasDone(dir[j]) /\ pc' = "scan"
    BY <1>3 DEF Purge, IInv, TypeOK
  <2>2. TypeOK'
    BY <1>3, <2>1 DEF Purge, IInv, TypeOK
  <2>3. Newest' /\ DoneIsWhole'
    BY <2>1 DEF IInv, Newest, DoneIsWhole, HasDone
  <2>4. Durable \subseteq Durable' /\ Committed' \subseteq Committed
    BY <2>1, DurableIff DEF IInv, Durable, Committed, HasDone
  <2>5. ConsumedDurable' /\ BootDurable'
    BY <1>3, <2>4 DEF Purge, IInv, ConsumedDurable, BootDurable, BootSteps
  <2> QED BY <1>1, <2>2, <2>3, <2>5 DEF IInv
<1>4. CASE BootSeq \/ BootConsumed \/ BootSync
  <2>1. UNCHANGED <<dir, onDisk>>
    BY <1>4 DEF BootSeq, BootConsumed, BootSync
  <2>2. Newest' /\ DoneIsWhole' /\ Durable' = Durable /\ Committed' = Committed
    BY <2>1 DEF IInv, Newest, DoneIsWhole, Durable, Committed
  <2>3. BootDurable'
    BY <1>4, <2>2
    DEF IInv, BootDurable, BootSteps, BootSeq, BootConsumed, BootSync, Goto
  <2>4. ConsumedDurable'
    <3>1. BootConsumed => consumed' \subseteq Durable
      BY DEF BootConsumed, IInv, BootDurable, BootSteps
    <3> QED BY <1>4, <2>2, <3>1
            DEF BootSeq, BootConsumed, BootSync, CachesDurable, IInv, ConsumedDurable
  <2>5. TypeOK'
    <3>1. CASE BootSeq
      <4>1. KnownSeqs \subseteq SeqNo \cup {0}
        BY HasDoneSeq DEF KnownSeqs, Committed, IInv, TypeOK
      <4> QED BY <3>1, <4>1 DEF BootSeq, Goto, IInv, TypeOK, CommitSteps, BootSteps
    <3>2. CASE BootConsumed
      BY <3>2 DEF BootConsumed, Committed, Goto, IInv, TypeOK, CommitSteps, BootSteps
    <3>3. CASE BootSync
      BY <3>3 DEF BootSync, CachesDurable, Goto, IInv, TypeOK, CommitSteps
    <3> QED BY <1>4, <3>1, <3>2, <3>3
  <2> QED BY <1>1, <2>2, <2>3, <2>4, <2>5 DEF IInv
<1> QED BY <1>2, <1>3, <1>4 DEF BootStep

\* A power cut picks one of the states on disk.
LEMMA PowerCutPreserves ==
    ASSUME IInv, PowerCut
    PROVE  IInv'
<1>1. /\ dir' \in [Job -> Dir \cup {NoDir}]
      /\ onDisk' \in [Job -> SUBSET (Dir \cup {NoDir})]
      /\ \A j \in Job : dir'[j] \in onDisk[j] /\ onDisk'[j] = {dir'[j]}
  <2>1. dir' \in [Job -> UNION {onDisk[j] : j \in Job}]
    BY DEF PowerCut
  <2>2. \A j \in Job : dir'[j] \in onDisk[j] /\ onDisk[j] \subseteq Dir \cup {NoDir}
    BY DEF PowerCut, IInv, TypeOK
  <2>3. dir' \in [Job -> Dir \cup {NoDir}]
    BY <2>1, <2>2
  <2>4. onDisk' = [j \in Job |-> {dir'[j]}]
    BY DEF PowerCut
  <2> QED BY <2>2, <2>3, <2>4
<1>2. TypeOK'
  BY <1>1 DEF PowerCut, IInv, TypeOK, CommitSteps
<1>3. Newest' /\ DoneIsWhole'
  BY <1>1 DEF IInv, Newest, DoneIsWhole
<1>4. Durable \subseteq Durable' /\ Committed' \subseteq Durable'
  BY <1>1 DEF Durable, Committed
<1>5. ConsumedDurable' /\ BootDurable' /\ InProgress'
  BY <1>4 DEF PowerCut, IInv, ConsumedDurable, BootDurable, InProgress
<1> QED BY <1>2, <1>3, <1>5 DEF IInv

-----------------------------------------------------------------------------
(* The theorems.                                                           *)

\* The invariant holds of an empty store.
LEMMA InitIInv == Init => IInv
<1> SUFFICES ASSUME Init PROVE IInv
  OBVIOUS
<1>1. ~HasDone(NoDir)
  BY DEF HasDone
<1>2. TypeOK
  BY DEF Init, TypeOK, CommitSteps
<1>3. \A j \in Job : dir[j] = NoDir /\ onDisk[j] = {NoDir}
  BY DEF Init
<1>4. Newest /\ DoneIsWhole /\ Committed = {}
  BY <1>1, <1>3 DEF Newest, DoneIsWhole, Committed
<1>5. InProgress /\ ConsumedDurable /\ BootDurable
  BY <1>4 DEF Init, InProgress, ConsumedDurable, BootDurable
<1> QED BY <1>2, <1>4, <1>5 DEF IInv

\* Every step keeps the invariant.
LEMMA NextIInv == IInv /\ [Next]_vars => IInv'
<1> SUFFICES ASSUME IInv, [Next]_vars PROVE IInv'
  OBVIOUS
<1>1. CASE UNCHANGED vars
  BY <1>1 DEF vars, store, IInv, TypeOK, Newest, DoneIsWhole, InProgress,
              ConsumedDurable, BootDurable, Durable, Committed
<1>2. CASE Next
  <2>1. CASE \/ \E j \in Job, s \in SeqNo, r \in Run : Start(j, s, r)
             \/ \E j \in Job, s \in SeqNo : Replay(j, s)
             \/ CommitAgain \/ Kill \/ Raise \/ GiveUp \/ BootFails
    BY <2>1, OffCommitStep
  <2>2. CASE MakeDir \/ (\E n \in Name : WriteOutput(n)) \/ WriteStatus \/ RenameDone
    BY <2>2, WriteStep
  <2>3. CASE SyncParent \/ SyncDir
    BY <2>3, FsyncStep
  <2>4. CASE BumpSeq \/ AppendConsumed \/ SyncState
    BY <2>4, BumpStep
  <2>5. CASE BootStep
    BY <2>5, BootPreserves
  <2>6. CASE PowerCut
    BY <2>6, PowerCutPreserves
  <2> QED BY <1>2, <2>1, <2>2, <2>3, <2>4, <2>5, <2>6 DEF Next, CommitStep, Fault
<1> QED BY <1>1, <1>2

\* The invariant holds whatever faults happen, and however often.
THEOREM Invariant == Spec => []IInv
BY InitIInv, NextIInv, PTL DEF Spec

\* Every state is well typed; in particular only bytes of executions are ever
\* given to delivery (handed), never those of a directory without status.json.
THEOREM TypeCorrect == Spec => []TypeOK
<1>1. IInv => TypeOK
  BY DEF IInv
<1> QED BY <1>1, Invariant, PTL

\* commit()'s order of writes: a DONE stands only beside the complete result
\* of one execution, in whatever state a power cut, a kill or an I/O error at
\* whatever step leaves the store.
THEOREM WholeResultHolds == Spec => []WholeResult
<1>1. IInv => WholeResult
  BY DEF IInv, Newest, DoneIsWhole, WholeResult
<1> QED BY <1>1, Invariant, PTL

\* consumed-jobs never names a job whose result a power cut could still take
\* away, so a replay always finds its result.
THEOREM ConsumedHasResultHolds == Spec => []ConsumedHasResult
<1>1. IInv => ConsumedHasResult
  BY DEF IInv, ConsumedDurable, Durable, ConsumedHasResult
<1> QED BY <1>1, Invariant, PTL

\* A job whose DONE is durable keeps it, and its directory, in every step.
LEMMA DurableStays ==
    ASSUME IInv, [Next]_vars, NEW j \in Durable
    PROVE  j \in Durable' /\ dir'[j] = dir[j]
<1>1. j \in Job /\ HasDone(dir[j]) /\ onDisk[j] = {dir[j]}
  BY DurableIff DEF IInv, Durable
<1>2. SUFFICES dir'[j] = dir[j] /\ onDisk'[j] = {dir[j]}
  BY <1>1 DEF Durable
<1>3. CASE UNCHANGED <<dir, onDisk>>
  BY <1>1, <1>3
<1>4. CASE MakeDir \/ (\E n \in Name : WriteOutput(n)) \/ WriteStatus \/ RenameDone
  <2>1. ~HasDone(dir[call.job])
    BY <1>4, WritingHasNoDone DEF MakeDir, WriteOutput, WriteStatus, RenameDone
  <2>2. PICK d : Change(d)
    BY <1>4 DEF MakeDir, WriteOutput, WriteStatus, RenameDone
  <2> QED BY <1>1, <2>1, <2>2 DEF Change, IInv, TypeOK
<1>5. CASE SyncParent \/ SyncDir
  <2>1. dir[j] # NoDir
    BY <1>1 DEF HasDone
  <2> QED BY <1>1, <1>5, <2>1 DEF SyncParent, SyncDir, LinkSynced, DirSynced, IInv, TypeOK
<1>6. CASE \E k \in Job : Purge(k)
  BY <1>1, <1>6 DEF Purge, IInv, TypeOK
<1>7. CASE PowerCut
  BY <1>1, <1>7 DEF PowerCut
<1> QED
  BY <1>3, <1>4, <1>5, <1>6, <1>7
  DEF Next, CommitStep, BootStep, Fault, vars, store, Start, Replay, CommitAgain,
      BumpSeq, AppendConsumed, SyncState, Boot, BootSeq, BootConsumed, BootSync,
      Kill, Raise, GiveUp, BootFails

\* The store implements the write-once ledger of JobLedger: a durable result
\* is never changed, replaced or lost again, whatever faults happen.
THEOREM WriteOnceHolds == Spec => WriteOnce
<1> DEFINE Entry(j) == IF j \in Durable THEN dir[j].status ELSE NoRun
           L == [j \in Job |-> Entry(j)]
<1>1. Init => L = [j \in Job |-> NoRun]
  BY DEF Init, Durable, HasDone
<1>2. IInv /\ [Next]_vars => [Ledger!Fill]_L
  <2> SUFFICES ASSUME IInv, [Next]_vars PROVE Ledger!Fill
    OBVIOUS
  <2>1. (\A j \in Durable : dir[j].status \in Run)'
    <3>1. IInv'
      BY NextIInv
    <3>2. (\A j \in Durable : HasDone(dir[j]))'
      BY <3>1 DEF IInv, Newest, Durable
    <3> QED BY <3>1, <3>2 DEF IInv, DoneIsWhole, Whole, Durable
  <2>2. L' \in [Job -> Run \cup {NoRun}]
    BY <2>1
  <2>3. \A j \in Job : L[j] # NoRun => L'[j] = L[j]
    <3> SUFFICES ASSUME NEW j \in Job, L[j] # NoRun PROVE L'[j] = L[j]
      OBVIOUS
    <3>1. j \in Durable
      OBVIOUS
    <3>2. j \in Durable' /\ dir'[j] = dir[j]
      BY <3>1, DurableStays
    <3> QED BY <3>1, <3>2
  <2> QED BY <2>2, <2>3 DEF Ledger!Fill
<1>3. L = [j \in Job |-> NoRun] /\ [][Ledger!Fill]_L => WriteOnce
  BY DEF WriteOnce, Ledger!WriteOnceSpec
<1> HIDE DEF L
<1> QED BY <1>1, <1>2, <1>3, Invariant, PTL DEF Spec

-----------------------------------------------------------------------------
(***************************************************************************)
(* What CommitLog keeps when power cuts are the only fault, for any jobs,  *)
(* sequence numbers, executions and output files.                          *)
(*                                                                         *)
(* Between two commits the DONE markers, what is durable and the caches    *)
(* say the same.  While a commit is in progress they differ in its job     *)
(* alone, in a way the step it is at determines (CacheInv, Settled); the   *)
(* boot pass that follows every power cut makes up for that one job.       *)
(***************************************************************************)


PowerOnly == Faults \subseteq {"power"}

\* The job of the commit() in progress has no DONE, or none that is durable.
Uncommitted == {"commit", "link", "outputs", "rename"}
Underway == Uncommitted \cup {"sync"}

Covered(S) == \A j \in S : dir[j].done <= seq

CacheInv ==
    /\ pc # "failed"
    /\ pc \in {"idle", "bootSync"} => CachesAgree
    /\ pc = "bootConsumed" => Covered(Committed)
    /\ pc \in CommitSteps => /\ consumed \ {call.job} = Committed \ {call.job}
                             /\ Covered(Committed \ {call.job})
    /\ pc \in Uncommitted => call.job \notin Committed
    /\ pc \in Underway \cup {"bump", "append"} => call.job \notin consumed
    /\ pc \in Underway => seq < call.seq
    /\ pc \in {"sync", "bump"} => dir[call.job].done = call.seq
    /\ pc \in {"append", "syncState"} => dir[call.job].done <= seq
    /\ pc = "syncState" => call.job \in consumed

\* Every DONE is durable, but the one that is just renamed into place.
Settled == Durable = Committed \ (IF pc = "sync" THEN {call.job} ELSE {})

\* One of the durable results has the highest sequence number.
HighestIn(S, j) == j \in S /\ \A k \in S : dir[k].done <= dir[j].done
HasHighest == Durable # {} => \E j \in Job : HighestIn(Durable, j)

PowerInv == PowerOnly /\ IInv /\ CacheInv /\ Settled /\ HasHighest /\ HandedStays

\* The results with a DONE, and how one entry of dir decides whether a job is among them.
LEMMA CommittedFacts ==
    ASSUME IInv
    PROVE  /\ Durable \subseteq Committed /\ Committed \subseteq Job
           /\ \A j \in Committed : dir[j] \in Dir /\ dir[j].done \in SeqNo /\ dir[j].done \in Nat
           /\ seq \in Nat
           /\ pc \in CommitSteps => call \in Call /\ call.job \in Job /\ call.seq \in Nat
                                    /\ call.seq \in SeqNo
<1>1. Durable \subseteq Committed /\ Committed \subseteq Job
  BY DEF IInv, Newest, Durable, Committed
<1>2. \A j \in Committed : dir[j] \in Dir /\ dir[j].done \in SeqNo
  BY HasDoneSeq DEF IInv, TypeOK, Committed
<1>3. SeqNo \subseteq Nat /\ seq \in Nat
  BY SeqNoAssumption DEF IInv, TypeOK
<1>4. pc \in CommitSteps => call \in Call /\ call.job \in Job /\ call.seq \in SeqNo
  BY DEF IInv, TypeOK, Call
<1> QED BY <1>1, <1>2, <1>3, <1>4

-----------------------------------------------------------------------------
(* What a step may do to the ledger, and each step does.                   *)

\* The results that are durable: a step adds the one of the commit() at its
\* commit point, or none.
Grows ==
    \/ Durable' = Durable
    \/ /\ pc = "sync" /\ Durable' = Durable \cup {call.job}
       /\ dir'[call.job] = dir[call.job]

\* What is handed out is durable.
GivesDurable ==
    \A j \in Job, r \in Run :
        r \in handed'[j] => r \in handed[j] \/ (j \in Durable /\ dir[j].status = r)

Keeps == CacheInv' /\ Settled' /\ Grows /\ GivesDurable

\* A commit starts where caches and markers agree.
LEMMA StartKeeps ==
    ASSUME PowerInv, NEW j \in Job, NEW s \in SeqNo, NEW r \in Run, Start(j, s, r)
    PROVE  Keeps
<1>1. /\ UNCHANGED <<dir, onDisk, seq, consumed, handed>>
      /\ pc = "idle" /\ pc' = "commit" /\ call'.job = j /\ call'.seq = s
      /\ ~(s <= seq) /\ j \notin consumed
  BY DEF Start, store, Fresh, Stale
<1>2. Durable' = Durable /\ Committed' = Committed
  BY <1>1 DEF Durable, Committed
<1>3. Settled' /\ Grows /\ GivesDurable
  BY <1>1, <1>2 DEF PowerInv, Settled, Grows, GivesDurable
<1>4. CachesAgree /\ seq \in Nat /\ s \in Nat
  BY <1>1, CommittedFacts, SeqNoAssumption DEF PowerInv, CacheInv
<1>5. CacheInv'
  BY <1>1, <1>2, <1>4 DEF CacheInv, CachesAgree, Covered, CommitSteps, Uncommitted, Underway
<1> QED BY <1>3, <1>5 DEF Keeps

\* A change of the directory that does not commit it.
LEMMA WriteKeeps ==
    ASSUME PowerInv, [Next]_vars, MakeDir \/ (\E n \in Name : WriteOutput(n)) \/ WriteStatus
    PROVE  Keeps
<1>1. /\ UNCHANGED <<seq, consumed, handed, call>>
      /\ pc \in Uncommitted /\ pc' \in Uncommitted \ {"commit"} /\ pc' # "sync" /\ pc # "sync"
      /\ \E d : dir' = [dir EXCEPT ![call.job] = d]
  BY DEF MakeDir, WriteOutput, WriteStatus, Goto, Change, Uncommitted
<1>2. IInv' /\ call.job \in Job
  BY <1>1, NextIInv, CommittedFacts DEF PowerInv, CommitSteps, Uncommitted
<1>3. ~HasDone(dir'[call.job])
  BY <1>1, <1>2, EmptyDirFacts
  DEF IInv, InProgress, Partial, HasDone, Uncommitted
<1>4. ~HasDone(dir[call.job])
  BY <1>1, <1>2 DEF PowerInv, CacheInv, Committed
<1>5. \A k \in Job \ {call.job} : dir'[k] = dir[k]
  BY <1>1, <1>2 DEF PowerInv, IInv, TypeOK
<1>6. Committed' = Committed
  BY <1>2, <1>3, <1>4, <1>5 DEF Committed
<1>7. Durable' = Durable /\ Settled'
  <2>1. Durable = Committed
    BY <1>1 DEF PowerInv, Settled
  <2>2. Durable \subseteq Durable'
    BY DurableStays DEF PowerInv
  <2>3. Durable' \subseteq Committed'
    BY <1>2 DEF IInv, Newest, Durable, Committed
  <2> QED BY <1>1, <1>6, <2>1, <2>2, <2>3 DEF Settled
<1>8. Covered(Committed)' 
  <2>1. Covered(Committed \ {call.job}) /\ call.job \notin Committed
    BY <1>1 DEF PowerInv, CacheInv, CommitSteps, Uncommitted
  <2> QED BY <1>1, <1>5, <1>6, <2>1, CommittedFacts DEF Covered, PowerInv
<1>9. CacheInv'
  BY <1>1, <1>6, <1>8 DEF PowerInv, CacheInv, Covered, CommitSteps, Uncommitted, Underway
<1> QED BY <1>1, <1>7, <1>9 DEF Keeps, Grows, GivesDurable

\* DONE is renamed into place.
LEMMA RenameKeeps ==
    ASSUME PowerInv, [Next]_vars, RenameDone
    PROVE  Keeps
<1>1. /\ UNCHANGED <<seq, consumed, handed, call>>
      /\ pc = "rename" /\ pc' = "sync"
      /\ dir' = [dir EXCEPT ![call.job] = [dir[call.job] EXCEPT !.done = call.seq]]
      /\ onDisk[call.job] \subseteq onDisk'[call.job]
  BY CommittedFacts DEF RenameDone, Goto, Change, PowerInv, IInv, TypeOK, CommitSteps
<1>2. /\ call.job \in Job /\ dir[call.job] \in Dir /\ ~HasDone(dir[call.job])
      /\ call.seq \in SeqNo /\ call.seq \in Nat /\ seq \in Nat
  BY <1>1, CommittedFacts, WritingHasNoDone DEF PowerInv, CommitSteps
<1>3. /\ dir'[call.job].done = call.seq
      /\ \A k \in Job \ {call.job} : dir'[k] = dir[k]
  BY <1>1, <1>2 DEF PowerInv, IInv, TypeOK, Dir
<1>4. IInv'
  BY NextIInv DEF PowerInv
<1>5. Committed' = Committed \cup {call.job} /\ call.job \notin Committed
  <2>1. HasDone(dir'[call.job])
    BY <1>1, <1>4 DEF IInv, InProgress
  <2> QED BY <1>2, <1>3, <2>1 DEF Committed
<1>6. Durable' = Durable /\ Settled'
  <2>1. Durable = Committed
    BY <1>1 DEF PowerInv, Settled
  <2>2. Durable \subseteq Durable'
    BY DurableStays DEF PowerInv
  <2>3. Durable' \subseteq Committed'
    BY <1>4 DEF IInv, Newest, Durable, Committed
  <2>4. call.job \notin Durable'
    BY <1>1, <1>2 DEF PowerInv, IInv, Newest, Durable
  <2> QED BY <1>1, <1>5, <2>1, <2>2, <2>3, <2>4 DEF Settled
<1>7. Covered(Committed \ {call.job})'
  <2>1. Covered(Committed)
    BY <1>1, <1>5 DEF PowerInv, CacheInv, CommitSteps, Covered
  <2> QED BY <1>1, <1>3, <1>5, <2>1, CommittedFacts DEF Covered, PowerInv
<1>8. CacheInv'
  BY <1>1, <1>3, <1>5, <1>7
  DEF PowerInv, CacheInv, Covered, CommitSteps, Uncommitted, Underway
<1> QED BY <1>1, <1>6, <1>8 DEF Keeps, Grows, GivesDurable

\* An fsync of the results directory, or the commit point.
LEMMA FsyncKeeps ==
    ASSUME PowerInv, [Next]_vars, SyncParent \/ SyncDir
    PROVE  Keeps
<1>1. /\ UNCHANGED <<dir, seq, consumed, handed, call>>
      /\ \/ pc = "link" /\ pc' = "outputs"
         \/ pc = "sync" /\ pc' = "bump"
  BY DEF SyncParent, SyncDir, Goto
<1>2. IInv' /\ Committed' = Committed /\ Durable \subseteq Durable'
  BY <1>1, NextIInv, DurableStays DEF PowerInv, Committed
<1>3. Durable' \subseteq Committed'
  BY <1>2 DEF IInv, Newest, Durable, Committed
<1>4. Settled' /\ Grows
  <2>1. CASE pc = "link"
    BY <1>1, <1>2, <1>3, <2>1 DEF PowerInv, Settled, Grows
  <2>2. CASE pc = "sync"
    <3>1. call.job \in Durable'
      BY <1>1, <1>2, <2>2 DEF IInv, InProgress
    <3> QED BY <1>1, <1>2, <1>3, <2>2, <3>1 DEF PowerInv, Settled, Grows
  <2> QED BY <1>1, <2>1, <2>2
<1>5. CacheInv'
  BY <1>1, <1>2 DEF PowerInv, CacheInv, Covered, CommitSteps, Uncommitted, Underway
<1> QED BY <1>1, <1>4, <1>5 DEF Keeps, GivesDurable

\* The caches are brought up to date.
LEMMA BumpKeeps ==
    ASSUME PowerInv, BumpSeq \/ AppendConsumed \/ SyncState
    PROVE  Keeps
<1>1. /\ UNCHANGED <<dir, onDisk>>
      /\ pc \in {"bump", "append", "syncState"} /\ pc' \in {"append", "syncState", "idle"}
  BY DEF BumpSeq, AppendConsumed, SyncState, Goto
<1>2. /\ Durable' = Durable /\ Committed' = Committed /\ Durable = Committed
      /\ call.job \in Durable
  BY <1>1 DEF Durable, Committed, PowerInv, Settled, IInv, InProgress
<1>3. Settled' /\ Grows
  BY <1>1, <1>2 DEF Settled, Grows
<1>4. /\ \A j \in Committed : dir[j].done \in Nat
      /\ seq \in Nat /\ call.seq \in Nat /\ call.job \in Job
      /\ consumed \ {call.job} = Committed \ {call.job}
      /\ Covered(Committed \ {call.job})
  BY <1>1, CommittedFacts DEF PowerInv, CacheInv, CommitSteps
<1>5. CASE BumpSeq
  <2>1. /\ pc = "bump" /\ pc' = "append" /\ UNCHANGED <<consumed, call, handed>>
        /\ seq' = IF call.seq > seq THEN call.seq ELSE seq
    BY <1>5 DEF BumpSeq, Goto
  <2>2. dir[call.job].done = call.seq /\ call.job \notin consumed
    BY <2>1 DEF PowerInv, CacheInv, Underway
  <2>3. \A j \in Committed : dir[j].done <= seq'
    BY <1>2, <1>4, <2>1, <2>2 DEF Covered
  <2>4. CacheInv'
    BY <1>1, <1>2, <1>4, <2>1, <2>2, <2>3
    DEF CacheInv, Covered, CommitSteps, Uncommitted, Underway
  <2> QED BY <1>3, <2>1, <2>4 DEF Keeps, GivesDurable
<1>6. CASE AppendConsumed
  <2>1. /\ pc = "append" /\ pc' = "syncState" /\ UNCHANGED <<seq, call, handed>>
        /\ consumed' = consumed \cup {call.job}
    BY <1>6 DEF AppendConsumed, Goto
  <2>2. dir[call.job].done <= seq
    BY <2>1 DEF PowerInv, CacheInv
  <2>3. CacheInv'
    BY <1>1, <1>2, <1>4, <2>1, <2>2
    DEF CacheInv, Covered, CommitSteps, Uncommitted, Underway
  <2> QED BY <1>3, <2>1, <2>3 DEF Keeps, GivesDurable
<1>7. CASE SyncState
  <2>1. pc = "syncState" /\ pc' = "idle" /\ UNCHANGED <<seq, consumed>> /\ Give(call.job)
    BY <1>7 DEF SyncState
  <2>2. dir[call.job].done <= seq /\ call.job \in consumed
    BY <2>1 DEF PowerInv, CacheInv
  <2>3. CachesAgree'
    BY <1>1, <1>2, <1>4, <2>1, <2>2 DEF CachesAgree, Covered
  <2>4. CacheInv'
    BY <2>1, <2>3 DEF CacheInv, CommitSteps, Uncommitted, Underway
  <2>5. GivesDurable
    BY <1>2, <1>4, <2>1 DEF GivesDurable, Give, PowerInv, IInv, TypeOK
  <2> QED BY <1>3, <2>4, <2>5 DEF Keeps
<1> QED BY <1>5, <1>6, <1>7

\* A replay hands out what is durable.
LEMMA ReplayKeeps ==
    ASSUME PowerInv, NEW j \in Job, NEW s \in SeqNo, Replay(j, s)
    PROVE  Keeps
<1>1. UNCHANGED <<store, pc, call>> /\ pc = "idle" /\ HasDone(dir[j]) /\ Give(j)
  BY DEF Replay
<1>2. Durable' = Durable /\ Committed' = Committed
  BY <1>1 DEF Durable, Committed, store
<1>3. CacheInv' /\ Settled' /\ Grows
  BY <1>1, <1>2 DEF PowerInv, CacheInv, CachesAgree, Covered, Settled, Grows, store,
                    CommitSteps, Uncommitted, Underway
<1>4. j \in Durable
  BY <1>1 DEF PowerInv, Settled, Committed
<1>5. GivesDurable
  BY <1>1, <1>4 DEF GivesDurable, Give, PowerInv, IInv, TypeOK
<1> QED BY <1>3, <1>5 DEF Keeps

\* The boot pass.
LEMMA BootKeeps ==
    ASSUME PowerInv, [Next]_vars, BootStep
    PROVE  Keeps
<1>1. /\ pc \in {"off", "scan", "bootConsumed", "bootSync"}
      /\ pc' \in {"scan", "bootConsumed", "bootSync", "idle"}
      /\ UNCHANGED handed
  BY DEF BootStep, Boot, Purge, BootSeq, BootConsumed, BootSync, Goto
<1>2. IInv' /\ Durable \subseteq Durable' /\ Durable = Committed
  BY <1>1, NextIInv, DurableStays DEF PowerInv, Settled
<1>3. Committed' = Committed
  <2>1. CASE \E j \in Job : Purge(j)
    BY <2>1 DEF Purge, Committed, HasDone, PowerInv, IInv, TypeOK
  <2>2. CASE UNCHANGED dir
    BY <2>2 DEF Committed
  <2> QED BY <2>1, <2>2 DEF BootStep, Boot, BootSeq, BootConsumed, BootSync, store
<1>4. Durable' \subseteq Committed'
  BY <1>2 DEF IInv, Newest, Durable, Committed
<1>5. Settled' /\ Grows /\ GivesDurable
  BY <1>1, <1>2, <1>3, <1>4 DEF Settled, Grows, GivesDurable
<1>6. CacheInv'
  <2>1. CASE Boot \/ \E j \in Job : Purge(j)
    BY <2>1 DEF Boot, Purge, Goto, CacheInv, CommitSteps, Uncommitted, Underway
  <2>2. CASE BootSeq
    <3>1. pc' = "bootConsumed" /\ UNCHANGED dir /\ \A n \in KnownSeqs : n <= seq'
      BY <2>2 DEF BootSeq, Goto
    <3>2. Covered(Committed)'
      BY <1>3, <3>1 DEF Covered, KnownSeqs
    <3> QED BY <3>1, <3>2 DEF CacheInv, CommitSteps, Uncommitted, Underway
  <2>3. CASE BootConsumed
    <3>1. /\ pc = "bootConsumed" /\ pc' = "bootSync" /\ UNCHANGED <<dir, seq>>
          /\ consumed' = Committed
      BY <2>3 DEF BootConsumed, Goto
    <3>2. CachesAgree'
      BY <1>3, <3>1 DEF PowerInv, CacheInv, Covered, CachesAgree
    <3> QED BY <3>1, <3>2 DEF CacheInv, CommitSteps, Uncommitted, Underway
  <2>4. CASE BootSync
    <3>1. pc = "bootSync" /\ pc' = "idle" /\ UNCHANGED <<dir, seq, consumed>>
      BY <2>4 DEF BootSync, Goto
    <3>2. CachesAgree'
      BY <1>3, <3>1 DEF PowerInv, CacheInv, CachesAgree
    <3> QED BY <3>1, <3>2 DEF CacheInv, CommitSteps, Uncommitted, Underway
  <2> QED BY <2>1, <2>2, <2>3, <2>4 DEF BootStep
<1> QED BY <1>5, <1>6 DEF Keeps

\* A power cut decides whether the one DONE that is not durable is there.
LEMMA CutKeeps ==
    ASSUME PowerInv, [Next]_vars, PowerCut
    PROVE  Keeps
<1>1. /\ pc' = "off" /\ UNCHANGED handed
      /\ \A j \in Job : dir'[j] \in onDisk[j] /\ onDisk'[j] = {dir'[j]}
  BY DEF PowerCut
<1>2. \A j \in Job : HasDone(dir'[j]) => dir'[j] = dir[j]
  BY <1>1 DEF PowerInv, IInv, Newest
<1>3. Durable' = Committed' /\ Committed' \subseteq Committed /\ Durable \subseteq Durable'
  BY <1>1, <1>2, DurableStays DEF PowerInv, Durable, Committed
<1>4. Settled' /\ CacheInv'
  BY <1>1, <1>3 DEF Settled, CacheInv, CommitSteps, Uncommitted, Underway
<1>5. Grows
  <2>1. CASE pc = "sync"
    <3>1. CASE call.job \in Durable'
      <4>1. dir'[call.job] = dir[call.job]
        BY <1>2, <1>3, <3>1 DEF Committed
      <4> QED BY <1>3, <2>1, <3>1, <4>1 DEF PowerInv, Settled, Grows
    <3>2. CASE call.job \notin Durable'
      BY <1>3, <2>1, <3>2 DEF PowerInv, Settled, Grows
    <3> QED BY <3>1, <3>2
  <2>2. CASE pc # "sync"
    BY <1>3, <2>2 DEF PowerInv, Settled, Grows
  <2> QED BY <2>1, <2>2
<1> QED BY <1>1, <1>4, <1>5 DEF Keeps, GivesDurable

\* Every step is one of those above.
LEMMA StepKeeps ==
    ASSUME PowerInv, [Next]_vars
    PROVE  Keeps
<1>1. CASE UNCHANGED vars
  <2>1. Durable' = Durable /\ Committed' = Committed
    BY <1>1 DEF vars, store, Durable, Committed
  <2> QED BY <1>1, <2>1
          DEF vars, store, Keeps, PowerInv, CacheInv, CachesAgree, Covered, Settled, Grows,
              GivesDurable
<1>2. CASE Next
  <2>1. ~(Kill \/ Raise \/ BootFails \/ GiveUp)
    BY DEF Kill, Raise, BootFails, GiveUp, PowerInv, PowerOnly, CacheInv
  <2>2. ~CommitAgain
    BY CommittedFacts
    DEF CommitAgain, PowerInv, CacheInv, Committed, Uncommitted, CommitSteps
  <2> QED BY <1>2, <2>1, <2>2, StartKeeps, ReplayKeeps, WriteKeeps, RenameKeeps, FsyncKeeps,
             BumpKeeps, BootKeeps, CutKeeps
          DEF Next, CommitStep, Fault
<1> QED BY <1>1, <1>2

-----------------------------------------------------------------------------
(* The theorems.                                                           *)

\* A new result has the highest sequence number.
LEMMA NewIsHighest ==
    ASSUME PowerInv, [Next]_vars, Durable' # Durable
    PROVE  /\ pc = "sync" /\ Durable' = Durable \cup {call.job}
           /\ call.job \in Job /\ call.job \notin Durable /\ call.seq \in SeqNo
           /\ dir'[call.job].done = call.seq
           /\ \A k \in Durable : dir'[k] = dir[k] /\ dir[k].done < call.seq
<1>1. /\ pc = "sync" /\ Durable' = Durable \cup {call.job}
      /\ dir'[call.job] = dir[call.job]
  BY StepKeeps DEF Keeps, Grows
<1>2. /\ call.job \in Job /\ call.seq \in SeqNo /\ call.seq \in Nat /\ seq \in Nat
      /\ \A k \in Committed : dir[k].done \in Nat
  BY <1>1, CommittedFacts DEF PowerInv, CommitSteps
<1>3. dir[call.job].done = call.seq /\ seq < call.seq /\ Covered(Committed \ {call.job})
  BY <1>1 DEF PowerInv, CacheInv, CommitSteps, Underway
<1>4. Durable = Committed \ {call.job}
  BY <1>1 DEF PowerInv, Settled
<1>5. \A k \in Durable : dir'[k] = dir[k]
  BY DurableStays DEF PowerInv
<1> QED BY <1>1, <1>2, <1>3, <1>4, <1>5 DEF Covered

\* What was handed out is durable, and stays.
LEMMA HandedKept ==
    ASSUME PowerInv, [Next]_vars
    PROVE  HandedStays'
<1> SUFFICES ASSUME NEW j \in Job, NEW r \in Run, r \in handed'[j], NEW d \in onDisk'[j]
             PROVE  HasDone(d) /\ d.status = r
  BY DEF HandedStays
<1>1. j \in Durable /\ dir[j].status = r
  <2>1. CASE r \in handed[j]
    BY <2>1 DEF PowerInv, HandedStays, Durable, IInv, Newest
  <2>2. CASE r \notin handed[j]
    BY <2>2, StepKeeps DEF Keeps, GivesDurable
  <2> QED BY <2>1, <2>2
<1>2. j \in Durable' /\ dir'[j] = dir[j]
  BY <1>1, DurableStays DEF PowerInv
<1>3. HasDone(d)
  BY <1>2 DEF Durable
<1>4. d = dir'[j]
  BY <1>3, NextIInv DEF PowerInv, IInv, Newest
<1> QED BY <1>1, <1>2, <1>3, <1>4

\* The highest result stays the highest, or the new one is.
LEMMA HighestKept ==
    ASSUME PowerInv, [Next]_vars
    PROVE  HasHighest'
<1>1. CASE Durable' = Durable
  <2>1. \A k \in Durable : dir'[k] = dir[k]
    BY DurableStays DEF PowerInv
  <2> QED BY <1>1, <2>1 DEF PowerInv, HasHighest, HighestIn
<1>2. CASE Durable' # Durable
  <2>1. /\ call.job \in Durable' /\ call.job \in Job
        /\ \A k \in Durable' : dir'[k].done <= dir'[call.job].done
    <3>1. call.seq \in Nat /\ \A k \in Durable : dir[k].done \in Nat
      BY <1>2, NewIsHighest, CommittedFacts, SeqNoAssumption DEF PowerInv
    <3>2. /\ Durable' = Durable \cup {call.job} /\ call.job \in Job
          /\ dir'[call.job].done = call.seq
          /\ \A k \in Durable : dir'[k] = dir[k] /\ dir[k].done < call.seq
      BY <1>2, NewIsHighest
    <3> QED BY <3>1, <3>2
  <2> QED BY <2>1 DEF HasHighest, HighestIn
<1> QED BY <1>1, <1>2

\* An empty store.
LEMMA PowerInvInit == Init /\ PowerOnly => PowerInv
<1> SUFFICES ASSUME Init, PowerOnly PROVE PowerInv
  OBVIOUS
<1>1. \A j \in Job : dir[j] = NoDir /\ onDisk[j] = {NoDir} /\ handed[j] = {}
  BY DEF Init
<1>2. Durable = {} /\ Committed = {}
  BY <1>1 DEF Durable, Committed, HasDone
<1>3. CacheInv
  BY DEF Init, CacheInv, CommitSteps, Uncommitted, Underway
<1>4. Settled /\ HasHighest /\ HandedStays
  BY <1>1, <1>2 DEF Settled, HasHighest, HandedStays
<1> QED BY <1>3, <1>4, InitIInv DEF PowerInv

\* Every step keeps PowerInv.
LEMMA PowerInvStep == PowerInv /\ [Next]_vars => PowerInv'
<1> SUFFICES ASSUME PowerInv, [Next]_vars PROVE PowerInv'
  OBVIOUS
<1>1. PowerOnly' /\ IInv'
  BY NextIInv DEF PowerInv, PowerOnly
<1> QED BY <1>1, StepKeeps, HandedKept, HighestKept DEF PowerInv, Keeps

\* The inductive invariant of a store whose only fault is the power cut.
THEOREM PowerInvariant == Spec /\ PowerOnly => []PowerInv
BY PowerInvInit, PowerInvStep, PTL DEF Spec

\* A result that was handed out stays the job's result, on every disk a power cut
\* may leave (commit, reconcile_on_boot).
THEOREM HandedStaysHolds == Spec /\ PowerOnly => []HandedStays
<1>1. PowerInv => HandedStays
  BY DEF PowerInv
<1> QED BY <1>1, PowerInvariant, PTL

\* Whenever sticks are served the caches say what the DONE markers say
\* (_bump_caches, reconcile_on_boot).
THEOREM CachesAgreeHolds == Spec /\ PowerOnly => []CachesAgreeIdle
<1>1. PowerInv => CachesAgreeIdle
  BY DEF PowerInv, CacheInv, CachesAgreeIdle
<1> QED BY <1>1, PowerInvariant, PTL

\* No job that has a DONE is executed again (freshness.check).
THEOREM NeverRerunHolds == Spec /\ PowerOnly => NeverRerun
<1>1. PowerInv /\ [Next]_vars =>
        [pc = "idle" /\ pc' = "commit" => ~HasDone(dir[call'.job])]_vars
  <2> SUFFICES ASSUME PowerInv, Next, pc = "idle", pc' = "commit"
               PROVE  ~HasDone(dir[call'.job])
    BY DEF vars
  <2>1. PICK j \in Job, s \in SeqNo, r \in Run : Start(j, s, r)
    BY DEF Next, Replay, store, CommitStep, CommitAgain, MakeDir, SyncParent, WriteOutput,
           WriteStatus, RenameDone, SyncDir, BumpSeq, AppendConsumed, SyncState, GiveUp,
           BootStep, Boot, Purge, BootSeq, BootConsumed, BootSync, Fault, PowerCut, Kill,
           Raise, BootFails, Goto, CommitSteps, BootSteps
  <2>2. call'.job = j /\ j \notin consumed
    BY <2>1 DEF Start, Fresh
  <2>3. CachesAgree
    BY DEF PowerInv, CacheInv
  <2> QED BY <2>1, <2>2, <2>3 DEF CachesAgree, Committed
<1> QED BY <1>1, PowerInvariant, PTL DEF Spec, NeverRerun

\* JobLedger's high: it is the sequence number of the highest durable result.
High == IF Durable = {} THEN 0
        ELSE CHOOSE m \in {dir[j].done : j \in Durable} : \A j \in Durable : dir[j].done <= m
HighIsTop == \A j \in Job : HighestIn(Durable, j) => High = dir[j].done

\* The ledger's highest number is that of the newest result.
LEMMA PowerInvHigh == PowerInv => HighIsTop
<1> SUFFICES ASSUME PowerInv, NEW j \in Job, HighestIn(Durable, j) PROVE High = dir[j].done
  BY DEF HighIsTop
<1> DEFINE S == {dir[k].done : k \in Durable}
           top == CHOOSE m \in S : \A k \in Durable : dir[k].done <= m
<1>1. /\ j \in Durable /\ \A k \in Durable : dir[k].done <= dir[j].done
      /\ \A k \in Durable : dir[k].done \in Nat
  BY CommittedFacts DEF HighestIn, PowerInv
<1>2. \E m \in S : \A k \in Durable : dir[k].done <= m
  BY <1>1
<1>3. top \in S /\ \A k \in Durable : dir[k].done <= top
  <2> HIDE DEF S
  <2> QED BY <1>2
<1>4. High = top
  BY <1>1 DEF High
<1> HIDE DEF top
<1>5. top = dir[j].done
  BY <1>1, <1>3
<1> QED BY <1>4, <1>5

\* The store implements the ordered ledger: results become durable one at a time
\* and under ever higher sequence numbers, so that none is used twice and an old
\* stick never comes after a newer one (freshness.check, commit).
THEOREM OrderedHolds == Spec /\ PowerOnly => Ordered
<1> DEFINE L == [j \in Job |-> IF j \in Durable THEN dir[j].status ELSE NoRun]
<1>1. Init => L = [j \in Job |-> NoRun] /\ High = 0
  BY DEF Init, Durable, HasDone, High
<1>2. PowerInv /\ [Next]_vars
        => [\E j \in Job, s \in SeqNo, r \in Run : Ledger!Record(j, s, r)]_<<L, High>>
  <2> SUFFICES ASSUME PowerInv, [Next]_vars
               PROVE  \/ L' = L /\ High' = High
                      \/ \E j \in Job, s \in SeqNo, r \in Run : Ledger!Record(j, s, r)
    OBVIOUS
  <2>1. PowerInv' /\ HighIsTop /\ HighIsTop'
    BY PowerInvStep, PowerInvHigh, PTL
  <2>2. \A k \in Durable : dir'[k] = dir[k]
    BY DurableStays DEF PowerInv
  <2>3. CASE Durable' = Durable
    <3>1. L' = L
      BY <2>2, <2>3
    <3>2. High' = High
      <4>1. CASE Durable = {}
        BY <2>3, <4>1 DEF High
      <4>2. CASE Durable # {}
        <5>1. PICK j \in Job : HighestIn(Durable, j)
          BY <4>2 DEF PowerInv, HasHighest
        <5>2. HighestIn(Durable, j)' /\ dir'[j] = dir[j]
          BY <2>2, <2>3, <5>1 DEF HighestIn
        <5> QED BY <2>1, <5>1, <5>2 DEF HighIsTop
      <4> QED BY <4>1, <4>2
    <3> QED BY <3>1, <3>2
  <2>4. CASE Durable' # Durable
    <3>1. PICK c \in Job, s \in SeqNo :
             /\ Durable' = Durable \cup {c} /\ c \notin Durable /\ dir'[c].done = s
             /\ \A k \in Durable : dir'[k] = dir[k] /\ dir[k].done < s
      BY <2>4, NewIsHighest
    <3>2. s \in Nat \ {0} /\ \A k \in Durable : dir[k].done \in Nat
      BY <3>1, SeqNoAssumption, CommittedFacts DEF PowerInv
    <3>3. PICK r \in Run : r = dir'[c].status
      <4>1. HasDone(dir'[c])
        BY <2>1, <3>1 DEF PowerInv, IInv, Newest, Durable
      <4> QED BY <2>1, <3>1, <4>1 DEF PowerInv, IInv, DoneIsWhole, Whole
    <3>4. L[c] = NoRun /\ L' = [L EXCEPT ![c] = r]
      BY <2>2, <3>1, <3>3
    <3>5. High' = s
      <4>1. HighestIn(Durable, c)'
        BY <3>1, <3>2 DEF HighestIn
      <4> QED BY <2>1, <3>1, <4>1 DEF HighIsTop
    <3>6. s > High
      <4>1. CASE Durable = {}
        BY <3>2, <4>1 DEF High
      <4>2. CASE Durable # {}
        <5>1. PICK j \in Job : HighestIn(Durable, j)
          BY <4>2 DEF PowerInv, HasHighest
        <5>2. High = dir[j].done /\ j \in Durable
          BY <2>1, <5>1 DEF HighIsTop, HighestIn
        <5> QED BY <3>1, <3>2, <5>2
      <4> QED BY <4>1, <4>2
    <3>7. Ledger!Record(c, s, r)
      <4> HIDE DEF L
      <4> QED BY <3>4, <3>5, <3>6 DEF Ledger!Record, L, High
    <3> QED BY <3>7
  <2> QED BY <2>3, <2>4
<1>3. /\ L = [j \in Job |-> NoRun] /\ High = 0
      /\ [][\E j \in Job, s \in SeqNo, r \in Run : Ledger!Record(j, s, r)]_<<L, High>>
      => Ordered
  BY DEF Ordered, Ledger!OrderedSpec, Ledger!Init, Ledger!vars, High
<1> HIDE DEF L
<1> QED BY <1>1, <1>2, <1>3, PowerInvariant, PTL DEF Spec
==============================================================================
