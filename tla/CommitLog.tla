------------------------------ MODULE CommitLog ------------------------------
(***************************************************************************)
(* The durable results store of the box (box/lib/causb/commitlog.py) and   *)
(* the freshness check that reads its caches (freshness.py), as            *)
(* box/bin/ca-usb-run drives them: a job found fresh is executed, its      *)
(* result committed step by step, and handed to delivery; a consumed job   *)
(* is replayed from the store; the boot pass repairs the store.            *)
(*                                                                         *)
(* The file system.  Every process sees the newest state (the page cache). *)
(* A power cut leaves, for each directory separately, some state it had at *)
(* or after its last fsync: onDisk[j], seqOnDisk and consumedOnDisk are    *)
(* the sets of states a power cut may leave.  A file is written as         *)
(* tmp - fsync - rename, so its content is never torn and a rename is one  *)
(* step.  Renames of one directory reach the disk in order.                *)
(*                                                                         *)
(* Faults is the set of faults the model lets happen:                      *)
(*   "power"   the power is cut, at any step                               *)
(*   "kill"    the job process is killed: the stick is pulled (the unit    *)
(*             has BindsTo= its device) or TimeoutStartSec= expires        *)
(*   "io"      a write or fsync of commit() raises OSError                 *)
(*   "bootio"  a write or fsync of the boot pass raises OSError            *)
(***************************************************************************)
EXTENDS Naturals

CONSTANTS Job,       (* job ids (uuid4)                                    *)
          SeqNo,     (* sequence numbers manifests carry                   *)
          Run,       (* executions of handlers; each has its own bytes     *)
          NoRun,     (* "nothing written"                                  *)
          NoDir,     (* "no such directory"                                *)
          Name,      (* names of output files                              *)
          OutputsOf, (* OutputsOf[r]: the output files execution r left    *)
          Faults     (* the faults that may happen                         *)

ASSUME SeqNoAssumption == SeqNo \subseteq Nat \ {0}
ASSUME RunAssumption == NoRun \notin Run /\ OutputsOf \in [Run -> SUBSET Name]

NoDone == 0  \* a committed seq is above the seq cache, which starts at 0

\* What results/<job_id>/ holds: for each output file the execution whose
\* bytes it has, the execution status.json describes, the seq in DONE.
Dir == [files : [Name -> Run \cup {NoRun}],
        status : Run \cup {NoRun},
        done : SeqNo \cup {NoDone}]

EmptyDir == [files |-> [n \in Name |-> NoRun], status |-> NoRun, done |-> NoDone]

ASSUME NoDirAssumption == NoDir \notin Dir

HasDone(d) == d # NoDir /\ d.done # NoDone

VARIABLES
    dir,            \* results/<job_id>/ of every job, as processes see it
    onDisk,         \* onDisk[j]: the states of dir[j] a power cut may leave
    seq,            \* {STATE_DIR}/seq
    seqOnDisk,
    consumed,       \* {STATE_DIR}/consumed-jobs
    consumedOnDisk,
    pc,             \* the step the one process holding the lock is at
    call,           \* the commit() in progress: [job, seq, run]
    handed          \* history: handed[j], the results of j given to delivery

store == <<dir, onDisk, seq, seqOnDisk, consumed, consumedOnDisk>>
vars == <<store, pc, call, handed>>

CommitSteps == {"commit", "link", "outputs", "rename", "sync",
                "bump", "append", "syncState"}
BootSteps == {"scan", "bootConsumed", "bootSync"}
Call == [job : Job, seq : SeqNo, run : Run]
NoCall == [job |-> NoRun, seq |-> NoDone, run |-> NoRun]

TypeOK ==
    /\ dir \in [Job -> Dir \cup {NoDir}]
    /\ onDisk \in [Job -> SUBSET (Dir \cup {NoDir})]
    /\ seq \in SeqNo \cup {0} /\ seqOnDisk \subseteq SeqNo \cup {0}
    /\ consumed \in SUBSET Job /\ consumedOnDisk \in SUBSET SUBSET Job
    /\ pc \in {"off", "idle", "failed"} \cup CommitSteps \cup BootSteps
    /\ pc \in CommitSteps \cup {"failed"} => call \in Call
    /\ handed \in [Job -> SUBSET Run]

Init ==
    /\ dir = [j \in Job |-> NoDir] /\ onDisk = [j \in Job |-> {NoDir}]
    /\ seq = 0 /\ seqOnDisk = {0}
    /\ consumed = {} /\ consumedOnDisk = {{}}
    /\ pc = "off" /\ call = NoCall
    /\ handed = [j \in Job |-> {}]

-----------------------------------------------------------------------------
(* Freshness, and the two answers that go on: "fresh" executes the job,    *)
(* "replay" hands out the stored result.                                   *)

\* Mutant of Stale.
StaleMutant(s) == s < seq

\* freshness.check, after the box and clock tests: seq first, then job_id.
Stale(s) == s <= seq

\* Mutant of Fresh.
FreshMutant(j, s) == ~Stale(s)

\* A consumed job under a new seq is not fresh: it is replayed.
Fresh(j, s) == ~Stale(s) /\ j \notin consumed

\* The job is fresh: its handler is executed and commit() is called with the
\* execution's outputs (a missing K1 press is committed too, with none).
Start(j, s, r) ==
    /\ pc = "idle"
    /\ Fresh(j, s)
    /\ pc' = "commit" /\ call' = [job |-> j, seq |-> s, run |-> r]
    /\ UNCHANGED <<store, handed>>

Give(j) == handed' = [handed EXCEPT ![j] = @ \cup {dir[j].status}]

\* _replay with a cached result; without one it fails closed and nothing moves.
Replay(j, s) ==
    /\ pc = "idle"
    /\ ~Stale(s) /\ j \in consumed
    /\ HasDone(dir[j])
    /\ Give(j)
    /\ UNCHANGED <<store, pc, call>>

-----------------------------------------------------------------------------
(* commit(job_id, seq, outputs, out_status), one file-system step at a     *)
(* time.                                                                   *)

Goto(step) == pc' = step /\ UNCHANGED call

\* A change of the job's directory that no fsync has covered yet.
Change(d) ==
    /\ dir' = [dir EXCEPT ![call.job] = d]
    /\ onDisk' = [onDisk EXCEPT ![call.job] = @ \cup {d}]
    /\ UNCHANGED <<seq, seqOnDisk, consumed, consumedOnDisk>>

\* A valid DONE is there already: return without writing anything.
CommitAgain ==
    /\ pc = "commit" /\ HasDone(dir[call.job])
    /\ Give(call.job)
    /\ pc' = "idle" /\ call' = NoCall
    /\ UNCHANGED store

\* Mutant of Wiped.
KeepPartialMutant(j) == IF dir[j] = NoDir THEN EmptyDir ELSE dir[j]

\* Wipe what an earlier attempt left (no state in between has a DONE either,
\* so the removal is one step), make the directory anew.
Wiped(j) == EmptyDir

\* Mutant of MakeDir.
OverwriteMutant ==
    /\ pc = "commit"
    /\ Change(Wiped(call.job))
    /\ Goto("link") /\ UNCHANGED handed

\* No DONE: the job's directory is started from scratch.
MakeDir ==
    /\ pc = "commit" /\ ~HasDone(dir[call.job])
    /\ Change(Wiped(call.job))
    /\ Goto("link") /\ UNCHANGED handed

\* Mutant of LinkSynced.
NoSyncMutant(j) == onDisk[j]

\* Step 0: fsync RESULTS_DIR.  Every link in it is durable now.
LinkSynced(j) == IF dir[j] = NoDir THEN {NoDir} ELSE onDisk[j] \ {NoDir}

SyncParent ==
    /\ pc = "link"
    /\ onDisk' = [j \in Job |-> LinkSynced(j)]
    /\ Goto("outputs")
    /\ UNCHANGED <<dir, seq, seqOnDisk, consumed, consumedOnDisk, handed>>

\* Step 1: each output file.
WriteOutput(n) ==
    /\ pc = "outputs"
    /\ n \in OutputsOf[call.run] /\ dir[call.job].files[n] # call.run
    /\ Change([dir[call.job] EXCEPT !.files[n] = call.run])
    /\ UNCHANGED <<pc, call, handed>>

\* Step 2: status.json, which lists the outputs written.
WriteStatus ==
    /\ pc = "outputs"
    /\ \A n \in OutputsOf[call.run] : dir[call.job].files[n] = call.run
    /\ Change([dir[call.job] EXCEPT !.status = call.run])
    /\ Goto("rename") /\ UNCHANGED handed

\* Step 3: DONE is renamed into place ...
RenameDone ==
    /\ pc = "rename"
    /\ Change([dir[call.job] EXCEPT !.done = call.seq])
    /\ Goto("sync") /\ UNCHANGED handed

\* ... and the job's directory fsynced: the commit point.
DirSynced(j) == {dir[j]} \cup (onDisk[j] \cap {NoDir})
SyncDir ==
    /\ pc = "sync"
    /\ onDisk' = [onDisk EXCEPT ![call.job] = DirSynced(call.job)]
    /\ Goto("bump")
    /\ UNCHANGED <<dir, seq, seqOnDisk, consumed, consumedOnDisk, handed>>

\* Step 4, _bump_caches: seq := max(seq, call.seq) ...
BumpSeq ==
    /\ pc = "bump"
    /\ seq' = IF call.seq > seq THEN call.seq ELSE seq
    /\ seqOnDisk' = seqOnDisk \cup {seq'}
    /\ Goto("append")
    /\ UNCHANGED <<dir, onDisk, consumed, consumedOnDisk, handed>>

\* ... then the job id is appended to consumed-jobs (which may be a new file,
\* so its entry is durable only with the next step) ...
AppendConsumed ==
    /\ pc = "append"
    /\ consumed' = consumed \cup {call.job}
    /\ consumedOnDisk' = consumedOnDisk \cup {consumed'}
    /\ Goto("syncState")
    /\ UNCHANGED <<dir, onDisk, seq, seqOnDisk, handed>>

CachesDurable == seqOnDisk' = {seq} /\ consumedOnDisk' = {consumed}

\* ... and STATE_DIR is fsynced: commit() returns and the result is delivered.
SyncState ==
    /\ pc = "syncState"
    /\ CachesDurable
    /\ Give(call.job)
    /\ pc' = "idle" /\ call' = NoCall
    /\ UNCHANGED <<dir, onDisk, seq, consumed>>

-----------------------------------------------------------------------------
(* reconcile_on_boot(), run once per boot, before any stick is served.     *)

Boot == /\ pc = "off"
        /\ Goto("scan") /\ UNCHANGED <<store, handed>>

\* A directory without DONE is removed (and RESULTS_DIR not fsynced).
Purge(j) ==
    /\ pc = "scan"
    /\ dir[j] # NoDir /\ ~HasDone(dir[j])
    /\ dir' = [dir EXCEPT ![j] = NoDir]
    /\ onDisk' = [onDisk EXCEPT ![j] = @ \cup {NoDir}]
    /\ UNCHANGED <<seq, seqOnDisk, consumed, consumedOnDisk, pc, call, handed>>

Committed == {j \in Job : HasDone(dir[j])}

\* Mutant of KnownSeqs.
KnownSeqsMutant == {seq}

\* The scan is over: seq := max(seq, every DONE's seq) ...
KnownSeqs == {seq} \cup {dir[j].done : j \in Committed}
BootSeq ==
    /\ pc = "scan"
    /\ \A j \in Job : dir[j] # NoDir => HasDone(dir[j])
    /\ seq' \in KnownSeqs /\ \A n \in KnownSeqs : n <= seq'
    /\ seqOnDisk' = seqOnDisk \cup {seq'}
    /\ Goto("bootConsumed")
    /\ UNCHANGED <<dir, onDisk, consumed, consumedOnDisk, handed>>

\* Mutant of BootConsumed.
BootConsumedMutant ==
    /\ pc = "bootConsumed"
    /\ consumed' = consumed \cap Committed
    /\ consumedOnDisk' = consumedOnDisk \cup {consumed'}
    /\ Goto("bootSync")
    /\ UNCHANGED <<dir, onDisk, seq, seqOnDisk, handed>>

\* ... consumed-jobs := exactly the jobs with DONE ...
BootConsumed ==
    /\ pc = "bootConsumed"
    /\ consumed' = Committed
    /\ consumedOnDisk' = consumedOnDisk \cup {consumed'}
    /\ Goto("bootSync")
    /\ UNCHANGED <<dir, onDisk, seq, seqOnDisk, handed>>

\* ... and STATE_DIR is fsynced.
BootSync ==
    /\ pc = "bootSync"
    /\ CachesDurable
    /\ Goto("idle")
    /\ UNCHANGED <<dir, onDisk, seq, consumed, handed>>

-----------------------------------------------------------------------------
(* Faults.                                                                 *)

PowerCut ==
    /\ "power" \in Faults /\ pc # "off"
    /\ dir' \in [Job -> UNION {onDisk[j] : j \in Job}]
    /\ \A j \in Job : dir'[j] \in onDisk[j]
    /\ onDisk' = [j \in Job |-> {dir'[j]}]
    /\ seq' \in seqOnDisk /\ seqOnDisk' = {seq'}
    /\ consumed' \in consumedOnDisk /\ consumedOnDisk' = {consumed'}
    /\ pc' = "off" /\ call' = NoCall
    /\ UNCHANGED handed

\* The process dies at whatever step it is; the page cache lives on.
Kill ==
    /\ "kill" \in Faults /\ pc \in CommitSteps
    /\ pc' = "idle" /\ call' = NoCall
    /\ UNCHANGED <<store, handed>>

\* A step of commit() raises OSError instead of completing ...
Raise ==
    /\ "io" \in Faults /\ pc \in CommitSteps
    /\ Goto("failed")
    /\ UNCHANGED <<store, handed>>

\* ... which the caller answers with the ERROR terminal: nothing is delivered.
GiveUp ==
    /\ pc = "failed"
    /\ pc' = "idle" /\ call' = NoCall
    /\ UNCHANGED <<store, handed>>

\* The boot pass raises: its unit fails, and sticks are served all the same
\* (ca-usb-job@.service is ordered After= it and does not require it).
BootFails ==
    /\ "bootio" \in Faults /\ pc \in BootSteps
    /\ Goto("idle")
    /\ UNCHANGED <<store, handed>>

-----------------------------------------------------------------------------

CommitStep == \/ CommitAgain \/ MakeDir \/ SyncParent
              \/ \E n \in Name : WriteOutput(n)
              \/ WriteStatus \/ RenameDone \/ SyncDir
              \/ BumpSeq \/ AppendConsumed \/ SyncState

BootStep == Boot \/ (\E j \in Job : Purge(j)) \/ BootSeq \/ BootConsumed \/ BootSync

Fault == PowerCut \/ Kill \/ Raise \/ BootFails

Next == \/ \E j \in Job, s \in SeqNo, r \in Run : Start(j, s, r)
        \/ \E j \in Job, s \in SeqNo : Replay(j, s)
        \/ CommitStep \/ GiveUp \/ BootStep \/ Fault

Spec == Init /\ [][Next]_vars

\* A started process runs on until it ends; a box without power gets it back.
FairSpec == Spec /\ WF_vars(CommitStep \/ GiveUp) /\ WF_vars(BootStep)

-----------------------------------------------------------------------------
(* Properties.                                                             *)

\* A directory whose status.json and output files are of one execution.
Whole(d) ==
    /\ d.status \in Run
    /\ d.files = [n \in Name |-> IF n \in OutputsOf[d.status] THEN d.status ELSE NoRun]

\* DONE never stands beside a torn result: every file of a committed
\* directory, and its status.json, is of the one execution that was committed,
\* in every state a power cut may leave (commit()'s ordering, steps 1 to 3,
\* and the wipe of an earlier attempt's files).
WholeResult == \A j \in Job : \A d \in onDisk[j] : HasDone(d) => Whole(d)

\* A consumed job always has its result in the store, whatever a power cut
\* leaves: _replay's "consumed but no cached result" branch is dead code.
ConsumedHasResult ==
    \A j \in Job : j \in consumed \/ (\E c \in consumedOnDisk : j \in c) =>
        \A d \in onDisk[j] : HasDone(d)

\* What was given to delivery for a job stays its result, and stays durable:
\* no later retry, crash or boot answers the job with other bytes.
HandedStays ==
    \A j \in Job, r \in Run : r \in handed[j] =>
        \A d \in onDisk[j] : HasDone(d) /\ d.status = r

\* The handler of a job that has a DONE is never executed again.
NeverRerun ==
    [][pc = "idle" /\ pc' = "commit" => ~HasDone(dir[call'.job])]_vars

\* While sticks are served the caches say what the DONE markers say.
CachesAgree ==
    /\ consumed = Committed
    /\ \A j \in Committed : dir[j].done <= seq
CachesAgreeIdle == pc = "idle" => CachesAgree

\* A box that lost power serves again with caches that agree with the store,
\* unless power is lost again and again.
Recovers ==
    []<><<PowerCut>>_vars \/ (pc = "off" ~> pc = "idle" /\ CachesAgree)

\* What is in the ledger of JobLedger: the results no power cut can undo.
Durable == {j \in Job : \A d \in onDisk[j] : HasDone(d)}
Ledger == INSTANCE JobLedger WITH
            ledger <- [j \in Job |-> IF j \in Durable THEN dir[j].status ELSE NoRun],
            high <- IF Durable = {} THEN 0
                    ELSE CHOOSE m \in {dir[j].done : j \in Durable} :
                            \A j \in Durable : dir[j].done <= m
WriteOnce == Ledger!WriteOnceSpec
Ordered == Ledger!OrderedSpec
==============================================================================
