------------------------------- MODULE Courier -------------------------------
(***************************************************************************)
(* The Mac's side: caj, which signs jobs onto sticks under ascending       *)
(* sequence numbers, and caj-recv, which reads the box's results back.     *)
(* Several sticks are under way at a time and processes of both tools run  *)
(* at a time; they share the two counters of ca-state/ and one flock.      *)
(*                                                                         *)
(* The box is the ledger of JobLedger: an insertion is one step here, with *)
(* the outcomes that CaUsbRun allows.  One of them is a stick that was     *)
(* pulled before its files were written back: its LATEST.json may name a   *)
(* result whose files are not all there.  A file on a stick is the bundle  *)
(* it was made for; a signature verifies the tar of the same one.  The     *)
(* box's anchors stay as they are.                                         *)
(*                                                                         *)
(* Processes die anywhere here, the Mac does not lose power: caj renames   *)
(* last-built-seq into place and does not fsync it, so that a power cut    *)
(* could take a reservation back, which this model leaves out.             *)
(***************************************************************************)
EXTENDS Naturals

CONSTANTS Stick, Proc, Job,
          Nothing,   (* no file, no process, no result                      *)
          Privileged,  (* the jobs that the box runs with a co-signature only *)
          Unfit,     (* the jobs it refuses before anything else: their     *)
                     (* archive or manifest, or another box's name          *)
          Wanted,    (* what the operator builds: jobs, with --breakglass   *)
                     (* or without; a job built again is a --retry          *)
          SeqNo      (* the sequence numbers of this instance               *)

ASSUME SeqNoAssumption == SeqNo \subseteq Nat \ {0}
ASSUME WantedAssumption ==
    Privileged \subseteq Job /\ Unfit \subseteq Job /\ Wanted \subseteq [job : Job, bg : BOOLEAN]

Bundle == [job : Job, seq : SeqNo, bg : BOOLEAN]
Result == [job : Job, seq : SeqNo, status : {"ok", "failed"}]
Inbox == [tar : Bundle \cup {Nothing}, bg : Bundle \cup {Nothing},
          sig : Bundle \cup {Nothing}]
\* Why the box refuses a job before it runs.  "passing" is what may be otherwise
\* at the next insertion, a clock before 2026 or a handler that cannot be started,
\* and stands for dispatch's other refusals too.
Reason == {"unfit", "passing", "stale_seq", "cosign_failed"}
\* ERROR.json: the bundle it is about, and the reason.
Crumb == [of : Bundle, reason : Reason]
\* whole: LATEST.json's result has its status.json and every output beside it.
Outbox == [latest : Result \cup {Nothing}, whole : BOOLEAN, error : Crumb \cup {Nothing}]
NoOutbox == [latest |-> Nothing, whole |-> FALSE, error |-> Nothing]

\* Nothing is a value of its own (None, a file that is not there).
ASSUME NothingAssumption == Nothing \notin Proc \cup Bundle \cup Result \cup Crumb

VARIABLES
    lastSeq,    \* ca-state/last-seq, fsynced
    lastBuilt,  \* ca-state/last-built-seq, renamed into place
    lock,       \* the process that has ca-state/.caj.lock
    pc,         \* each process's next step
    work,       \* what each process is at
    placed,     \* the results all of whose outputs are in the repository
    at,         \* where each stick is
    inbox, outbox,
    ledger, high  \* the box: its results, the highest seq committed

mac == <<lastSeq, lastBuilt, placed>>
procs == <<lock, pc, work>>
sticks == <<at, inbox, outbox>>
box == <<ledger, high>>
vars == <<mac, procs, sticks, box>>

Ledger == INSTANCE JobLedger WITH Run <- Result, NoRun <- Nothing

Build == [stick : Stick, job : Job, bg : BOOLEAN, seq : SeqNo \cup {0}]
Receive == [stick : Stick, sawLatest : BOOLEAN, error : Crumb \cup {Nothing},
            result : Result \cup {Nothing}, new : SeqNo \cup {0}]
Building == {"next", "reserve", "tar", "bg", "sig"}
Receiving == {"receive", "errors", "report", "latest", "outputs", "merge", "record"}

TypeOK ==
    /\ lastSeq \in SeqNo \cup {0} /\ lastBuilt \in SeqNo \cup {0}
    /\ lock \in Proc \cup {Nothing}
    /\ pc \in [Proc -> {"idle"} \cup Building \cup Receiving]
    /\ \A p \in Proc :
         /\ pc[p] \in Building => work[p] \in Build
         /\ pc[p] \in Receiving => work[p] \in Receive
         /\ pc[p] \notin {"idle", "receive"} <=> lock = p
    /\ placed \subseteq Result
    /\ at \in [Stick -> {"mac", "box"}]
    /\ inbox \in [Stick -> Inbox] /\ outbox \in [Stick -> Outbox]
    /\ ledger \in [Job -> Result \cup {Nothing}] /\ high \in SeqNo \cup {0}

\* A new ca-state/, blank sticks, a box that has run nothing.
Init ==
    /\ lastSeq = 0 /\ lastBuilt = 0
    /\ lock = Nothing /\ pc = [p \in Proc |-> "idle"] /\ work = [p \in Proc |-> Nothing]
    /\ placed = {}
    /\ at = [s \in Stick |-> "mac"]
    /\ inbox = [s \in Stick |-> [tar |-> Nothing, bg |-> Nothing, sig |-> Nothing]]
    /\ outbox = [s \in Stick |-> NoOutbox]
    /\ Ledger!Init

Go(p, from, to) == pc[p] = from /\ pc' = [pc EXCEPT ![p] = to]

\* A process ends; the flock goes with it.
Exits(p) ==
    /\ pc' = [pc EXCEPT ![p] = "idle"] /\ work' = [work EXCEPT ![p] = Nothing]
    /\ lock' = IF lock = p THEN Nothing ELSE lock

\* Mutant of Locks.
UnlockedMutant(p) == lock' = p

\* flock(LOCK_EX) on .caj.lock; a process that waits for it has done nothing yet,
\* except that caj-recv has looked at the stick.
Locks(p) == lock = Nothing /\ lock' = p

-----------------------------------------------------------------------------
(* caj build.                                                              *)

StartBuild(p, s, w) ==
    /\ at[s] = "mac" /\ Go(p, "idle", "next") /\ Locks(p)
    /\ work' = [work EXCEPT ![p] = [stick |-> s, job |-> w.job, bg |-> w.bg, seq |-> 0]]
    /\ UNCHANGED <<mac, sticks, box>>

Larger(m, n) == IF m > n THEN m ELSE n

NextSeq == Larger(lastSeq, lastBuilt) + 1

TakeNext(p) ==
    /\ NextSeq \in SeqNo
    /\ Go(p, "next", "reserve")
    /\ work' = [work EXCEPT ![p].seq = NextSeq]
    /\ UNCHANGED <<lock, mac, sticks, box>>

\* Mutant of Reserve.
UnreservedMutant(p) ==
    /\ Go(p, "reserve", "tar")
    /\ UNCHANGED <<lock, work, mac, sticks, box>>

\* The seq is recorded before anything is built.
Reserve(p) ==
    /\ Go(p, "reserve", "tar")
    /\ lastBuilt' = work[p].seq
    /\ UNCHANGED <<lastSeq, placed, lock, work, sticks, box>>

\* Mutant of FileOrder.
SigBeforeBgMutant == [tar |-> "sig", sig |-> "bg", bg |-> "done"]

\* The order of the renames in the stick's inbox/.
FileOrder == [tar |-> "bg", bg |-> "sig", sig |-> "done"]

Made(p) == [job |-> work[p].job, seq |-> work[p].seq, bg |-> work[p].bg]

\* One of the files replaces its predecessor on the stick; job.tar.bg.sig only
\* with --breakglass, and one that is there from an earlier build stays.
Place(p) ==
    /\ pc[p] \in DOMAIN FileOrder /\ at[work[p].stick] = "mac"
    /\ inbox' = IF pc[p] = "bg" /\ ~work[p].bg THEN inbox
                ELSE [inbox EXCEPT ![work[p].stick][pc[p]] = Made(p)]
    /\ IF FileOrder[pc[p]] = "done" THEN Exits(p)
       ELSE pc' = [pc EXCEPT ![p] = FileOrder[@]] /\ UNCHANGED <<lock, work>>
    /\ UNCHANGED <<mac, at, outbox, box>>

-----------------------------------------------------------------------------
(* caj-recv.                                                               *)

\* Whether there is anything to receive is looked up before the lock is taken.
StartReceive(p, s) ==
    /\ at[s] = "mac" /\ outbox[s] # NoOutbox
    /\ Go(p, "idle", "receive")
    /\ work' = [work EXCEPT ![p] = [stick |-> s, sawLatest |-> outbox[s].latest # Nothing,
                                    error |-> outbox[s].error, result |-> Nothing,
                                    new |-> 0]]
    /\ UNCHANGED <<lock, mac, sticks, box>>

TakeLock(p) ==
    /\ Go(p, "receive", "errors") /\ Locks(p)
    /\ UNCHANGED <<work, mac, sticks, box>>

\* ERROR.json, if one was seen, is read again and reported; one that has gone
\* meanwhile is a warning, if there is a LATEST.json, and else the end.
ReadError(p) ==
    LET now == outbox[work[p].stick].error IN
    /\ pc[p] = "errors" /\ at[work[p].stick] = "mac"
    /\ IF work[p].error # Nothing /\ now # Nothing THEN Go(p, "errors", "report")
       ELSE Go(p, "errors", "latest") /\ work[p].sawLatest
    /\ work' = [work EXCEPT ![p].error = now]
    /\ UNCHANGED <<lock, mac, sticks, box>>

\* "No seq was consumed -- fix the job and re-insert."
Report(p) ==
    /\ pc[p] = "report"
    /\ IF work[p].sawLatest THEN Go(p, "report", "latest") /\ UNCHANGED <<lock, work>>
       ELSE Exits(p)
    /\ UNCHANGED <<mac, sticks, box>>

\* Mutant of ReadLatest.
LatestIsTheGateMutant(p) ==
    LET r == outbox[work[p].stick].latest IN
    /\ pc[p] = "latest" /\ at[work[p].stick] = "mac" /\ r # Nothing
    /\ Go(p, "latest", IF r.status = "ok" THEN "outputs" ELSE "merge")
    /\ work' = [work EXCEPT ![p].result = r]
    /\ UNCHANGED <<lock, mac, sticks, box>>

\* LATEST.json, status.json and the hash of every output, or the receive ends
\* here (Fail); only a job that succeeded has its outputs placed.
ReadLatest(p) ==
    LET r == outbox[work[p].stick].latest IN
    /\ pc[p] = "latest" /\ at[work[p].stick] = "mac" /\ r # Nothing
    /\ outbox[work[p].stick].whole
    /\ Go(p, "latest", IF r.status = "ok" THEN "outputs" ELSE "merge")
    /\ work' = [work EXCEPT ![p].result = r]
    /\ UNCHANGED <<lock, mac, sticks, box>>

\* From the files that were verified, as many as there are.
PlaceOutputs(p) ==
    /\ Go(p, "outputs", "merge") /\ at[work[p].stick] = "mac"
    /\ placed' = IF outbox[work[p].stick].whole THEN placed \cup {work[p].result} ELSE placed
    /\ UNCHANGED <<lastSeq, lastBuilt, lock, work, sticks, box>>

\* Mutant of Merge.
ReportedSeqMutant(p) ==
    /\ Go(p, "merge", "record")
    /\ work' = [work EXCEPT ![p].new = work[p].result.seq]
    /\ UNCHANGED <<lock, mac, sticks, box>>

Merge(p) ==
    /\ Go(p, "merge", "record")
    /\ work' = [work EXCEPT ![p].new = Larger(lastSeq, work[p].result.seq)]
    /\ UNCHANGED <<lock, mac, sticks, box>>

Record(p) ==
    /\ pc[p] = "record" /\ Exits(p)
    /\ lastSeq' = work[p].new
    /\ UNCHANGED <<lastBuilt, placed, sticks, box>>

\* Any error or the end of a process: a missing payload, no token, a stick
\* that is gone, an output that does not match its hash, a full disk.
Fail(p) ==
    /\ pc[p] # "idle" /\ Exits(p)
    /\ UNCHANGED <<mac, sticks, box>>

-----------------------------------------------------------------------------
(* The operator carries a stick; the box does with it what CaUsbRun says.  *)

\* (One that is pulled while a process writes to it or reads it makes that fail.)
Carry(s) ==
    /\ lock # Nothing => work[lock].stick # s
    /\ at' = [at EXCEPT ![s] = IF @ = "mac" THEN "box" ELSE "mac"]
    /\ UNCHANGED <<mac, procs, inbox, outbox, box>>

\* The insertion gets as far as freshness: signed and well formed.
Verified(s) == inbox[s].sig # Nothing /\ inbox[s].sig = inbox[s].tar
Inserted(s) == at[s] = "box" /\ Verified(s)
B(s) == inbox[s].tar
Cosigned(s) == inbox[s].bg = inbox[s].tar

\* The job's files and LATEST.json, and one of what ERROR.json may be then.  A stick
\* that is pulled too early has any of it, a LATEST.json without its files included;
\* one that is not has the result whole.
Delivers(s, result, errors) ==
    /\ \E latest \in {result, outbox[s].latest}, whole \in BOOLEAN, error \in errors :
         /\ whole => latest = result \/ outbox[s].whole
         /\ outbox' = [outbox EXCEPT ![s] = [latest |-> latest, whole |-> whole,
                                            error |-> error]]
    /\ UNCHANGED <<mac, procs, at, inbox>>

\* ERROR.json, unless it cannot be written or the stick is pulled too early.
Tells(s, reason) ==
    /\ \/ outbox' = [outbox EXCEPT ![s].error = [of |-> B(s), reason |-> reason]]
       \/ outbox' = outbox
    /\ UNCHANGED <<mac, procs, at, inbox, box>>

Fit(s) == B(s).job \notin Unfit
Fresh(s) == Fit(s) /\ B(s).seq > high /\ ledger[B(s).job] = Nothing

\* Mutant of BoxRefuses.
OneReasonMutant(s) ==
    Inserted(s) /\ (~Fit(s) \/ B(s).seq <= high) /\ Tells(s, "unfit")

\* The job is refused before it runs; dispatch refuses for want of the
\* co-signature after K1 was pressed.
BoxRefuses(s) ==
    /\ Inserted(s)
    /\ \/ ~Fit(s) /\ Tells(s, "unfit")
       \/ Fit(s) /\ Tells(s, "passing")
       \/ Fit(s) /\ B(s).seq <= high /\ Tells(s, "stale_seq")
       \/ Fresh(s) /\ B(s).job \in Privileged /\ ~Cosigned(s) /\ Tells(s, "cosign_failed")

\* The job is run, or K1 is not pressed, which is asked before the co-signature;
\* committed either way.  An old ERROR.json is removed, if that succeeds.
BoxRuns(s) ==
    /\ Inserted(s) /\ Fresh(s)
    /\ \E r \in [job : {B(s).job}, seq : {B(s).seq}, status : {"ok", "failed"}] :
         /\ r.status = "ok" /\ r.job \in Privileged => Cosigned(s)
         /\ Ledger!Record(B(s).job, B(s).seq, r)
         /\ Delivers(s, r, {Nothing, outbox[s].error})

\* A committed job under a higher seq: its result again, no seq consumed; the
\* ERROR.json stays.
BoxReplays(s) ==
    /\ Inserted(s) /\ Fit(s) /\ B(s).seq > high /\ ledger[B(s).job] # Nothing
    /\ Delivers(s, ledger[B(s).job], {outbox[s].error})
    /\ UNCHANGED box

Next ==
    \/ \E p \in Proc :
         \/ TakeLock(p) \/ TakeNext(p) \/ Reserve(p) \/ Place(p)
         \/ ReadError(p) \/ Report(p) \/ ReadLatest(p) \/ PlaceOutputs(p) \/ Merge(p)
         \/ Record(p) \/ Fail(p)
         \/ \E s \in Stick : StartReceive(p, s) \/ \E w \in Wanted : StartBuild(p, s, w)
    \/ \E s \in Stick : Carry(s) \/ BoxRefuses(s) \/ BoxRuns(s) \/ BoxReplays(s)

Spec == Init /\ [][Next]_vars

-----------------------------------------------------------------------------
(* Properties.                                                             *)

\* "no two DELIVERED jobs can ever bear the same seq" (caj), however builds and
\* receipts fail and overlap: two sticks that the box would accept never carry the
\* same one, neither carries one that is a result's of another job, and the next
\* seq is above all that the box has committed, received or not.
FreshSeqs ==
    /\ high < NextSeq
    /\ \A s \in Stick : Verified(s) =>
         /\ \A t \in Stick \ {s} : Verified(t) => B(t).seq # B(s).seq
         /\ \A j \in Job : ledger[j] # Nothing /\ ledger[j].seq = B(s).seq => j = B(s).job

\* The primary signature is the last file: a stick that the box accepts has the
\* co-signature it was built with, whichever builds were interrupted before.
SignatureLast == \A s \in Stick : Verified(s) /\ B(s).bg => Cosigned(s)

\* caj-recv never takes last-seq back, whatever the order in which results are
\* received and replayed, and two of it at a time.
LastSeqNeverFalls == [][lastSeq' >= lastSeq]_lastSeq

\* What last-seq confirms is a result of the box, and if that job succeeded its
\* outputs are in the repository, all of them, also when sticks are pulled between
\* LATEST.json, "the reader's commit gate", and the files it stands for.
ConfirmedIsPlaced ==
    lastSeq # 0 => \E j \in Job :
        /\ ledger[j] # Nothing /\ ledger[j].seq = lastSeq
        /\ ledger[j].status = "ok" => ledger[j] \in placed

\* "failed before the job ran" (caj-recv, of an ERROR.json) is true, then and
\* later, when the reason was the bundle's own: what the box refuses altogether, and
\* a privileged job that was sent without its co-signature, have not run under that
\* seq, and a result there can only be that K1 was not pressed.  Of stale_seq, and
\* of a reason that passes, it is not true; see the README.
RefusedNeverRuns ==
    \A p \in Proc : pc[p] = "report" /\ work[p].error.reason \in {"unfit", "cosign_failed"} =>
        LET r == ledger[work[p].error.of.job] IN
        r # Nothing /\ r.seq = work[p].error.of.seq => r.status = "failed"
==============================================================================
