------------------------------ MODULE CaUsbRun ------------------------------
(***************************************************************************)
(* The life of an inserted stick: box/bin/ca-usb-run as systemd runs it,   *)
(* one instance of ca-usb-job@.service per stick, all sharing one flock,   *)
(* one LED and one results store.  The modules it calls are reduced to     *)
(* their outcomes; CommitLog has the store in detail (here: is DONE there, *)
(* are the caches bumped).                                                 *)
(*                                                                         *)
(* The operator inserts and pulls sticks at any moment.  The process of a  *)
(* pulled stick lives on, its writes to the stick fail, until systemd      *)
(* stops it (BindsTo=); systemd also stops an instance that takes longer   *)
(* than TimeoutStartSec=.  Either way ExecStopPost= runs --cleanup.        *)
(***************************************************************************)
EXTENDS Naturals

CONSTANTS Stick, NoStick,
          Job,
          Bundle,     \* what a Mac may have put into a stick's inbox
          NoBundle,   \* a blank stick: no inbox/job.tar
          Carries,    \* Carries[s]: what stick s may be inserted with
          NoResult    \* no DONE; no LATEST.json

\* A bundle as the box's checks see it: what its signature slot verifies
\* against, whether job.tar.bg.sig verifies, whether extraction, manifest and
\* the box and clock checks accept it, and the job it carries.
ASSUME BundleAssumption ==
    Bundle \subseteq [signer : {"operator", "breakglass", "nobody"},
                      cosigned : BOOLEAN, wellFormed : BOOLEAN,
                      op : {"rotate-job-signers", "privileged", "vetted", "unknown"},
                      job : Job, seq : Nat \ {0}]

ASSUME CarriesAssumption == Carries \in [Stick -> SUBSET (Bundle \cup {NoBundle})]

SeqNo == {b.seq : b \in Bundle}
RanStatus == {"ok", "error"}  \* "aborted" goes the way of "error"
Status == RanStatus \cup {"no_confirmation"}
Result == [seq : SeqNo, status : Status]

\* outbox/: the jobs whose results/<job_id>/ is there with all its files, and
\* LATEST.json.  (ERROR.json is in Courier, where it is read.)
Latest == [job : Job, seq : SeqNo, status : Status, replayed : BOOLEAN]
Outbox == [whole : SUBSET Job,
           latest : Latest \cup {NoResult}]

\* Nobody's lock is no stick's, and no DONE is not a result.
ASSUME NullAssumption == NoStick \notin Stick /\ NoResult \notin Result

Led == {"IDLE", "VERIFYING", "READY", "RUNNING", "ERROR", "SAFE_REMOVE", "BUSY",
        "RECOVERY_OFFER", "RECOVERY_CONFIRM2", "RECOVERY_WRITE"}

VARIABLES
    plugged,    \* the sticks in the box's ports
    inbox,      \* inbox[s]: the bundle stick s was inserted with
    outbox,     \* outbox[s]: what the stick's mount shows
    onStick,    \* onStick[s]: the states of outbox[s] a pull may leave
    hasty,      \* history: sticks that were pulled with writes outstanding
    unit,       \* unit[s]: the step ca-usb-job@s is at
    ok,         \* ok[s]: what _finish(success) will be given
    mount,      \* mount[s]: "no", "ro" or "rw"
    lock,       \* the holder of /run/ca-usb/lock
    led,        \* user_led
    done,       \* done[j]: the result results/<job_id>/ holds
    seq,        \* the caches: {STATE_DIR}/seq ...
    consumed,   \* ... and {STATE_DIR}/consumed-jobs
    told        \* told[s]: the LATEST.json the run in progress is to write

sticks == <<plugged, inbox, outbox, onStick, hasty>>
store == <<done, seq, consumed>>
vars == <<sticks, unit, ok, mount, lock, led, store, told>>

\* The steps at which ca-usb-run's process exists, holding the lock or not.
Locked == {"begin", "mount", "check", "offer", "confirm2", "kit", "ready",
           "replayReady", "dispatch", "commit", "bump", "crumb", "deliver", "copy",
           "latest", "sync", "umount", "show", "exit"}
Running == {"start", "busy"} \cup Locked
Unit == {"none", "held", "stopped"} \cup Running

TypeOK ==
    /\ plugged \subseteq Stick /\ hasty \subseteq Stick
    /\ inbox \in [Stick -> Bundle \cup {NoBundle}]
    /\ outbox \in [Stick -> Outbox]
    /\ onStick \in [Stick -> SUBSET Outbox]
    /\ unit \in [Stick -> Unit] /\ ok \in [Stick -> BOOLEAN]
    /\ mount \in [Stick -> {"no", "ro", "rw"}]
    /\ lock \in Stick \cup {NoStick}
    /\ led \in Led
    /\ done \in [Job -> Result \cup {NoResult}]
    /\ seq \in SeqNo \cup {0} /\ consumed \subseteq Job
    /\ told \in [Stick -> Latest \cup {NoResult}]
    /\ \A s \in Stick : lock = s <=> unit[s] \in Locked

EmptyOutbox == [whole |-> {}, latest |-> NoResult]

Init ==
    /\ plugged = {} /\ inbox = [s \in Stick |-> NoBundle]
    /\ outbox = [s \in Stick |-> EmptyOutbox]
    /\ onStick = [s \in Stick |-> {EmptyOutbox}] /\ hasty = {}
    /\ unit = [s \in Stick |-> "none"] /\ ok = [s \in Stick |-> FALSE]
    /\ mount = [s \in Stick |-> "no"]
    /\ lock = NoStick /\ led = "IDLE"
    /\ done = [j \in Job |-> NoResult] /\ seq = 0 /\ consumed = {}
    /\ told = [s \in Stick |-> NoResult]

-----------------------------------------------------------------------------
(* Steps of an instance: from one step to the next ...                     *)

Go(s, from, to) == unit[s] = from /\ unit' = [unit EXCEPT ![s] = to]
Show(l) == led' = l
\* ... or to _finish(success).
Finish(s, from, success) ==
    /\ Go(s, from, "umount")
    /\ ok' = [ok EXCEPT ![s] = success]

B(s) == inbox[s]  \* the bundle, copied to the instance's tmpfs

\* Mutant of Ends.
KeepsLockMutant(s, to) ==
    /\ unit' = [unit EXCEPT ![s] = to]
    /\ mount' = [mount EXCEPT ![s] = "no"]
    /\ inbox' = [inbox EXCEPT ![s] = NoBundle]
    /\ ok' = [ok EXCEPT ![s] = FALSE]
    /\ told' = [told EXCEPT ![s] = NoResult]
    /\ UNCHANGED <<plugged, outbox, onStick, hasty, lock, store>>

\* The process ends, by itself or killed: the kernel drops its lock, its mount
\* namespace and its tmpfs go.
Ends(s, to) ==
    /\ unit' = [unit EXCEPT ![s] = to]
    /\ lock' = IF lock = s THEN NoStick ELSE lock
    /\ mount' = [mount EXCEPT ![s] = "no"]
    /\ inbox' = [inbox EXCEPT ![s] = NoBundle]
    /\ ok' = [ok EXCEPT ![s] = FALSE]
    /\ told' = [told EXCEPT ![s] = NoResult]
    /\ UNCHANGED <<plugged, outbox, onStick, hasty, store>>

-----------------------------------------------------------------------------
(* Taking the lock, mounting, checking.                                    *)

Acquire(s) ==
    /\ lock = NoStick /\ lock' = s
    /\ Go(s, "start", "begin")
    /\ UNCHANGED <<sticks, ok, mount, led, store, told>>

\* The lock is taken: exit 0 with the BUSY LED.
Contend(s) ==
    /\ lock # NoStick
    /\ Go(s, "start", "busy")
    /\ UNCHANGED <<sticks, ok, mount, lock, led, store, told>>
ShowBusy(s) ==
    /\ unit[s] = "busy" /\ Show("BUSY")
    /\ Ends(s, "held")

Begin(s) ==
    /\ Go(s, "begin", "mount") /\ Show("VERIFYING")
    /\ UNCHANGED <<sticks, ok, mount, lock, store, told>>

MountRo(s) ==
    /\ s \in plugged
    /\ Go(s, "mount", "check") /\ mount' = [mount EXCEPT ![s] = "ro"]
    /\ UNCHANGED <<sticks, ok, lock, led, store, told>>
\* mount_failed: ERROR, and nothing to umount.
MountFails(s) ==
    /\ Go(s, "mount", "exit") /\ Show("ERROR")
    /\ UNCHANGED <<sticks, ok, mount, lock, store, told>>

\* verify: the operator's anchor, or the break-glass one for a rotation.
Verified(b) == b.signer # "nobody"

\* Mutant of InScope.
InScopeMutant(b) == TRUE

\* A break-glass signature alone is good for a signer rotation only.
InScope(b) == b.signer = "breakglass" => b.op = "rotate-job-signers"

\* Copying fails, or no anchor vouches for the bytes: only the LED says so.
Forged(s) ==
    /\ B(s) # NoBundle /\ (Verified(B(s)) => s \notin plugged)
    /\ Finish(s, "check", FALSE)
    /\ UNCHANGED <<sticks, mount, lock, led, store, told>>

\* An authenticated job that fails a later check: ERROR.json is written.
Refuse(s) ==
    /\ B(s) # NoBundle /\ Verified(B(s))
    /\ ~B(s).wellFormed \/ ~InScope(B(s)) \/ B(s).seq <= seq
    /\ Go(s, "check", "crumb")
    /\ UNCHANGED <<sticks, ok, mount, lock, led, store, told>>

Passes(s) ==
    /\ B(s) # NoBundle /\ Verified(B(s))
    /\ B(s).wellFormed /\ InScope(B(s)) /\ B(s).seq > seq

Fresh(s) ==
    /\ Passes(s) /\ B(s).job \notin consumed
    /\ Go(s, "check", "ready") /\ Show("READY")
    /\ UNCHANGED <<sticks, ok, mount, lock, store, told>>

Replay(s) ==
    /\ Passes(s) /\ B(s).job \in consumed /\ done[B(s).job] # NoResult
    /\ Go(s, "check", "replayReady") /\ Show("READY")
    /\ UNCHANGED <<sticks, ok, mount, lock, store, told>>

-----------------------------------------------------------------------------
(* A blank stick (or one that no longer answers): the recovery kit.        *)

Offer(s) ==
    /\ B(s) = NoBundle \/ s \notin plugged
    /\ Go(s, "check", "offer") /\ Show("RECOVERY_OFFER")
    /\ UNCHANGED <<sticks, ok, mount, lock, store, told>>

Decline(s) ==
    /\ Finish(s, "offer", TRUE)
    /\ UNCHANGED <<sticks, mount, lock, led, store, told>>
Accept(s) ==
    /\ Go(s, "offer", "confirm2") /\ Show("RECOVERY_CONFIRM2")
    /\ UNCHANGED <<sticks, ok, mount, lock, store, told>>
\* A second press, or none: the kit is written with or without registry.json.
Confirm2(s) ==
    /\ Go(s, "confirm2", "kit") /\ Show("RECOVERY_WRITE")
    /\ UNCHANGED <<sticks, ok, mount, lock, store, told>>
WriteKit(s) ==
    /\ s \in plugged
    /\ mount' = [mount EXCEPT ![s] = "rw"]
    /\ Finish(s, "kit", TRUE)
    /\ UNCHANGED <<sticks, lock, led, store, told>>
KitFails(s) ==
    /\ Finish(s, "kit", FALSE)
    /\ UNCHANGED <<sticks, mount, lock, led, store, told>>

-----------------------------------------------------------------------------
(* The K1 gate and the handler.                                            *)

Press(s) ==
    /\ Go(s, "ready", "dispatch") /\ Show("RUNNING")
    /\ UNCHANGED <<sticks, ok, mount, lock, store, told>>

\* K1 times out (or is held): committed all the same, as no_confirmation.
Will(s, st) == [job |-> B(s).job, seq |-> B(s).seq, status |-> st, replayed |-> FALSE]
NoPress(s) ==
    /\ Go(s, "ready", "commit")
    /\ told' = [told EXCEPT ![s] = Will(s, "no_confirmation")]
    /\ UNCHANGED <<sticks, ok, mount, lock, led, store>>

\* A replay is gated alike, but without a press nothing is written.
ReplayPress(s) ==
    /\ Go(s, "replayReady", "deliver") /\ Show("RUNNING")
    /\ LET r == done[B(s).job] IN
         told' = [told EXCEPT ![s] = [job |-> B(s).job, seq |-> r.seq,
                                      status |-> r.status, replayed |-> TRUE]]
    /\ UNCHANGED <<sticks, ok, mount, lock, store>>
ReplayNoPress(s) ==
    /\ Finish(s, "replayReady", FALSE)
    /\ UNCHANGED <<sticks, mount, lock, led, store, told>>

\* The K1 device cannot be resolved: umount and EXIT_FAULT.
ButtonFault(s) ==
    /\ unit[s] \in {"offer", "confirm2", "ready", "replayReady"}
    /\ Ends(s, "stopped")
    /\ UNCHANGED led

\* dispatch.run raises DispatchError before anything is executed.
Runnable(b) ==
    b.op # "unknown" /\ (b.op = "privileged" => b.cosigned /\ b.signer = "operator")
DispatchRefuses(s) ==
    /\ Go(s, "dispatch", "crumb") /\ ~Runnable(B(s))
    /\ UNCHANGED <<sticks, ok, mount, lock, led, store, told>>

\* The handler runs and its outputs are collected.
Execute(s) ==
    /\ Go(s, "dispatch", "commit") /\ Runnable(B(s))
    /\ \E st \in RanStatus : told' = [told EXCEPT ![s] = Will(s, st)]
    /\ UNCHANGED <<sticks, ok, mount, lock, led, store>>

\* Something unforeseen is raised after the handler ran, before commit().
RunThenRaise(s) ==
    /\ Finish(s, "dispatch", FALSE) /\ Runnable(B(s))
    /\ UNCHANGED <<sticks, mount, lock, led, store, told>>

-----------------------------------------------------------------------------
(* Commit, then deliver.                                                   *)

\* commitlog.commit up to DONE ...
Commit(s) ==
    /\ Go(s, "commit", "bump") /\ done[B(s).job] = NoResult
    /\ done' = [done EXCEPT ![B(s).job] = [seq |-> B(s).seq, status |-> told[s].status]]
    /\ UNCHANGED <<sticks, ok, mount, lock, led, seq, consumed, told>>
\* ... and the caches.
Bump(s) ==
    /\ Go(s, "bump", "deliver")
    /\ seq' = IF B(s).seq > seq THEN B(s).seq ELSE seq
    /\ consumed' = consumed \cup {B(s).job}
    /\ UNCHANGED <<sticks, ok, mount, lock, led, done, told>>

\* DONE is there already: commit() returns at once, and the caller delivers.
CommitAgain(s) ==
    /\ Go(s, "commit", "deliver") /\ done[B(s).job] # NoResult
    /\ UNCHANGED <<sticks, ok, mount, lock, led, store, told>>

\* commit() raises, before or after DONE: nothing is delivered.
CommitRaises(s) ==
    /\ Finish(s, "commit", FALSE) \/ Finish(s, "bump", FALSE)
    /\ UNCHANGED <<sticks, mount, lock, led, store, told>>

\* A write to the stick.  Until it is written back a pull may undo it and keep
\* what is written after it: a vfat directory takes an fsync or not (best
\* effort), outbox/ has none before LATEST.json, the mount is not synchronous.
Write(s, o, left) ==
    /\ s \in plugged
    /\ outbox' = [outbox EXCEPT ![s] = o]
    /\ onStick' = [onStick EXCEPT ![s] = @ \cup left]
    /\ UNCHANGED <<plugged, inbox, hasty>>
\* sync(2) and umount(2) write everything back; a pulled stick has nothing left.
WriteBack(s) ==
    /\ onStick' = [onStick EXCEPT ![s] = {outbox[s]}]
    /\ UNCHANGED <<plugged, inbox, outbox, hasty>>

\* Remount read-write, start on outbox/<job_id>/; over an earlier copy the same
\* files are renamed again, any of which a pull may lose ...
CopyFirst(s) ==
    /\ Go(s, "deliver", "copy")
    /\ mount' = [mount EXCEPT ![s] = "rw"]
    /\ Write(s, outbox[s], {[o EXCEPT !.whole = @ \ {told[s].job}] : o \in onStick[s]})
    /\ UNCHANGED <<ok, lock, led, store, told>>
\* ... until every file is there ...
CopyRest(s) ==
    /\ Go(s, "copy", "latest")
    /\ Write(s, [outbox[s] EXCEPT !.whole = @ \cup {told[s].job}],
             {[o EXCEPT !.whole = @ \cup {told[s].job}] : o \in onStick[s]})
    /\ UNCHANGED <<ok, mount, lock, led, store, told>>

LatestLeft(s) == {[o EXCEPT !.latest = told[s]] : o \in onStick[s]}

\* Mutant of WriteLatest.
LatestEarlyMutant(s) ==
    /\ Go(s, "copy", "sync")
    /\ Write(s, [outbox[s] EXCEPT !.latest = told[s]], LatestLeft(s))
    /\ UNCHANGED <<ok, mount, lock, led, store, told>>

\* ... then LATEST.json ...
WriteLatest(s) ==
    /\ Go(s, "latest", "sync")
    /\ Write(s, [outbox[s] EXCEPT !.latest = told[s]], LatestLeft(s))
    /\ UNCHANGED <<ok, mount, lock, led, store, told>>
\* ... and everything is synced.
Sync(s) ==
    /\ Finish(s, "sync", told[s].replayed \/ told[s].status = "ok")
    /\ WriteBack(s)
    /\ UNCHANGED <<mount, lock, led, store, told>>

\* Mutant of DeliverFails.
FailureIgnoredMutant(s) ==
    /\ \E from \in {"deliver", "copy", "latest"} : Finish(s, from, told[s].status = "ok")
    /\ UNCHANGED <<sticks, mount, lock, led, store, told>>

\* The remount or a write raises: the committed result stays on the box.
DeliverFails(s) ==
    /\ \E from \in {"deliver", "copy", "latest"} : Finish(s, from, FALSE)
    /\ UNCHANGED <<sticks, mount, lock, led, store, told>>

\* ERROR.json, best effort, for which the stick is remounted read-write.
Crumb(s) ==
    /\ Finish(s, "crumb", FALSE)
    /\ \/ s \in plugged /\ mount' = [mount EXCEPT ![s] = "rw"]
       \/ UNCHANGED mount
    /\ UNCHANGED <<sticks, lock, led, store, told>>

-----------------------------------------------------------------------------
(* _finish, the end of the process, and systemd.                           *)

Umount(s) ==
    /\ Go(s, "umount", "show") /\ mount' = [mount EXCEPT ![s] = "no"]
    /\ WriteBack(s)
    /\ UNCHANGED <<ok, lock, led, store, told>>

\* Mutant of UmountFails.
UmountIgnoredMutant(s) ==
    /\ Go(s, "umount", "show")
    /\ UNCHANGED <<sticks, ok, mount, lock, led, store, told>>

\* A dirty umount is never followed by SAFE_REMOVE.
UmountFails(s) ==
    /\ Go(s, "umount", "show") /\ ok' = [ok EXCEPT ![s] = FALSE]
    /\ UNCHANGED <<sticks, mount, lock, led, store, told>>

ShowTerminal(s) ==
    /\ Go(s, "show", "exit") /\ Show(IF ok[s] THEN "SAFE_REMOVE" ELSE "ERROR")
    /\ UNCHANGED <<sticks, ok, mount, lock, store, told>>

\* Exit 0: the unit is held "active (exited)".
Exit(s) ==
    /\ unit[s] = "exit"
    /\ Ends(s, "held")
    /\ UNCHANGED led

\* Mutant of Stop: RuntimeMaxSec= in place of TimeoutStartSec= (no effect on
\* Type=oneshot).
NoWatchdogMutant(s) ==
    /\ unit[s] \in Running \cup {"held"} /\ s \notin plugged
    /\ Ends(s, "stopped")
    /\ UNCHANGED led

\* systemd stops the unit: its stick is gone, or the start timed out.
Stop(s) ==
    /\ \/ unit[s] \in Running
       \/ unit[s] = "held" /\ s \notin plugged
    /\ Ends(s, "stopped")
    /\ UNCHANGED led

\* ExecStopPost=: the LED goes dark and the tmpfs is wiped.
Cleanup(s) ==
    /\ Go(s, "stopped", "none") /\ Show("IDLE")
    /\ UNCHANGED <<sticks, ok, mount, lock, store, told>>

-----------------------------------------------------------------------------
(* The operator, and the Mac that fills the inbox.                         *)

Insert(s, b) ==
    /\ s \notin plugged /\ plugged' = plugged \cup {s}
    /\ inbox' = [inbox EXCEPT ![s] = b]
    /\ Go(s, "none", "start")
    /\ UNCHANGED <<outbox, onStick, hasty, ok, mount, lock, led, store, told>>

Pull(s) ==
    /\ s \in plugged /\ plugged' = plugged \ {s}
    /\ \E o \in onStick[s] : /\ outbox' = [outbox EXCEPT ![s] = o]
                             /\ onStick' = [onStick EXCEPT ![s] = {o}]
    /\ hasty' = IF onStick[s] = {outbox[s]} THEN hasty ELSE hasty \cup {s}
    /\ UNCHANGED <<inbox, unit, ok, mount, lock, led, store, told>>

-----------------------------------------------------------------------------

Step(s) ==
    \/ Acquire(s) \/ Contend(s) \/ ShowBusy(s) \/ Begin(s)
    \/ MountRo(s) \/ MountFails(s)
    \/ Forged(s) \/ Refuse(s) \/ Fresh(s) \/ Replay(s)
    \/ Offer(s) \/ Decline(s) \/ Accept(s) \/ Confirm2(s) \/ WriteKit(s) \/ KitFails(s)
    \/ Press(s) \/ NoPress(s) \/ ReplayPress(s) \/ ReplayNoPress(s) \/ ButtonFault(s)
    \/ DispatchRefuses(s) \/ Execute(s) \/ RunThenRaise(s)
    \/ Commit(s) \/ Bump(s) \/ CommitAgain(s) \/ CommitRaises(s)
    \/ CopyFirst(s) \/ CopyRest(s) \/ WriteLatest(s) \/ Sync(s)
    \/ DeliverFails(s) \/ Crumb(s)
    \/ Umount(s) \/ UmountFails(s) \/ ShowTerminal(s) \/ Exit(s)
    \/ Cleanup(s)

Next == \E s \in Stick : \/ Step(s) \/ Stop(s) \/ Pull(s)
                         \/ \E b \in Carries[s] : Insert(s, b)

Spec == Init /\ [][Next]_vars

\* systemd's part alone: it ends a start that takes too long and stops the unit
\* of a stick that is gone, and runs ExecStopPost=.  The job process may hang.
FairSpec == Spec /\ \A s \in Stick : WF_vars(Stop(s)) /\ WF_vars(Cleanup(s))

-----------------------------------------------------------------------------
(* Properties.                                                             *)

\* SAFE_REMOVE tells the operator to pull a stick: none is mounted then,
\* whichever instance lit it and whatever the others are doing.
SafeRemoveMeansUnmounted == led = "SAFE_REMOVE" => \A s \in Stick : mount[s] = "no"

\* A run that lights SAFE_REMOVE for a job has delivered it: LATEST.json and
\* the files are on the stick, and a pull cannot undo them.
SafeRemoveMeansDelivered ==
    \A s \in plugged : unit[s] = "exit" /\ led = "SAFE_REMOVE" /\ told[s] # NoResult =>
        onStick[s] = {outbox[s]} /\ outbox[s].latest = told[s]

\* The reader's gate.  Whatever a pull leaves of a delivery, a LATEST.json names
\* a job with a DONE on the box, and a replay tells the recorded outcome.  And
\* the copy beside it is complete, at every step of a delivery and after one
\* that failed or was killed halfway, unless the stick was once pulled before
\* the delivery had been synced: then LATEST.json may have come through without
\* its files (_write_latest, _deliver_and_finish).
LatestIsBacked ==
    \A s \in Stick :
        /\ \A o \in onStick[s] : o.latest # NoResult =>
              LET l == o.latest IN
              /\ done[l.job] # NoResult
              /\ l.replayed => done[l.job] = [seq |-> l.seq, status |-> l.status]
        /\ s \notin hasty /\ outbox[s].latest # NoResult =>
              outbox[s].latest.job \in outbox[s].whole

\* A handler is executed only for a bundle the operator's key signed, or a
\* break-glass key alone if it is a signer rotation; for a privileged script
\* only with both.
OnlyAuthorisedRuns ==
    [][\A s \in Stick : unit[s] = "dispatch" /\ unit'[s] \in {"commit", "umount"} =>
          /\ B(s).wellFormed
          /\ \/ B(s).signer = "operator"
             \/ B(s).signer = "breakglass" /\ B(s).op = "rotate-job-signers"
          /\ B(s).op = "privileged" => B(s).signer = "operator" /\ B(s).cosigned]_vars

\* A job that hangs, at whatever step, does not keep the box from the next
\* stick: its lock comes free, on the strength of systemd's watchdog alone.
LockComesFree == \A s \in Stick : lock = s ~> lock # s

\* The rhythm of the phase (_run_locked: "READY the K1 gate").
ReadyIsShown == \A s \in Stick : unit[s] \in {"ready", "replayReady"} => led = "READY"
==============================================================================
