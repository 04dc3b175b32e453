---------------------------- MODULE TrustAnchors ----------------------------
(***************************************************************************)
(* Who may command the box: the two anchor files allowed_signers and       *)
(* breakglass_signers, the checks a rotation job passes (verify.py, the    *)
(* scope gate of ca-usb-run, the flags dispatch.py hands on) and the       *)
(* handler that rewrites the files (box/handlers/rotate-job-signers).      *)
(*                                                                         *)
(* A file is its set of keys (verify._key_blobs).  Both files are in       *)
(* /etc/nebula-ca, so their renames reach the disk in order; onDisk is the *)
(* set of states a power cut may leave, as in CommitLog.  One job runs at  *)
(* a time (the flock), from verification to the end of the handler.        *)
(***************************************************************************)
CONSTANTS Key,    (* ssh keys                                              *)
          NoKey,  (* no job.tar.bg.sig                                     *)
          File    (* the files a bundle may propose, as sets of keys       *)

ASSUME NoKeyAssumption == NoKey \notin Key
ASSUME FileAssumption == File \subseteq SUBSET Key /\ {} \in File

Anchors == [allowed : SUBSET Key, breakglass : SUBSET Key]

\* A rotate-job-signers bundle: the keys of its two signature slots, and the
\* proposed files, each line of which is a loadable key.  Without a file
\* breakglass_signers in the payload, both is FALSE and breakglass {}.
Bundle == {j \in [signer : Key, cosigner : Key \cup {NoKey}, allowed : File,
                  both : BOOLEAN, breakglass : File] : ~j.both => j.breakglass = {}}

NoJob == [signer |-> NoKey, cosigner |-> NoKey, allowed |-> {}, both |-> FALSE,
          breakglass |-> {}]

VARIABLES
    anchors,  \* the two files, as processes see them
    onDisk,   \* the states of them a power cut may leave
    pc,       \* the step of the job in progress
    job,      \* its bundle
    auth      \* what the signatures were found to authorise

vars == <<anchors, onDisk, pc, job, auth>>

WriteSteps == {"allowed", "syncAllowed", "breakglass", "syncBreakglass"}

TypeOK ==
    /\ anchors \in Anchors /\ onDisk \in SUBSET Anchors
    /\ pc \in {"idle", "ready", "done"} \cup WriteSteps
    /\ job \in Bundle \cup {NoJob}
    /\ pc # "idle" => job \in Bundle
    /\ auth \in {"nothing", "operator", "cosigned", "breakglass"}

\* install.sh refuses to install one key in both roles.
Init ==
    /\ \E o, b \in Key :
          /\ o # b
          /\ anchors = [allowed |-> {o}, breakglass |-> {b}]
    /\ onDisk = {anchors}
    /\ pc = "idle" /\ job = NoJob /\ auth = "nothing"

-----------------------------------------------------------------------------
(* The signatures: verify, verify_breakglass_primary, verify_cosign.       *)

ByOperator(j) == j.signer \in anchors.allowed

\* Asked only of a bundle the operator's key signed; an empty or an
\* overlapping anchor file vouches for nothing.
Cosigned(j) ==
    /\ ByOperator(j) /\ j.cosigner \in anchors.breakglass
    /\ anchors.allowed # {} /\ anchors.allowed \cap anchors.breakglass = {}

\* The fallback, for this operation only: a break-glass key in the first slot.
ByBreakglass(j) == ~ByOperator(j) /\ j.signer \in anchors.breakglass

Present(j) ==
    /\ pc = "idle"
    /\ ByOperator(j) \/ ByBreakglass(j)
    /\ pc' = "ready" /\ job' = j
    /\ auth' = IF Cosigned(j) THEN "cosigned"
               ELSE IF ByOperator(j) THEN "operator" ELSE "breakglass"
    /\ UNCHANGED <<anchors, onDisk>>

-----------------------------------------------------------------------------
(* _plan: everything is validated before anything is written.              *)

\* The break-glass set after the rotation ...
NewBreakglass == IF job.both THEN job.breakglass ELSE anchors.breakglass

\* ... compared as sets of keys, whatever the bytes.
BreakglassChanging == NewBreakglass # anchors.breakglass

\* Mutant of Reserved.
ReservedMutant == NewBreakglass

\* Keys that may not be operators: break-glass ones, before or after.
Reserved == anchors.breakglass \cup NewBreakglass

\* Mutants of Acceptable.
LockoutMutant ==
    /\ BreakglassChanging => auth = "cosigned"
    /\ job.allowed \cap Reserved = {}
NoCosignMutant ==
    /\ job.allowed # {}
    /\ BreakglassChanging => auth # "breakglass"
    /\ job.allowed \cap Reserved = {}

\* would_lockout, bg_cannot_change_breakglass and cosign_required, overlap.
Acceptable ==
    /\ job.allowed # {}
    /\ BreakglassChanging => auth = "cosigned"
    /\ job.allowed \cap Reserved = {}

\* K1 is pressed and the plan stands.
Plan ==
    /\ pc = "ready" /\ Acceptable
    /\ pc' = "allowed"
    /\ UNCHANGED <<anchors, onDisk, job, auth>>

End == pc' = "idle" /\ job' = NoJob /\ auth' = "nothing"

\* No press, the plan is rejected, or the payload or an installed file cannot
\* be parsed (bad_manifest, bad_signers): nothing is written.
Refuse ==
    /\ pc = "ready" /\ End
    /\ UNCHANGED <<anchors, onDisk>>

-----------------------------------------------------------------------------
(* _atomic_install, first of allowed_signers, then of breakglass_signers   *)
(* if that set changes: rename, fsync of the directory.                    *)

Rename(from, new, to) ==
    /\ pc = from /\ pc' = to
    /\ anchors' = new /\ onDisk' = onDisk \cup {new}
    /\ UNCHANGED <<job, auth>>

InstallAllowed ==
    Rename("allowed", [anchors EXCEPT !.allowed = job.allowed], "syncAllowed")

SyncAllowed ==
    /\ pc = "syncAllowed"
    /\ pc' = IF BreakglassChanging THEN "breakglass" ELSE "done"
    /\ onDisk' = {anchors}
    /\ UNCHANGED <<anchors, job, auth>>

InstallBreakglass ==
    Rename("breakglass", [anchors EXCEPT !.breakglass = job.breakglass], "syncBreakglass")

\* Mutant of SyncBreakglass.
NoSyncMutant ==
    /\ pc = "syncBreakglass" /\ pc' = "done"
    /\ UNCHANGED <<anchors, onDisk, job, auth>>

SyncBreakglass ==
    /\ pc = "syncBreakglass" /\ pc' = "done"
    /\ onDisk' = {anchors}
    /\ UNCHANGED <<anchors, job, auth>>

\* The receipt is written (or not) and the handler exits.
Return ==
    /\ pc = "done" /\ End
    /\ UNCHANGED <<anchors, onDisk>>

\* A write raises OSError (write_failed), or the process is killed.
Fail ==
    /\ pc \in WriteSteps /\ End
    /\ UNCHANGED <<anchors, onDisk>>

PowerCut ==
    /\ End
    /\ anchors' \in onDisk /\ onDisk' = {anchors'}

Next == \/ \E j \in Bundle : Present(j)
        \/ Plan \/ Refuse
        \/ InstallAllowed \/ SyncAllowed \/ InstallBreakglass \/ SyncBreakglass
        \/ Return \/ Fail \/ PowerCut

Spec == Init /\ [][Next]_vars

-----------------------------------------------------------------------------
(* Properties.                                                             *)

\* No key ever has both roles, in no state between the two renames and in none
\* a power cut leaves: a co-signature is always a second key's.
Disjoint == \A d \in onDisk : d.allowed \cap d.breakglass = {}

\* The operator is never locked out: whatever a power cut leaves, some key is
\* allowed to command the box.
OperatorRemains == \A d \in onDisk : d.allowed # {}

\* A handler changes the break-glass set only for a bundle that a break-glass
\* key of the set it replaces has signed beside a key outside that set.
TwoKeyRule ==
    [][pc' # "idle" /\ anchors'.breakglass # anchors.breakglass =>
        job.cosigner \in anchors.breakglass /\ job.signer \notin anchors.breakglass]_vars

\* A rotation that reports success cannot be undone by a power cut, in either
\* file: no retired key comes back.
ReceiptHolds ==
    pc = "done" => onDisk = {[allowed |-> job.allowed, breakglass |-> NewBreakglass]}
==============================================================================
