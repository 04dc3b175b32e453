-------------------------- MODULE TrustAnchorsProofs --------------------------
(***************************************************************************)
(* Proofs about TrustAnchors, for any set of keys, any files and any       *)
(* sequence of rotations, failures and power cuts.                         *)
(*                                                                         *)
(* Disjoint is not inductive: between the two renames it rests on what     *)
(* the plan has checked (Planned), and that the co-signer is a second key  *)
(* rests on Disjoint in turn (Signed).                                     *)
(***************************************************************************)
EXTENDS TrustAnchors, TLAPS

Sound == \A d \in onDisk : d.allowed # {} /\ d.allowed \cap d.breakglass = {}

Visible == anchors \in onDisk

\* How far a rotation whose plan stood has got.
Planned ==
    /\ pc \in WriteSteps => job.allowed # {} /\ job.allowed \cap Reserved = {}
    /\ pc \in {"syncAllowed", "breakglass", "syncBreakglass", "done"} =>
          anchors.allowed = job.allowed
    /\ pc = "breakglass" => job.both
    /\ pc \in {"syncBreakglass", "done"} => ~BreakglassChanging
    /\ pc = "done" => onDisk = {anchors}

\* What the signatures are worth while the set they were checked against stands.
Signed ==
    /\ pc \in {"allowed", "syncAllowed", "breakglass"} /\ BreakglassChanging =>
          auth = "cosigned"
    /\ pc \in {"ready", "allowed", "syncAllowed", "breakglass"} /\ auth = "cosigned" =>
          job.cosigner \in anchors.breakglass /\ job.signer \notin anchors.breakglass

IInv == TypeOK /\ Sound /\ Visible /\ Planned /\ Signed

\* The inductive invariant holds initially: install.sh installs two keys.
LEMMA InitIInv == Init => IInv
<1> SUFFICES ASSUME Init PROVE IInv
  OBVIOUS
<1>1. PICK o, b \in Key : o # b /\ anchors = [allowed |-> {o}, breakglass |-> {b}]
  BY DEF Init
<1>2. TypeOK
  BY <1>1 DEF Init, TypeOK, Anchors, NoJob, WriteSteps
<1>3. Sound /\ Visible
  BY <1>1 DEF Init, Sound, Visible
<1>4. Planned /\ Signed
  BY DEF Init, Planned, Signed, WriteSteps
<1> QED BY <1>2, <1>3, <1>4 DEF IInv

\* Verifying the signatures of a bundle keeps the invariant: a co-signed job's
\* signer is allowed, and Sound keeps it out of the break-glass set.
LEMMA PresentIInv == ASSUME IInv, NEW j \in Bundle, Present(j) PROVE IInv'
<1> USE DEF IInv
<1>1. TypeOK'
  BY DEF Present, TypeOK, WriteSteps
<1>2. Sound' /\ Visible'
  BY DEF Present, Sound, Visible
<1>3. Planned'
  BY DEF Present, Planned, WriteSteps
<1>4. Signed'
  BY DEF Present, Signed, Cosigned, ByOperator
<1> QED BY <1>1, <1>2, <1>3, <1>4

\* The plan establishes what the two renames rely on.
LEMMA PlanIInv == ASSUME IInv, Plan PROVE IInv'
<1> USE DEF IInv
<1>1. TypeOK'
  BY DEF Plan, TypeOK, WriteSteps
<1>2. Sound' /\ Visible'
  BY DEF Plan, Sound, Visible
<1>3. Planned'
  BY DEF Plan, Planned, Acceptable, WriteSteps, Reserved, NewBreakglass
<1>4. Signed'
  BY DEF Plan, Signed, Acceptable, BreakglassChanging, NewBreakglass
<1> QED BY <1>1, <1>2, <1>3, <1>4

\* The state between the renames is sound because the new operators were kept
\* clear of the old break-glass set.
LEMMA InstallAllowedIInv == ASSUME IInv, InstallAllowed PROVE IInv'
<1> USE DEF IInv, InstallAllowed, Rename
<1>1. anchors' = [allowed |-> job.allowed, breakglass |-> anchors.breakglass]
  BY DEF TypeOK, Anchors
<1>2. job.allowed \in SUBSET Key
  BY FileAssumption DEF TypeOK, Bundle
<1>3. TypeOK'
  BY <1>1, <1>2 DEF TypeOK, WriteSteps, Anchors
<1>4. Sound' /\ Visible'
  BY <1>1 DEF Sound, Visible, Planned, WriteSteps, Reserved
<1>5. Planned'
  BY <1>1 DEF Planned, WriteSteps, Reserved, NewBreakglass
<1>6. Signed'
  BY <1>1 DEF Signed, BreakglassChanging, NewBreakglass
<1> QED BY <1>3, <1>4, <1>5, <1>6

\* The directory fsync after the first rename.
LEMMA SyncAllowedIInv == ASSUME IInv, SyncAllowed PROVE IInv'
<1> USE DEF IInv, SyncAllowed
<1>1. TypeOK'
  BY DEF TypeOK, WriteSteps, Visible
<1>2. Sound' /\ Visible'
  BY DEF Sound, Visible
<1>3. Planned'
  BY DEF Planned, WriteSteps, Reserved, NewBreakglass, BreakglassChanging
<1>4. Signed'
  BY DEF Signed, BreakglassChanging, NewBreakglass
<1> QED BY <1>1, <1>2, <1>3, <1>4

\* The second rename.
LEMMA InstallBreakglassIInv == ASSUME IInv, InstallBreakglass PROVE IInv'
<1> USE DEF IInv, InstallBreakglass, Rename
<1>1. anchors' = [allowed |-> anchors.allowed, breakglass |-> job.breakglass]
  BY DEF TypeOK, Anchors
<1>2. job.breakglass \in SUBSET Key
  BY FileAssumption DEF TypeOK, Bundle
<1>3. anchors.allowed = job.allowed /\ job.both
  BY DEF Planned
<1>4. TypeOK'
  BY <1>1, <1>2 DEF TypeOK, WriteSteps, Anchors
<1>5. Sound' /\ Visible'
  BY <1>1, <1>3 DEF Sound, Visible, Planned, WriteSteps, Reserved, NewBreakglass
<1>6. Planned'
  BY <1>1, <1>3 DEF Planned, WriteSteps, Reserved, NewBreakglass, BreakglassChanging
<1>7. Signed'
  BY DEF Signed
<1> QED BY <1>4, <1>5, <1>6, <1>7

\* The directory fsync after the second rename.
LEMMA SyncBreakglassIInv == ASSUME IInv, SyncBreakglass PROVE IInv'
<1> USE DEF IInv, SyncBreakglass
<1>1. TypeOK'
  BY DEF TypeOK, WriteSteps, Visible
<1>2. Sound' /\ Visible'
  BY DEF Sound, Visible
<1>3. Planned'
  BY DEF Planned, WriteSteps, BreakglassChanging, NewBreakglass
<1>4. Signed'
  BY DEF Signed
<1> QED BY <1>1, <1>2, <1>3, <1>4

\* The steps that end a job, a power cut among them, keep the invariant.
LEMMA EndIInv ==
    ASSUME IInv, End, anchors' \in onDisk, onDisk' \in {onDisk, {anchors'}}
    PROVE  IInv'
<1> USE DEF IInv, End
<1>1. TypeOK'
  BY DEF TypeOK, WriteSteps
<1>2. Sound' /\ Visible'
  BY DEF Sound, Visible
<1>3. Planned' /\ Signed'
  BY DEF Planned, Signed, WriteSteps
<1> QED BY <1>1, <1>2, <1>3

\* Every step of TrustAnchors preserves the invariant.
LEMMA NextIInv == IInv /\ [Next]_vars => IInv'
<1> SUFFICES ASSUME IInv, [Next]_vars PROVE IInv'
  OBVIOUS
<1>1. CASE \E j \in Bundle : Present(j)
  BY <1>1, PresentIInv
<1>2. CASE Plan
  BY <1>2, PlanIInv
<1>3. CASE InstallAllowed
  BY <1>3, InstallAllowedIInv
<1>4. CASE SyncAllowed
  BY <1>4, SyncAllowedIInv
<1>5. CASE InstallBreakglass
  BY <1>5, InstallBreakglassIInv
<1>6. CASE SyncBreakglass
  BY <1>6, SyncBreakglassIInv
<1>7. CASE Refuse \/ Return \/ Fail
  <2>1. End /\ anchors' \in onDisk /\ onDisk' = onDisk
    BY <1>7 DEF Refuse, Return, Fail, IInv, Visible
  <2> QED BY <2>1, EndIInv
<1>8. CASE PowerCut
  BY <1>8, EndIInv DEF PowerCut
<1>9. CASE UNCHANGED vars
  BY <1>9 DEF vars, IInv, TypeOK, Sound, Visible, Planned, Signed, Reserved,
             NewBreakglass, BreakglassChanging
<1> QED BY <1>1, <1>2, <1>3, <1>4, <1>5, <1>6, <1>7, <1>8, <1>9 DEF Next

\* The inductive invariant is an invariant.
THEOREM Invariant == Spec => []IInv
<1>1. Init => IInv
  BY InitIInv
<1>2. IInv /\ [Next]_vars => IInv'
  BY NextIInv
<1> QED BY <1>1, <1>2, PTL DEF Spec

\* The variables keep their types, job records and anchor files included.
THEOREM TypeCorrect == Spec => []TypeOK
<1>1. IInv => TypeOK
  BY DEF IInv
<1> QED BY <1>1, Invariant, PTL

\* No key is in both files, in any state a power cut may leave.
THEOREM DisjointHolds == Spec => []Disjoint
<1>1. IInv => Disjoint
  BY DEF IInv, Sound, Disjoint
<1> QED BY <1>1, Invariant, PTL

\* allowed_signers is never empty, in any state a power cut may leave.
THEOREM OperatorRemainsHolds == Spec => []OperatorRemains
<1>1. IInv => OperatorRemains
  BY DEF IInv, Sound, OperatorRemains
<1> QED BY <1>1, Invariant, PTL

\* A rotation that reports success is durable.
THEOREM ReceiptHoldsAlways == Spec => []ReceiptHolds
<1>1. ASSUME IInv, pc = "done"
      PROVE onDisk = {[allowed |-> job.allowed, breakglass |-> NewBreakglass]}
  <2>1. anchors = [allowed |-> anchors.allowed, breakglass |-> anchors.breakglass]
    BY <1>1 DEF IInv, TypeOK, Anchors
  <2>2. anchors.allowed = job.allowed /\ anchors.breakglass = NewBreakglass
    BY <1>1 DEF IInv, Planned, BreakglassChanging
  <2> QED BY <1>1, <2>1, <2>2 DEF IInv, Planned
<1>2. IInv => ReceiptHolds
  BY <1>1 DEF ReceiptHolds
<1> QED BY <1>2, Invariant, PTL

\* A change of the break-glass set takes two keys, one of each role.
THEOREM TwoKeyRuleHolds == Spec => TwoKeyRule
<1>1. ASSUME IInv, [Next]_vars, pc' # "idle", anchors'.breakglass # anchors.breakglass
      PROVE job.cosigner \in anchors.breakglass /\ job.signer \notin anchors.breakglass
  <2>1. InstallBreakglass
    <3>1. ~InstallAllowed
      BY <1>1 DEF InstallAllowed, Rename, IInv, TypeOK, Anchors
    <3>2. anchors' # anchors
      BY <1>1
    <3> QED BY <1>1, <3>1, <3>2 DEF Next, vars, Present, Plan, Refuse, SyncAllowed,
                    SyncBreakglass, Return, Fail, PowerCut, End
  <2>2. anchors'.breakglass = job.breakglass /\ job.both /\ pc = "breakglass"
    BY <1>1, <2>1 DEF InstallBreakglass, Rename, IInv, TypeOK, Anchors, Planned
  <2>3. BreakglassChanging
    BY <1>1, <2>2 DEF BreakglassChanging, NewBreakglass
  <2> QED BY <1>1, <2>2, <2>3 DEF IInv, Signed
<1>2. IInv /\ [Next]_vars =>
        [pc' # "idle" /\ anchors'.breakglass # anchors.breakglass =>
          job.cosigner \in anchors.breakglass /\ job.signer \notin anchors.breakglass]_vars
  BY <1>1
<1> QED BY <1>2, Invariant, PTL DEF TwoKeyRule, Spec
==============================================================================
