--------------------------- MODULE CaRotationProofs ---------------------------
(***************************************************************************)
(* Proofs about CaRotation, for any CAs, hosts and jobs and any sequence   *)
(* of failures, kills and power cuts.                                      *)
(*                                                                         *)
(* NeverKeyless is not inductive: undoing a bootstrap removes the key, and *)
(* a bootstrap runs only on a box that has never reported a CA (Younger).  *)
(* A receipt rests on how far the handler has got (Swapping) and on a new  *)
(* CA being none the box has had (Known).                                  *)
(*                                                                         *)
(* What the hosts depend on is FInv, relative to IInv: which pair can be   *)
(* on the disk, what has been archived for it, and how the books (the      *)
(* registry, the records, the block list) follow the fleet's certificates, *)
(* each up to the failure it does not survive (torn, stray).               *)
(***************************************************************************)
EXTENDS CaRotation, TLAPS

Visible == live \in onDisk

\* No key is of a CA that was never made; the key a job found is not the one
\* it makes.
Known ==
    /\ \A d \in onDisk : d.key \in minted \cup {NoCa}
    /\ pc \in Busy => job.retired \in minted \cup {NoCa}
    /\ pc \in Busy \ {"mint", "commit"} => job.new # job.retired

\* What the first check of each handler establishes.
Younger ==
    /\ pc \in Busy /\ job.op = "bootstrap" => job.retired = NoCa
    /\ pc \in Busy \ {"commit"} /\ job.op = "bootstrap" => ~born
    /\ pc \in {"undoCrt", "undoKey"} => job.op = "bootstrap"
    /\ pc \in Busy \ {"commit"} => ~job.ok
    /\ pc \in Busy /\ job.op = "sign" =>
          job.retired = NoCa /\ pc \in {"issue", "receipt", "commit"}
    /\ pc = "issue" => job.op = "sign" /\ job.new = live.key /\ job.new # NoCa

NewPair == [crt |-> job.new, key |-> job.new]

\* How far the swap has got.
Swapping ==
    /\ pc = "swapKey" => live.crt = job.new
    /\ pc = "sync" => live = NewPair
    /\ pc \in {"shred", "save"} \/ Succeeded =>
          onDisk = {NewPair} /\ job.new # NoCa /\ job.new # job.retired
    /\ pc = "save" \/ Succeeded => job.retired \notin remains

IInv == TypeOK /\ Visible /\ Known /\ Younger /\ Swapping /\ NeverKeyless

\* The inductive invariant holds on a box without a CA.
LEMMA InitIInv == Init => IInv
<1> SUFFICES ASSUME Init PROVE IInv
  OBVIOUS
<1>1. TypeOK
  <2>1. live \in Pair /\ onDisk \in SUBSET Pair
    BY DEF Init, Pair, MaybeCa
  <2>2. /\ archive \in [SeqNo -> MaybeCa]
        /\ registry \in Certs /\ records \in Certs /\ fleet \in Certs
    BY DEF Init, Certs, Cert, NoCert, Unsigned, MaybeCa
  <2> QED BY <2>1, <2>2 DEF Init, TypeOK, Busy
<1>2. Visible /\ Known /\ NeverKeyless
  BY DEF Init, Visible, Known, NeverKeyless, Busy
<1>3. Younger /\ Swapping
  BY DEF Init, Younger, Swapping, Succeeded, Busy
<1> QED BY <1>1, <1>2, <1>3 DEF IInv

\* A job that begins finds what its handler's first check asks for.
LEMMA BeginIInv ==
    ASSUME IInv, NEW s \in SeqNo, Bootstrap(s) \/ Rotate(s)
    PROVE  IInv'
<1> USE DEF IInv, Bootstrap, Rotate, Begin, Fresh
<1>1. /\ pc = "idle" /\ pc' = "mint" /\ job'.op \in {"bootstrap", "rotate"}
      /\ job'.retired = live.key /\ ~job'.ok
      /\ job'.op = "bootstrap" => live.key = NoCa
  OBVIOUS
<1>2. TypeOK'
  <2>1. live.crt \in MaybeCa /\ live.key \in MaybeCa /\ NoCa \in MaybeCa
    BY DEF TypeOK, Pair, MaybeCa
  <2>2. PICK op \in {"bootstrap", "rotate"} : Begin(op, s)
    BY DEF Bootstrap, Rotate
  <2>3. job' \in Job
    <3>1. job' = [op |-> op, seq |-> s, old |-> live.crt, retired |-> live.key,
                  new |-> NoCa, id |-> NoId, block |-> registry, signed |-> {},
                  ok |-> FALSE]
      BY <2>2
    <3>2. registry \in Certs /\ {} \in SUBSET Host
      BY DEF TypeOK
    <3> HIDE DEF IInv, Bootstrap, Rotate, Begin, Fresh
    <3> QED BY <2>1, <3>1, <3>2, SMT DEF Job
  <2> QED BY <1>1, <2>3 DEF TypeOK, Busy, files, books, history
<1>3. Visible' /\ NeverKeyless'
  BY DEF Visible, NeverKeyless, files, history
<1>4. Known'
  BY <1>1 DEF Known, Visible, Busy, files
<1>5. Younger'
  BY <1>1 DEF Younger, NeverKeyless, Visible, Busy, history
<1>6. Swapping'
  BY <1>1 DEF Swapping, Succeeded
<1> QED BY <1>2, <1>3, <1>4, <1>5, <1>6

\* A refused job changes neither the files nor the pair at work.
LEMMA RefuseIInv == ASSUME IInv, NEW s \in SeqNo, Refuse(s) PROVE IInv'
<1> USE DEF IInv, Refuse, Fresh
<1>1. pc = "idle" /\ pc' = pc /\ job' = job /\ live' = live /\ onDisk' = onDisk
  BY DEF files
<1>2. TypeOK'
  BY DEF TypeOK, files, history
<1>3. Visible' /\ NeverKeyless'
  BY <1>1 DEF Visible, NeverKeyless, history
<1>4. Known' /\ Younger' /\ Swapping'
  BY <1>1 DEF Known, Younger, Swapping, Succeeded, Busy, Visible, files, history
<1> QED BY <1>2, <1>3, <1>4

\* sign-hosts begins on a box that has a key, and signs with it.
LEMMA SignHostsIInv ==
    ASSUME IInv, NEW s \in SeqNo, NEW i \in Id, SignHosts(s, i)
    PROVE  IInv'
<1> USE DEF IInv, SignHosts, Fresh
<1>1. /\ pc = "idle" /\ pc' = "issue" /\ UNCHANGED <<files, books, history>>
      /\ job' = [op |-> "sign", seq |-> s, old |-> NoCa, retired |-> NoCa,
                 new |-> live.key, id |-> i, block |-> Unsigned, signed |-> {},
                 ok |-> FALSE]
      /\ live.key # NoCa
  OBVIOUS
<1>2. live.key \in minted /\ live.key \in MaybeCa
  BY <1>1 DEF Known, Visible, TypeOK, MaybeCa
<1>3. job' \in Job
  <2>1. Unsigned \in Certs /\ {} \in SUBSET Host /\ NoCa \in MaybeCa
    BY DEF Unsigned, Certs, Cert, NoCert, MaybeCa
  <2> HIDE DEF IInv, SignHosts, Fresh
  <2> QED BY <1>1, <1>2, <2>1, SMT DEF Job
<1>4. TypeOK'
  BY <1>1, <1>2, <1>3 DEF TypeOK, Busy, files, books, history
<1>5. Visible' /\ NeverKeyless'
  BY <1>1 DEF Visible, NeverKeyless, files, history
<1>6. Known' /\ Younger' /\ Swapping'
  BY <1>1, <1>2 DEF Known, Younger, Swapping, Succeeded, Visible, Busy, files, history
<1> QED BY <1>4, <1>5, <1>6

\* What a job gives out is a certificate.
LEMMA RenewedIsCerts ==
    ASSUME job \in Job, NEW certs \in Certs, NEW hosts \in SUBSET Host
    PROVE  Renewed(certs, hosts) \in Certs
<1>1. Certificate \in Cert
  BY DEF Certificate, Cert, Job
<1> QED BY <1>1 DEF Renewed, Certs

\* Saving the registry makes the pair that has signed the only one.
LEMMA IssueIInv == ASSUME IInv, NEW hosts \in SUBSET Host, Issue(hosts) PROVE IInv'
<1> USE DEF IInv, Issue, Step
<1>1. /\ pc = "issue" /\ pc' = "receipt" /\ job \in Job /\ job' = [job EXCEPT !.signed = hosts]
      /\ live.crt = live.key /\ live' = live /\ onDisk' = {live} /\ minted' = minted
      /\ remains' = remains /\ born' = born /\ live \in Pair
      /\ job.op = "sign" /\ job.new = live.key /\ job.new # NoCa /\ job.retired = NoCa
      /\ job.new \in minted
  BY DEF TypeOK, Busy, Younger, history
<1>2. /\ job' \in Job /\ job'.new = job.new /\ job'.retired = job.retired
      /\ job'.op = job.op /\ job'.ok = job.ok
  BY <1>1 DEF Job
<1>3. live = NewPair'
  BY <1>1, <1>2 DEF Pair, NewPair
<1>4. TypeOK'
  <2>1. registry' \in Certs
    BY <1>1, RenewedIsCerts DEF TypeOK
  <2> QED BY <1>1, <1>2, <2>1 DEF TypeOK, Busy, history
<1>5. Visible' /\ NeverKeyless'
  BY <1>1 DEF Visible, NeverKeyless
<1>6. Known' /\ Younger'
  BY <1>1, <1>2 DEF Known, Younger, Busy, Visible
<1>7. NoCa \notin remains
  BY NoCaAssumption DEF TypeOK
<1>8. Swapping'
  BY <1>1, <1>2, <1>3, <1>7 DEF Swapping, Succeeded
<1> QED BY <1>4, <1>5, <1>6, <1>8

\* Making the new CA: it is none the box has had.
LEMMA MintIInv == ASSUME IInv, NEW c \in Ca, Mint(c) PROVE IInv'
<1> USE DEF IInv, Mint, Step
<1>1. /\ pc = "mint" /\ pc' \in {"sign", "prepare"} /\ job \in Job
      /\ job' = [job EXCEPT !.new = c] /\ c \notin minted /\ minted' = minted \cup {c}
      /\ live' = live /\ onDisk' = onDisk /\ born' = born
  BY DEF TypeOK, Busy, history
<1>2. job' \in Job /\ job'.new = c /\ job'.retired = job.retired /\ job'.op = job.op
      /\ job'.ok = job.ok
  BY <1>1 DEF Job, MaybeCa
<1>3. TypeOK'
  BY <1>1, <1>2 DEF TypeOK, Busy, books, history
<1>4. Visible' /\ NeverKeyless'
  BY <1>1 DEF Visible, NeverKeyless
<1>5. Known'
  BY <1>1, <1>2, NoCaAssumption DEF Known, Busy
<1>6. Younger' /\ Swapping'
  BY <1>1, <1>2 DEF Younger, Swapping, Succeeded, Busy
<1> QED BY <1>3, <1>4, <1>5, <1>6

\* What the new pair is built with, beside the live one.
LEMMA BuildIInv == ASSUME IInv, Sign \/ Prepare \/ ArchiveOld PROVE IInv'
<1> USE DEF IInv, Sign, Prepare, ArchiveOld, Step
<1>1. /\ pc \in {"sign", "prepare", "archive"} /\ pc' \in {"archive", "swapCrt"}
      /\ live' = live /\ onDisk' \in {onDisk, {live}} /\ minted' = minted
      /\ remains' = remains /\ born' = born
      /\ job \in Job /\ job.new \in minted
  BY DEF TypeOK, Busy, files, history
<1>2. /\ job' \in Job /\ job'.new = job.new /\ job'.retired = job.retired
      /\ job'.op = job.op /\ job'.ok = job.ok
  BY <1>1 DEF Job, Renewable
<1>3. archive' \in [SeqNo -> MaybeCa] /\ registry' \in Certs
  BY <1>1 DEF TypeOK, Job, Certs, Cert, NoCert, Unsigned, MaybeCa, files, books
<1>4. onDisk' \in SUBSET Pair
  BY <1>1 DEF TypeOK
<1>5. TypeOK'
  BY <1>1, <1>2, <1>3, <1>4 DEF TypeOK, Busy, books, history
<1>6. Visible' /\ NeverKeyless'
  BY <1>1 DEF Visible, NeverKeyless
<1>7. Known'
  BY <1>1, <1>2 DEF Known, Busy, Visible
<1>8. Younger' /\ Swapping'
  BY <1>1, <1>2 DEF Younger, Swapping, Succeeded, Busy
<1> QED BY <1>5, <1>6, <1>7, <1>8

\* The two renames.
LEMMA SwapIInv == ASSUME IInv, SwapCrt \/ SwapKey PROVE IInv'
<1> USE DEF IInv, SwapCrt, SwapKey, Step
<1>1. /\ pc \in {"swapCrt", "swapKey"} /\ pc' \in {"swapKey", "sync"}
      /\ onDisk' = onDisk \cup {live'} /\ minted' = minted /\ job' = job
      /\ born' = born /\ job \in Job /\ job.new \in minted /\ job.new \in Ca
      /\ job.new # NoCa /\ live \in Pair
  BY NoCaAssumption DEF TypeOK, Busy, history
<1>2. /\ live' \in Pair /\ live'.key \in {live.key, job.new}
      /\ live'.crt = job.new
      /\ pc' = "sync" => live' = NewPair
  BY <1>1 DEF Pair, MaybeCa, NewPair, Swapping
<1>3. remains' \subseteq Ca
  BY <1>1 DEF TypeOK, Job, MaybeCa
<1>4. TypeOK'
  BY <1>1, <1>2, <1>3 DEF TypeOK, Busy, books, history
<1>5. Visible' /\ NeverKeyless'
  BY <1>1, <1>2 DEF Visible, NeverKeyless
<1>6. Known'
  BY <1>1, <1>2 DEF Known, Busy, Visible
<1>7. Younger'
  BY <1>1 DEF Younger, Busy
<1>8. Swapping'
  BY <1>1, <1>2 DEF Swapping, Succeeded, NewPair
<1> QED BY <1>4, <1>5, <1>6, <1>7, <1>8

\* The sync makes the new pair the only one; then the retired key goes, the
\* registry is saved, and the handler reports success.
LEMMA SettleIInv == ASSUME IInv, Sync \/ Shred \/ Save \/ Return PROVE IInv'
<1> USE DEF IInv, Step
<1>1. CASE Sync
  <2>1. /\ pc = "sync" /\ pc' \in {"shred", "receipt"} /\ job' = job /\ born' = born
        /\ live' = live /\ onDisk' = {live} /\ minted' = minted /\ remains' = remains
        /\ live = NewPair /\ job \in Job /\ job.new \in minted /\ job.new # NoCa
        /\ pc' = "receipt" => job.op = "bootstrap"
    BY <1>1, NoCaAssumption DEF Sync, TypeOK, Busy, Swapping, Younger, history, Job
  <2>2. TypeOK'
    BY <1>1, <2>1 DEF Sync, TypeOK, Busy, books, history
  <2>3. Visible' /\ NeverKeyless' /\ Known'
    BY <2>1 DEF Visible, NeverKeyless, Known, Busy, NewPair
  <2>4. Younger'
    BY <2>1 DEF Younger, Busy
  <2>5. NoCa \notin remains
    BY NoCaAssumption DEF TypeOK
  <2>6. Swapping'
    BY <2>1, <2>5 DEF Swapping, Succeeded, Known, Younger, Busy, NewPair
  <2> QED BY <2>2, <2>3, <2>4, <2>6
<1>2. CASE Shred \/ Save
  <2>1. /\ pc \in {"shred", "save"} /\ pc' \in {"save", "receipt"} /\ job' = job
        /\ born' = born /\ live' = live /\ onDisk' = onDisk /\ minted' = minted
        /\ remains' \subseteq remains /\ job \in Job /\ job.new \in minted
        /\ pc = "save" \/ job.retired \notin remains'
    BY <1>2 DEF Shred, Save, TypeOK, Busy, files, books, history
  <2>2. registry' \in Certs
    BY <1>2, <2>1, RenewedIsCerts DEF Shred, Save, TypeOK, Job, books
  <2>3. TypeOK'
    BY <1>2, <2>1, <2>2 DEF Shred, Save, TypeOK, Busy, files, books, history
  <2>4. Visible' /\ NeverKeyless' /\ Known' /\ Younger'
    BY <2>1 DEF Visible, NeverKeyless, Known, Younger, Busy
  <2>5. Swapping'
    BY <2>1 DEF Swapping, Succeeded, NewPair
  <2> QED BY <2>3, <2>4, <2>5
<1>3. CASE Return
  <2>1. /\ pc = "receipt" /\ pc' = "commit" /\ job \in Job
        /\ job' = [job EXCEPT !.ok = TRUE] /\ born' = TRUE
        /\ live' = live /\ onDisk' = onDisk /\ minted' = minted /\ remains' = remains
    BY <1>3 DEF Return, TypeOK, Busy, files
  <2>2. /\ job' \in Job /\ job'.new = job.new /\ job'.retired = job.retired
        /\ job'.op = job.op
    BY <2>1 DEF Job
  <2>3. TypeOK'
    BY <1>3, <2>1, <2>2 DEF Return, TypeOK, Busy, files, books
  <2>4. NeverKeyless'
    BY <2>1 DEF NeverKeyless, Swapping, Succeeded, NewPair
  <2>5. Visible' /\ Known' /\ Younger'
    BY <2>1, <2>2 DEF Visible, Known, Younger, Busy
  <2>6. Swapping'
    BY <2>1, <2>2 DEF Swapping, Succeeded, NewPair
  <2> QED BY <2>3, <2>4, <2>5, <2>6
<1> QED BY <1>1, <1>2, <1>3

\* A failing handler reports no success.
LEMMA FailIInv ==
    ASSUME IInv, SignFails \/ RotateFails \/ MintFails \/ BootstrapFails \/ Timeout
    PROVE  IInv'
<1> USE DEF IInv, SignFails, RotateFails, MintFails, BootstrapFails, Timeout, Step
<1>1. /\ pc \in Busy \ {"commit"} /\ pc' \in {"commit", "undoCrt"} /\ born' = born
      /\ stray' = stray /\ live' = live /\ onDisk' = onDisk /\ minted' = minted
      /\ remains' \subseteq remains
      /\ job \in Job /\ ~job.ok
      /\ pc' = "undoCrt" => job.op = "bootstrap" /\ job' = job /\ pc # "mint"
  BY DEF TypeOK, Busy, Younger, files, history
<1>2. /\ job' \in Job /\ job'.new = job.new /\ job'.retired = job.retired
      /\ job'.op = job.op /\ job'.ok = job.ok
  <2>1. \A some \in SoFar : some \subseteq Host
    BY <1>1 DEF SoFar, Job, Renewable
  <2>2. job' = job \/ \E some \in SoFar : job' = [job EXCEPT !.signed = some]
    BY DEF EndsWith
  <2> QED BY <1>1, <2>1, <2>2 DEF Job
<1>3. torn' \in {"no", "failed", "aborted"}
  BY DEF Fails, TypeOK, history
<1>4. TypeOK'
  BY <1>1, <1>2, <1>3 DEF TypeOK, Busy, files, books, history
<1>5. Visible' /\ NeverKeyless'
  BY <1>1 DEF Visible, NeverKeyless
<1>6. Known' /\ Younger' /\ Swapping'
  BY <1>1, <1>2 DEF Known, Younger, Swapping, Succeeded, Busy
<1> QED BY <1>4, <1>5, <1>6

\* Undoing a bootstrap: nothing has been reported yet.
LEMMA UndoIInv == ASSUME IInv, UndoCrt \/ UndoKey PROVE IInv'
<1> USE DEF IInv, UndoCrt, UndoKey, Step
<1>1. /\ pc \in {"undoCrt", "undoKey"} /\ pc' \in {"undoKey", "commit"} /\ job' = job
      /\ born' = born /\ ~born /\ onDisk' = onDisk \cup {live'} /\ minted' = minted
      /\ remains' \subseteq remains \cup ({live.key} \ {NoCa})
      /\ job \in Job /\ ~job.ok /\ job.op = "bootstrap" /\ live \in Pair
  BY DEF TypeOK, Busy, Younger, history
<1>2. live' \in Pair /\ live'.key \in {live.key, NoCa}
  BY <1>1 DEF Pair, MaybeCa
<1>3. torn' \in {"no", "failed", "aborted"}
  BY DEF TypeOK, history
<1>4. TypeOK'
  <2>1. remains' \subseteq Ca
    BY <1>1 DEF TypeOK, Pair, MaybeCa
  <2> QED BY <1>1, <1>2, <1>3, <2>1 DEF TypeOK, Busy, books, history
<1>5. Visible' /\ NeverKeyless'
  BY <1>1 DEF Visible, NeverKeyless
<1>6. Known'
  BY <1>1, <1>2 DEF Known, Busy, Visible
<1>7. Younger' /\ Swapping'
  BY <1>1 DEF Younger, Swapping, Succeeded, Busy
<1> QED BY <1>4, <1>5, <1>6, <1>7

\* The end of a job, by its commit or without one, power cuts and boots.
LEMMA EndIInv ==
    ASSUME IInv, Commit \/ CommitEmpty \/ Abort \/ PowerCut \/ Boot
    PROVE  IInv'
<1> USE DEF IInv, Commit, CommitEmpty, Abort, PowerCut, Boot, Step
<1>1. /\ pc' \in {"idle", "off"} /\ born' = born /\ minted' = minted
      /\ live' \in onDisk /\ onDisk' \in {onDisk, {live'}} /\ live' \in onDisk'
  BY DEF Visible, files, history
<1>2. live' \in Pair /\ onDisk' \in SUBSET Pair
  BY <1>1 DEF TypeOK
<1>3. remains' \subseteq Ca
  BY <1>2 DEF TypeOK, Pair, MaybeCa, files
<1>4. registry' \in Certs /\ records' \in Certs /\ fleet' \in Certs
      /\ last' \in SeqNo \cup {0}
  <2>1. CASE Commit
    <3>1. job \in Job /\ job.signed \in SUBSET Host /\ job.seq \in SeqNo
      BY <2>1 DEF TypeOK, Busy, Job
    <3>2. Renewed(records, job.signed) \in Certs /\ Renewed(fleet, job.signed) \in Certs
      BY <3>1, RenewedIsCerts DEF TypeOK
    <3> QED BY <2>1, <3>1, <3>2 DEF TypeOK
  <2>2. CASE CommitEmpty \/ Abort \/ PowerCut \/ Boot
    BY <2>2 DEF TypeOK, Job, Busy, books
  <2> QED BY <2>1, <2>2
<1>5. /\ torn' \in {"no", "failed", "aborted"}
      /\ archive' \in [SeqNo -> MaybeCa]
  BY DEF TypeOK, Fails, Aborts, files, history
<1>9. stray' \in [registry : SUBSET Host, records : SUBSET Host]
  <2>1. pc \in Busy => Entered \subseteq Host /\ job.signed \subseteq Host
    BY DEF TypeOK, Job, Entered
  <2>2. stray \in [registry : SUBSET Host, records : SUBSET Host]
    BY DEF TypeOK
  <2>3. CASE Commit
    BY <2>1, <2>2, <2>3 DEF Busy
  <2>4. CASE CommitEmpty \/ Abort \/ PowerCut
    BY <2>1, <2>2, <2>4 DEF Leaves
  <2>5. CASE Boot
    BY <2>2, <2>5
  <2> QED BY <2>3, <2>4, <2>5
<1>6. TypeOK'
  BY <1>1, <1>2, <1>3, <1>4, <1>5, <1>9 DEF TypeOK, Busy
<1>7. Visible' /\ NeverKeyless' /\ Known'
  BY <1>1 DEF Visible, NeverKeyless, Known, Busy
<1>8. Younger' /\ Swapping'
  BY <1>1 DEF Younger, Swapping, Succeeded, Busy
<1> QED BY <1>6, <1>7, <1>8

\* Every step keeps the inductive invariant.
LEMMA StepIInv == IInv /\ [Next]_vars => IInv'
<1> SUFFICES ASSUME IInv, [Next]_vars PROVE IInv'
  OBVIOUS
<1>1. CASE \E s \in SeqNo : Bootstrap(s) \/ Rotate(s)
  BY <1>1, BeginIInv
<1>2. CASE \/ \E s \in SeqNo : Refuse(s)
           \/ \E s \in SeqNo, i \in Id : SignHosts(s, i)
           \/ \E hosts \in SUBSET Host \ {{}} : Issue(hosts)
  BY <1>2, RefuseIInv, SignHostsIInv, IssueIInv
<1>3. CASE \E c \in Ca : Mint(c)
  BY <1>3, MintIInv
<1>4. CASE Sign \/ Prepare \/ ArchiveOld
  BY <1>4, BuildIInv
<1>5. CASE SwapCrt \/ SwapKey
  BY <1>5, SwapIInv
<1>6. CASE Sync \/ Shred \/ Save \/ Return
  BY <1>6, SettleIInv
<1>7. CASE SignFails \/ RotateFails \/ MintFails \/ BootstrapFails \/ Timeout
  BY <1>7, FailIInv
<1>8. CASE UndoCrt \/ UndoKey
  BY <1>8, UndoIInv
<1>9. CASE Commit \/ CommitEmpty \/ Abort \/ PowerCut \/ Boot
  BY <1>9, EndIInv
<1>10. CASE UNCHANGED vars
  BY <1>10 DEF IInv, TypeOK, Visible, Known, Younger, Swapping, NeverKeyless, Succeeded,
     NewPair, vars
<1> QED
  BY <1>1, <1>2, <1>3, <1>4, <1>5, <1>6, <1>7, <1>8, <1>9, <1>10 DEF Next

\* Every reachable state satisfies the inductive invariant.
THEOREM Invariance == Spec => []IInv
BY InitIInv, StepIInv, PTL DEF Spec

\* The files, the books and the job at work are always of their types; from
\* the mint to the end of its handler a job's new CA is one that was made.
THEOREM TypeCorrect == Spec => []TypeOK
<1>1. IInv => TypeOK
  BY DEF IInv
<1> QED BY <1>1, Invariance, PTL

\* Once ca-bootstrap or rotate-ca has reported success, the box has a
\* certificate and a key in every state a failure or a power cut can leave.
THEOREM KeyRemains == Spec => []NeverKeyless
<1>1. IInv => NeverKeyless
  BY DEF IInv
<1> QED BY <1>1, Invariance, PTL

\* A receipt means that the new pair is durable and the retired key destroyed.
THEOREM ReceiptIsFinal == Spec => []ReceiptMeansReplaced
<1>1. IInv => ReceiptMeansReplaced
  BY DEF IInv, Swapping, ReceiptMeansReplaced, NewPair
<1> QED BY <1>1, Invariance, PTL

-----------------------------------------------------------------------------
(* Between jobs, and from the first rename of a rotation on.               *)

Rotating == pc \in Busy /\ job.op = "rotate"
Halfway == pc \in Busy /\ Swapped

\* What a handler finds, and that it has not been renamed over yet.
AsFound ==
    /\ \A d \in onDisk : d.crt \in minted \cup {NoCa}
    /\ pc = "mint" => job.new = NoCa
    /\ pc \in {"mint", "sign", "prepare", "archive", "swapCrt"} =>
          live.crt = job.old
    /\ pc \in {"sign", "prepare", "archive", "swapCrt"} => job.new # job.old
    /\ pc \in {"mint", "sign", "prepare", "archive", "swapCrt", "swapKey"} =>
          live.key = job.retired
    /\ pc \in Busy => job.seq > last
    /\ pc \in {"sign", "archive", "shred", "save"} => job.op = "rotate"
    /\ pc = "prepare" => job.op = "bootstrap"
    /\ Rotating /\ (pc = "swapCrt" \/ Swapped) => archive[job.seq] = job.old
    /\ pc \in Busy /\ job.op = "bootstrap" => job.signed = {}
    /\ pc \in {"issue", "sign"} => job.signed = {}

\* Without a key no host has a certificate.
Keyless ==
    (\E d \in onDisk : d.key = NoCa) \/ (pc \in Busy /\ job.op = "bootstrap")
        => fleet = Unsigned

\* The pair fits, but between a rotation's renames.
PairInv ==
    torn = "no" /\ ~(Rotating /\ pc \in {"swapKey", "sync"})
        => \A d \in onDisk : d.key \in {NoCa, d.crt}

\* The archive of the committed jobs, and of the one that has renamed, has what
\* the fleet needs, whichever pair a power cut leaves.
Settled == {s \in SeqNo : s <= last \/ (Halfway /\ s = job.seq)}
FleetInv ==
    torn # "aborted" =>
        \A d \in onDisk, h \in Host :
            fleet[h].ca \in {NoCa, d.crt} \cup {archive[s] : s \in Settled}

\* The hosts rotations renew have certificates of the CA on the box, or of the one
\* that is being replaced.
TrustInv ==
    torn = "no" =>
        /\ ~Halfway => \A d \in onDisk, h \in Host \ Skipped : fleet[h].ca \in {NoCa, d.crt}
        /\ Rotating => \A h \in Host \ Skipped : fleet[h].ca \in {NoCa, job.old}
        /\ pc = "commit" /\ Swapped => job.ok

\* Every host with a certificate is in the books; so is what a rotation signs, and
\* what sign-hosts has saved.
Registered ==
    /\ \A h \in Host : fleet[h] # NoCert => registry[h] # NoCert /\ records[h] # NoCert
    /\ pc \in Busy => \A h \in job.signed :
          job.new # NoCa /\ (registry[h] # NoCert \/ (job.op = "sign" /\ ~Succeeded))
Covers ==
    Rotating /\ (pc \in Busy \ {"mint", "sign", "commit"} \/ (pc = "commit" /\ job.ok))
        => \A h \in Host \ Skipped : fleet[h] # NoCert => h \in job.signed

\* The books have the fleet's certificates, but for what a job without a result has
\* left in them, and for what the job at work has saved already.
BookInv ==
    /\ \A h \in Host \ stray.records : fleet[h] \in {NoCert, records[h]}
    /\ \A h \in Host \ stray.registry :
          /\ fleet[h] \in {NoCert, registry[h]} \/ (pc \in Busy /\ h \in Entered)
          /\ Rotating => fleet[h] \in {NoCert, job.block[h]}
    /\ Succeeded => job.signed \subseteq Entered

FInv == /\ AsFound /\ Keyless /\ PairInv /\ FleetInv /\ TrustInv /\ Registered /\ Covers
        /\ BookInv

USE NoCaAssumption

\* A step that keeps the books keeps what is said of them.
LEMMA BooksKept ==
    ASSUME BookInv, UNCHANGED <<registry, records, fleet, stray>>,
           pc \in Busy, pc' \in Busy, job'.new = job.new, job'.id = job.id,
           job'.signed = job.signed, job'.block = job.block,
           Rotating' => Rotating, Succeeded' => Succeeded
    PROVE  BookInv'
<1>1. Certificate' = Certificate
  BY DEF Certificate
<1>2. Entered' = Entered
  BY <1>1 DEF Entered
<1> QED BY <1>2 DEF BookInv

\* The seq of the job at work is above those that count as settled before it.
LEMMA Numbers ==
    ASSUME IInv, FInv, pc \in Busy
    PROVE  /\ job.seq \in SeqNo
           /\ \A s \in SeqNo : s <= last => s # job.seq
           /\ \A s \in SeqNo : s <= last \/ s = job.seq => s <= job.seq
<1>1. last \in SeqNo \cup {0}
  BY DEF IInv, TypeOK
<1>2. SeqNo \subseteq Nat /\ 0 \in Nat
  BY SeqNoAssumption, SMT
<1>3. job.seq \in SeqNo
  BY DEF IInv, TypeOK, Job
<1>4. job.seq > last
  BY DEF FInv, AsFound
<1>5. last \in Nat /\ job.seq \in Nat
  BY <1>1, <1>2, <1>3
<1> QED BY <1>2, <1>3, <1>4, <1>5

\* Committing the job settles what has been archived for it.
LEMMA SettledGrows ==
    ASSUME IInv, FInv, pc \in Busy, last' = job.seq
    PROVE  Settled \subseteq Settled'
<1>1. \A s \in SeqNo : s <= last \/ s = job.seq => s <= last'
  BY Numbers
<1> QED BY <1>1 DEF Settled

\* Nothing is signed, archived or at stake on a box without a CA.
LEMMA InitFInv == Init => FInv
<1> SUFFICES ASSUME Init PROVE FInv
  OBVIOUS
<1>1. /\ pc = "idle" /\ onDisk = {live} /\ live.crt = NoCa /\ live.key = NoCa
      /\ fleet = Unsigned /\ \A h \in Host : fleet[h] = NoCert /\ fleet[h].ca = NoCa
      /\ \A d \in onDisk : d.crt = NoCa /\ d.key = NoCa
  BY DEF Init, Unsigned, NoCert
<1> QED
  BY <1>1 DEF FInv, AsFound, Keyless, PairInv, FleetInv, TrustInv, Registered, Covers, BookInv,
              Rotating, Halfway, Succeeded, Busy

\* A handler begins with what it finds, and nothing renamed yet.
LEMMA BeginFInv ==
    ASSUME IInv, FInv, NEW s \in SeqNo, Bootstrap(s) \/ Rotate(s)
    PROVE  FInv'
<1>1. /\ pc = "idle" /\ pc' = "mint" /\ s > last /\ UNCHANGED <<files, books, history>>
      /\ job'.op \in {"bootstrap", "rotate"}
      /\ job'.new = NoCa /\ job'.old = live.crt /\ job'.retired = live.key /\ job'.seq = s
      /\ job'.block = registry /\ job'.signed = {} /\ ~job'.ok
      /\ job'.op = "bootstrap" => live.key = NoCa
      /\ live \in onDisk
  BY DEF Bootstrap, Rotate, Begin, Fresh, IInv, Visible
<1>2. ~Halfway /\ ~Halfway' /\ ~Swapped' /\ ~Succeeded /\ ~Succeeded' /\ ~Rotating
  BY <1>1 DEF Halfway, Swapped, Succeeded, Rotating, Busy
<1>3. AsFound' /\ Covers'
  BY <1>1, <1>2 DEF FInv, AsFound, Covers, Rotating, Busy, files, books
<1>4. Keyless' /\ PairInv' /\ Registered'
  BY <1>1, <1>2 DEF FInv, Keyless, PairInv, Registered, files, books, history, Busy
<1>5. FleetInv'
  <2>1. Settled' = Settled
    BY <1>1, <1>2 DEF Settled, books
  <2> QED BY <1>1, <2>1 DEF FInv, FleetInv, files, books, history
<1>6. TrustInv' /\ BookInv'
  BY <1>1, <1>2 DEF FInv, TrustInv, BookInv, files, books, history, Busy
<1> QED BY <1>3, <1>4, <1>5, <1>6 DEF FInv

\* A job that is refused only raises the number of the last one.
LEMMA RefuseFInv ==
    ASSUME IInv, FInv, NEW s \in SeqNo, Refuse(s)
    PROVE  FInv'
<1>1. /\ pc = "idle" /\ pc' = pc /\ s > last /\ last' = s /\ UNCHANGED job
      /\ UNCHANGED <<files, registry, records, fleet, history>>
  BY DEF Refuse, Fresh
<1>2. ~Halfway /\ ~Halfway' /\ ~Succeeded /\ ~Succeeded' /\ ~Rotating /\ ~Rotating'
  BY <1>1 DEF Halfway, Succeeded, Rotating, Busy
<1>3. AsFound' /\ Covers' /\ Keyless' /\ PairInv' /\ Registered' /\ TrustInv' /\ BookInv'
  BY <1>1, <1>2 DEF FInv, AsFound, Covers, Keyless, PairInv, Registered, TrustInv, BookInv,
                    files, history, Busy
<1>4. Settled \subseteq Settled'
  <2>1. last \in Nat /\ s \in Nat /\ SeqNo \subseteq Nat
    BY SeqNoAssumption DEF IInv, TypeOK
  <2>2. \A t \in SeqNo : t <= last => t <= last'
    BY <1>1, <2>1
  <2> QED BY <1>2, <2>2 DEF Settled
<1>5. FleetInv'
  BY <1>1, <1>4 DEF FInv, FleetInv, files, history
<1> QED BY <1>3, <1>5 DEF FInv

\* sign-hosts begins: nothing is signed yet.
LEMMA SignHostsFInv ==
    ASSUME IInv, FInv, NEW s \in SeqNo, NEW i \in Id, SignHosts(s, i)
    PROVE  FInv'
<1>1. /\ pc = "idle" /\ pc' = "issue" /\ s > last /\ UNCHANGED <<files, books, history>>
      /\ job'.op = "sign" /\ job'.seq = s /\ job'.signed = {} /\ ~job'.ok
  BY DEF SignHosts, Fresh
<1>2. ~Halfway /\ ~Halfway' /\ ~Succeeded /\ ~Succeeded' /\ ~Rotating /\ ~Rotating'
  BY <1>1 DEF Halfway, Swapped, Succeeded, Rotating, Busy
<1>3. AsFound' /\ Covers'
  BY <1>1, <1>2 DEF FInv, AsFound, Covers, Busy, files, books
<1>4. Keyless' /\ PairInv' /\ Registered'
  BY <1>1, <1>2 DEF FInv, Keyless, PairInv, Registered, files, books, history, Busy
<1>5. FleetInv'
  <2>1. Settled' = Settled
    BY <1>1, <1>2 DEF Settled, books
  <2> QED BY <1>1, <2>1 DEF FInv, FleetInv, files, books, history
<1>6. TrustInv' /\ BookInv'
  BY <1>1, <1>2 DEF FInv, TrustInv, BookInv, files, books, history, Busy
<1> QED BY <1>3, <1>4, <1>5, <1>6 DEF FInv

\* The registry has what sign-hosts has issued before anybody else has it.
LEMMA IssueFInv ==
    ASSUME IInv, FInv, NEW hosts \in SUBSET Host, Issue(hosts)
    PROVE  FInv'
<1>1. /\ pc = "issue" /\ pc' = "receipt" /\ onDisk' = {live} /\ live \in onDisk
      /\ registry' = Renewed(registry, hosts) /\ job' = [job EXCEPT !.signed = hosts]
      /\ UNCHANGED <<live, minted, archive, records, fleet, last, born, torn, stray>>
      /\ job \in Job /\ job.op = "sign" /\ job.new # NoCa /\ job.signed = {}
  BY DEF Issue, Step, history, IInv, Visible, Younger, TypeOK, Busy, FInv, AsFound
<1>2. /\ job'.new = job.new /\ job'.op = job.op /\ job'.seq = job.seq /\ job'.id = job.id
      /\ job'.signed = hosts
  BY <1>1 DEF Job
<1>3. /\ ~Halfway /\ ~Halfway' /\ ~Succeeded /\ Succeeded' /\ ~Rotating /\ ~Rotating'
      /\ ~Swapped /\ ~Swapped' /\ pc \in Busy /\ pc' \in Busy
  BY <1>1, <1>2 DEF Halfway, Swapped, Succeeded, Rotating, Busy
<1>4. Certificate' = Certificate /\ Certificate # NoCert
  BY <1>1, <1>2 DEF Certificate, NoCert
<1>5. \A h \in Host : registry'[h] = IF h \in hosts THEN Certificate ELSE registry[h]
  BY <1>1 DEF Renewed
<1>6. AsFound' /\ Covers' /\ Keyless' /\ PairInv'
  BY <1>1, <1>2, <1>3 DEF FInv, AsFound, Covers, Keyless, PairInv, Busy
<1>7. Registered'
  BY <1>1, <1>2, <1>3, <1>4, <1>5 DEF FInv, Registered
<1>8. FleetInv'
  <2>1. Settled' = Settled
    BY <1>1, <1>3 DEF Settled
  <2> QED BY <1>1, <2>1 DEF FInv, FleetInv
<1>9. TrustInv'
  BY <1>1, <1>3 DEF FInv, TrustInv
<1>10. BookInv'
  <2>1. Entered = {} /\ Entered' = hosts
    BY <1>1, <1>2, <1>4, <1>5 DEF Entered
  <2> QED BY <1>1, <1>2, <1>3, <1>5, <2>1 DEF FInv, BookInv
<1> QED BY <1>6, <1>7, <1>8, <1>9, <1>10 DEF FInv

\* The new CA is none the box has, so that nothing counts as swapped yet.
LEMMA MintFInv ==
    ASSUME IInv, FInv, NEW c \in Ca, Mint(c)
    PROVE  FInv'
<1>1. /\ pc = "mint" /\ pc' = (IF job.op = "rotate" THEN "sign" ELSE "prepare")
      /\ c \notin minted /\ minted' = minted \cup {c} /\ live \in onDisk /\ job \in Job
      /\ job' = [job EXCEPT !.new = c]
      /\ UNCHANGED <<live, onDisk, archive, registry, records, fleet, last, born, torn, stray>>
  BY DEF Mint, Step, books, history, IInv, Visible, TypeOK, Busy
<1>2. /\ job'.new = c /\ job'.op = job.op /\ job'.seq = job.seq /\ job'.old = job.old
      /\ job'.retired = job.retired /\ job'.block = job.block /\ job'.signed = job.signed
      /\ job.op \in {"bootstrap", "rotate"} /\ job.new = NoCa
      /\ job.signed = {} /\ Entered = {}
  <2>1. pc \in Busy /\ job.op # "sign"
    BY <1>1 DEF IInv, Younger, Busy
  <2>2. job.signed = {} /\ Entered = {}
    BY <1>1, <2>1 DEF FInv, AsFound, Registered, Entered
  <2>3. job.new = NoCa
    BY <1>1 DEF FInv, AsFound
  <2>4. job.op \in {"bootstrap", "rotate"}
    BY <1>1, <2>1 DEF Job
  <2> QED BY <1>1, <2>2, <2>3, <2>4 DEF Job
<1>3. live.crt # c /\ live.crt = job.old /\ c # NoCa
  BY <1>1 DEF FInv, AsFound
<1>4. ~Halfway /\ ~Halfway' /\ ~Swapped' /\ ~Succeeded /\ ~Succeeded' /\ (Rotating' <=> Rotating)
  BY <1>1, <1>2, <1>3 DEF Halfway, Swapped, Succeeded, Rotating, Busy
<1>5. AsFound'
  BY <1>1, <1>2, <1>3, <1>4 DEF FInv, AsFound, Busy
<1>6. Covers'
  BY <1>1, <1>2 DEF Covers, Rotating
<1>7. Keyless' /\ PairInv' /\ Registered'
  BY <1>1, <1>2 DEF FInv, Keyless, PairInv, Registered, Rotating, Busy
<1>8. FleetInv'
  <2>1. Settled' = Settled
    BY <1>1, <1>4 DEF Settled
  <2> QED BY <1>1, <2>1 DEF FInv, FleetInv
<1>9. TrustInv' /\ BookInv'
  BY <1>1, <1>2, <1>4 DEF FInv, TrustInv, BookInv
<1> QED BY <1>5, <1>6, <1>7, <1>8, <1>9 DEF FInv

\* The new pair is built beside the live one.
LEMMA BuildFInv ==
    ASSUME IInv, FInv, Sign \/ Prepare \/ ArchiveOld
    PROVE  FInv'
<1>1. /\ pc \in {"sign", "prepare", "archive"} /\ pc' \in {"archive", "swapCrt"}
      /\ UNCHANGED <<live, minted, records, fleet, last, born, torn, stray>>
      /\ onDisk' \in {onDisk, {live}} /\ live \in onDisk
      /\ pc = "sign" => pc' = "archive"
      /\ pc # "sign" => pc' = "swapCrt" /\ job' = job
      /\ pc # "prepare" => registry' = registry
      /\ pc = "prepare" => registry' = Unsigned
      /\ pc # "archive" => archive' = archive
      /\ pc = "archive" => archive' = [archive EXCEPT ![job.seq] = job.old]
      /\ pc = "sign" => job' = [job EXCEPT !.signed = Renewable]
  BY DEF Sign, Prepare, ArchiveOld, Step, files, books, history, IInv, Visible
<1>2. /\ job \in Job /\ archive \in [SeqNo -> MaybeCa] /\ fleet \in Certs
      /\ (pc = "prepare" <=> job.op = "bootstrap") /\ job.op \in {"bootstrap", "rotate"}
      /\ live.crt = job.old /\ job.new # job.old /\ live.key = job.retired /\ ~job.ok
      /\ job.seq > last /\ job.seq \in SeqNo
      /\ pc = "sign" \/ job.op = "bootstrap" => job.signed = {}
  BY <1>1 DEF IInv, TypeOK, Busy, FInv, AsFound, Younger, Job
<1>3. /\ job'.new = job.new /\ job'.id = job.id /\ job'.op = job.op /\ job'.seq = job.seq /\ job'.old = job.old
      /\ job'.retired = job.retired /\ job'.block = job.block /\ ~job'.ok
      /\ pc # "sign" => job'.signed = job.signed
      /\ pc = "sign" => job'.signed = Renewable
  BY <1>1, <1>2 DEF Job
<1>4. /\ ~Halfway /\ ~Halfway' /\ ~Swapped /\ ~Swapped' /\ ~Succeeded /\ ~Succeeded'
      /\ (Rotating <=> pc # "prepare") /\ (Rotating' <=> Rotating)
  BY <1>1, <1>2, <1>3 DEF Halfway, Swapped, Succeeded, Rotating, Busy
<1>5. AsFound'
  BY <1>1, <1>2, <1>3, <1>4 DEF FInv, AsFound, Busy
<1>6. Keyless' /\ PairInv'
  BY <1>1, <1>2, <1>3, <1>4 DEF FInv, Keyless, PairInv, Busy
<1>7. pc = "prepare" => \A h \in Host : fleet[h] = NoCert
  BY <1>2 DEF FInv, Keyless, Busy, Unsigned
<1>8. Registered'
  <2>1. job.new # NoCa
    BY <1>1 DEF IInv, TypeOK, Busy
  <2>2. \A h \in Host : fleet'[h] # NoCert => registry'[h] # NoCert /\ records'[h] # NoCert
    BY <1>1, <1>7 DEF FInv, Registered
  <2>3. CASE pc = "sign"
    BY <1>1, <1>3, <2>1, <2>2, <2>3 DEF Registered, Renewable
  <2>4. CASE pc = "archive"
    BY <1>1, <1>2, <1>3, <1>4, <2>1, <2>2, <2>4 DEF FInv, Registered, Busy
  <2>5. CASE pc = "prepare"
    BY <1>1, <1>2, <1>3, <2>2, <2>5 DEF FInv, Registered, AsFound, Busy
  <2> QED BY <1>1, <2>3, <2>4, <2>5
<1>9. Covers'
  <2>1. CASE pc = "sign"
    <3>1. \A h \in Host \ Skipped : fleet[h] # NoCert => h \in Renewable
      BY DEF FInv, Registered, Renewable
    <3> QED BY <1>1, <1>3, <2>1, <3>1 DEF Covers
  <2>2. CASE pc # "sign"
    BY <1>1, <1>3, <1>4, <2>2 DEF FInv, Covers, Busy
  <2> QED BY <2>1, <2>2
<1>10. FleetInv'
  <2>1. Settled' = Settled
    BY <1>1, <1>4 DEF Settled
  <2>2. \A s \in Settled : archive'[s] = archive[s]
    <3>1. \A s \in Settled : s <= last /\ s \in SeqNo
      BY <1>4 DEF Settled
    <3>2. \A s \in Settled : s # job.seq
      BY <1>1, <3>1, Numbers DEF Busy
    <3> QED BY <1>1, <1>2, <3>1, <3>2
  <2> QED BY <1>1, <2>1, <2>2 DEF FInv, FleetInv
<1>11. TrustInv'
  BY <1>1, <1>3, <1>4 DEF FInv, TrustInv
<1>12. BookInv'
  <2>1. CASE pc = "archive"
    BY <1>1, <1>2, <1>3, <1>4, <2>1, BooksKept DEF FInv, Busy
  <2>2. CASE pc = "prepare"
    BY <1>1, <1>4, <1>7, <2>2 DEF FInv, BookInv
  <2>3. CASE pc = "sign"
    <3>1. Entered = {}
      BY <1>2, <2>3 DEF Entered
    <3> QED BY <1>1, <1>3, <1>4, <2>3, <3>1 DEF FInv, BookInv
  <2> QED BY <1>1, <2>1, <2>2, <2>3
<1> QED BY <1>5, <1>6, <1>8, <1>9, <1>10, <1>11, <1>12 DEF FInv

\* The first rename: what the fleet needs is archived by then.
LEMMA SwapCrtFInv ==
    ASSUME IInv, FInv, SwapCrt
    PROVE  FInv'
<1>1. /\ pc = "swapCrt" /\ pc' = "swapKey" /\ live' = [live EXCEPT !.crt = job.new]
      /\ onDisk' = onDisk \cup {live'}
      /\ UNCHANGED <<minted, archive, registry, records, fleet, last, job, born, torn, stray>>
  BY DEF SwapCrt, Step, books, history
<1>2. /\ live'.crt = job.new /\ live'.key = live.key /\ live \in onDisk /\ job \in Job
      /\ job.new \in minted /\ job.new # NoCa /\ job.op \in {"bootstrap", "rotate"}
      /\ live.crt = job.old /\ job.new # job.old /\ live.key = job.retired /\ ~job.ok
      /\ job.op = "bootstrap" => live.key = NoCa
      /\ job.seq \in SeqNo
  BY <1>1 DEF IInv, TypeOK, Visible, Younger, Busy, Pair, FInv, AsFound, Job
<1>3. /\ ~Halfway /\ ~Swapped /\ ~Succeeded /\ ~Succeeded'
      /\ (Rotating <=> job.op = "rotate") /\ (Rotating' <=> Rotating)
      /\ (Halfway' <=> Rotating) /\ (Swapped' <=> Rotating)
  BY <1>1, <1>2 DEF Halfway, Swapped, Succeeded, Rotating, Busy
<1>4. AsFound'
  BY <1>1, <1>2, <1>3 DEF FInv, AsFound, Busy
<1>5. Keyless'
  <2>1. \A d \in onDisk' : d.key = NoCa => \E e \in onDisk : e.key = NoCa
    BY <1>1, <1>2
  <2> QED BY <1>1, <2>1 DEF FInv, Keyless, Busy
<1>6. PairInv'
  BY <1>1, <1>2, <1>3 DEF FInv, PairInv
<1>7. ~Rotating => \A h \in Host : fleet[h] = NoCert /\ fleet[h].ca = NoCa
  BY <1>1, <1>2, <1>3 DEF FInv, Keyless, Busy, Unsigned, NoCert
<1>8. Registered' /\ Covers'
  BY <1>1, <1>3 DEF FInv, Registered, Covers, Busy
<1>9. FleetInv'
  <2> SUFFICES ASSUME torn # "aborted", NEW d \in onDisk', NEW h \in Host
               PROVE  fleet[h].ca \in {NoCa, d.crt} \cup {archive[s] : s \in Settled'}
    BY <1>1 DEF FleetInv
  <2>1. Settled \subseteq Settled' /\ (Rotating => job.seq \in Settled')
    BY <1>1, <1>2, <1>3 DEF Settled
  <2>2. CASE d \in onDisk
    BY <2>1, <2>2 DEF FInv, FleetInv
  <2>3. CASE d = live'
    <3>1. CASE Rotating
      <4>1. fleet[h].ca \in {NoCa, live.crt} \cup {archive[s] : s \in Settled}
        BY <1>2 DEF FInv, FleetInv
      <4>2. archive[job.seq] = live.crt
        BY <1>1, <1>2, <3>1 DEF FInv, AsFound
      <4> QED BY <2>1, <3>1, <4>1, <4>2
    <3>2. CASE ~Rotating
      BY <1>7, <3>2
    <3> QED BY <3>1, <3>2
  <2> QED BY <1>1, <2>2, <2>3
<1>10. TrustInv'
  BY <1>1, <1>2, <1>3, <1>7 DEF FInv, TrustInv
<1>11. BookInv'
  BY <1>1, <1>3, BooksKept DEF FInv, Busy
<1> QED BY <1>4, <1>5, <1>6, <1>8, <1>9, <1>10, <1>11 DEF FInv

\* The second one.
LEMMA SwapKeyFInv ==
    ASSUME IInv, FInv, SwapKey
    PROVE  FInv'
<1>1. /\ pc = "swapKey" /\ pc' = "sync" /\ live' = [live EXCEPT !.key = job.new]
      /\ onDisk' = onDisk \cup {live'}
      /\ UNCHANGED <<minted, archive, registry, records, fleet, last, job, born, torn, stray>>
  BY DEF SwapKey, Step, books, history
<1>2. /\ live.crt = job.new /\ live'.crt = job.new /\ live'.key = job.new /\ live \in onDisk
      /\ job \in Job /\ job.new \in minted /\ job.new # NoCa /\ ~job.ok
      /\ job.op \in {"bootstrap", "rotate"}
  BY <1>1 DEF IInv, TypeOK, Visible, Younger, Swapping, Busy, Pair, Job
<1>3. /\ ~Succeeded /\ ~Succeeded'
      /\ (Rotating <=> job.op = "rotate") /\ (Rotating' <=> Rotating)
      /\ (Halfway' <=> Halfway) /\ (Swapped' <=> Swapped) /\ (Halfway <=> Rotating)
  BY <1>1, <1>2 DEF Halfway, Swapped, Succeeded, Rotating, Busy
<1>4. AsFound' /\ Keyless'
  BY <1>1, <1>2, <1>3 DEF FInv, AsFound, Keyless, Busy
<1>5. PairInv'
  BY <1>1, <1>2, <1>3 DEF FInv, PairInv
<1>6. Registered' /\ Covers'
  BY <1>1, <1>3 DEF FInv, Registered, Covers, Busy
<1>7. FleetInv'
  <2>1. Settled' = Settled
    BY <1>1, <1>3 DEF Settled
  <2> SUFFICES ASSUME torn # "aborted", NEW d \in onDisk', NEW h \in Host
               PROVE  fleet[h].ca \in {NoCa, d.crt} \cup {archive[s] : s \in Settled}
    BY <1>1, <2>1 DEF FleetInv
  <2>2. PICK e \in onDisk : e.crt = d.crt
    BY <1>1, <1>2
  <2>3. fleet[h].ca \in {NoCa, e.crt} \cup {archive[s] : s \in Settled}
    BY DEF FInv, FleetInv
  <2> QED BY <2>2, <2>3
<1>8. TrustInv'
  BY <1>1, <1>2, <1>3 DEF FInv, TrustInv
<1>9. BookInv'
  BY <1>1, <1>3, BooksKept DEF FInv, Busy
<1> QED BY <1>4, <1>5, <1>6, <1>7, <1>8, <1>9 DEF FInv

\* From the sync to the receipt.
LEMMA SettleFInv ==
    ASSUME IInv, FInv, Sync \/ Shred \/ Return
    PROVE  FInv'
<1>1. /\ pc \in {"sync", "shred", "receipt"} /\ pc' \in {"shred", "save", "receipt", "commit"}
      /\ UNCHANGED <<live, minted, archive, registry, records, fleet, last, torn, stray>>
      /\ onDisk' \in {onDisk, {live}} /\ live \in onDisk
      /\ pc = "sync" => onDisk' = {live} /\ job' = job
                        /\ pc' = IF job.op = "rotate" THEN "shred" ELSE "receipt"
      /\ pc = "shred" => pc' = "save" /\ job' = job
      /\ pc = "receipt" => pc' = "commit" /\ job' = [job EXCEPT !.ok = TRUE]
  BY DEF Sync, Shred, Return, Step, files, books, history, IInv, Visible
<1>2. /\ job \in Job /\ ~job.ok /\ live.crt = job.new /\ live.key = job.new /\ job.new # NoCa
      /\ job.op \in {"bootstrap", "rotate", "sign"} /\ (pc = "shred" => job.op = "rotate")
      /\ (pc = "sync" => job.op # "sign")
  BY <1>1 DEF IInv, TypeOK, Younger, Swapping, Succeeded, Visible, NewPair, Busy, FInv, AsFound, Job
<1>3. /\ job'.new = job.new /\ job'.op = job.op /\ job'.seq = job.seq /\ job'.old = job.old
      /\ job'.retired = job.retired /\ job'.block = job.block /\ job'.signed = job.signed
      /\ job'.id = job.id /\ (pc = "receipt" => job'.ok)
  BY <1>1, <1>2 DEF Job
<1>4. /\ (Rotating <=> job.op = "rotate") /\ (Rotating' <=> Rotating)
      /\ (Halfway' <=> Halfway) /\ (Swapped' <=> Swapped) /\ (Halfway <=> Rotating)
      /\ (Succeeded <=> pc = "receipt")
      /\ (Succeeded' <=> pc' \in {"receipt", "commit"})
  BY <1>1, <1>2, <1>3 DEF Halfway, Swapped, Succeeded, Rotating, Busy
<1>5. AsFound' /\ Keyless' /\ PairInv'
  BY <1>1, <1>2, <1>3, <1>4 DEF FInv, AsFound, Keyless, PairInv, Busy
<1>6. Registered' /\ Covers'
  <2>1. Registered'
    BY <1>1, <1>2, <1>3, <1>4 DEF FInv, Registered, Busy
  <2>2. Covers'
    BY <1>1, <1>3, <1>4 DEF FInv, Covers, Busy
  <2> QED BY <2>1, <2>2
<1>7. FleetInv'
  <2>1. Settled' = Settled
    BY <1>1, <1>3, <1>4 DEF Settled
  <2> QED BY <1>1, <2>1 DEF FInv, FleetInv
<1>8. TrustInv'
  BY <1>1, <1>2, <1>3, <1>4 DEF FInv, TrustInv
<1>9. BookInv'
  <2>1. CASE pc # "sync" \/ Rotating
    BY <1>1, <1>3, <1>4, <2>1, BooksKept DEF FInv, Busy
  <2>2. CASE pc = "sync" /\ ~Rotating
    <3>1. job.signed = {} /\ job'.signed = {} /\ Entered = {}
      BY <1>1, <1>2, <1>3, <1>4, <2>2 DEF FInv, AsFound, Busy, Entered
    <3> QED BY <1>1, <1>3, <1>4, <2>2, <3>1 DEF FInv, BookInv
  <2> QED BY <2>1, <2>2
<1> QED BY <1>5, <1>6, <1>7, <1>8, <1>9 DEF FInv

\* The registry's update.
LEMMA SaveFInv ==
    ASSUME IInv, FInv, Save
    PROVE  FInv'
<1>1. /\ pc = "save" /\ pc' = "receipt" /\ registry' = Renewed(registry, job.signed)
      /\ UNCHANGED <<live, onDisk, minted, archive, records, fleet, last, job, born, torn, stray>>
  BY DEF Save, Step, files, history
<1>2. /\ job \in Job /\ job.new # NoCa /\ job.op = "rotate" /\ live \in onDisk /\ live.crt = job.new
  BY <1>1 DEF IInv, TypeOK, Swapping, Visible, NewPair, Busy, FInv, AsFound
<1>3. /\ Rotating /\ Rotating' /\ Halfway /\ Halfway' /\ Swapped /\ Swapped'
      /\ ~Succeeded /\ Succeeded'
  BY <1>1, <1>2 DEF Halfway, Swapped, Succeeded, Rotating, Busy
<1>4. /\ Certificate' = Certificate /\ Certificate # NoCert
      /\ \A h \in Host : registry'[h] = IF h \in job.signed THEN Certificate ELSE registry[h]
  BY <1>1, <1>2 DEF Renewed, Certificate, NoCert
<1>5. AsFound' /\ Keyless' /\ PairInv'
  BY <1>1, <1>2, <1>3 DEF FInv, AsFound, Keyless, PairInv, Busy
<1>6. Registered' /\ Covers'
  <2>1. Registered'
    <3>1. job.signed \subseteq Host
      BY <1>2 DEF Job
    <3> QED BY <1>1, <1>2, <1>4, <3>1 DEF FInv, Registered, Busy
  <2>2. Covers'
    BY <1>1, <1>3 DEF FInv, Covers, Busy
  <2> QED BY <2>1, <2>2
<1>7. FleetInv'
  <2>1. Settled' = Settled
    BY <1>1, <1>3 DEF Settled
  <2> QED BY <1>1, <2>1 DEF FInv, FleetInv
<1>8. TrustInv'
  BY <1>1, <1>3 DEF FInv, TrustInv
<1>9. BookInv'
  <2>1. job.signed \subseteq Host
    BY <1>2 DEF Job
  <2>2. Entered' = job.signed
    BY <1>1, <1>4, <2>1 DEF Entered
  <2>3. \A h \in Host \ job.signed : h \notin Entered /\ registry'[h] = registry[h]
    BY <1>4 DEF Entered
  <2> QED BY <1>1, <1>3, <2>1, <2>2, <2>3 DEF FInv, BookInv, Busy
<1> QED BY <1>5, <1>6, <1>7, <1>8, <1>9 DEF FInv

\* A handler that fails or is killed leaves everything as it is; once it has
\* renamed something, that is remembered in torn.
LEMMA FailFInv ==
    ASSUME IInv, FInv, SignFails \/ RotateFails \/ MintFails \/ BootstrapFails \/ Timeout
    PROVE  FInv'
<1>1. /\ pc \in Busy \ {"commit"} /\ pc' \in {"commit", "undoCrt"}
      /\ UNCHANGED <<live, onDisk, minted, archive, registry, records, fleet, last, stray>>
      /\ live \in onDisk
      /\ pc' = "undoCrt" => job.op = "bootstrap" /\ job' = job /\ torn' = torn
      /\ torn' \in {"no", "failed", "aborted"} /\ (torn' = "no" => torn = "no")
      /\ torn = "aborted" => torn' = "aborted"
      /\ Swapped => torn' # "no"
  BY DEF SignFails, RotateFails, MintFails, BootstrapFails, Timeout, Step, Fails, files, books,
         history, IInv, Visible, TypeOK, Busy, Swapped
<1>2. /\ job \in Job /\ ~job.ok /\ job.op \in {"bootstrap", "rotate", "sign"}
  BY <1>1 DEF IInv, TypeOK, Younger, Busy, Job
<1>12. \/ job' = job
       \/ /\ pc = "sign" /\ job.op = "rotate"
          /\ \E some \in SUBSET Renewable : job' = [job EXCEPT !.signed = some]
       \/ /\ pc = "issue" /\ job.op = "sign"
          /\ \E some \in SUBSET Host : job' = [job EXCEPT !.signed = some]
  <2>1. (pc = "sign" => job.op = "rotate") /\ (pc = "issue" => job.op = "sign")
    BY DEF IInv, Younger, FInv, AsFound
  <2>2. job' = job \/ \E some \in SoFar : job' = [job EXCEPT !.signed = some]
    BY DEF SignFails, RotateFails, MintFails, BootstrapFails, Timeout, EndsWith
  <2>3. [job EXCEPT !.signed = job.signed] = job
    BY <1>2 DEF Job
  <2> QED BY <2>1, <2>2, <2>3 DEF SoFar
<1>3. /\ job'.id = job.id /\ job'.new = job.new /\ job'.op = job.op /\ job'.seq = job.seq /\ job'.old = job.old
      /\ job'.retired = job.retired /\ job'.block = job.block /\ job'.ok = job.ok
      /\ job.op = "bootstrap" => job'.signed = job.signed
  BY <1>2, <1>12 DEF Job
<1>4. /\ ~Succeeded' /\ (Rotating' <=> Rotating) /\ (Halfway' <=> Halfway)
      /\ (Swapped' <=> Swapped) /\ (Rotating <=> job.op = "rotate")
      /\ (Halfway <=> Swapped)
  BY <1>1, <1>2, <1>3 DEF Halfway, Swapped, Succeeded, Rotating, Busy
<1>5. AsFound'
  BY <1>1, <1>2, <1>3, <1>4 DEF FInv, AsFound, Busy
<1>6. Keyless' /\ Registered' /\ Covers'
  <2>1. pc \in {"sign", "issue"} => job.new # NoCa
    BY DEF IInv, TypeOK, Younger, Busy
  <2>2. \/ job'.signed = job.signed
        \/ pc = "sign" /\ job'.signed \subseteq Renewable
        \/ pc = "issue" /\ job.op = "sign"
    BY <1>2, <1>12 DEF Job
  <2>3. \A h \in job'.signed : job.new # NoCa /\ (registry[h] # NoCert \/ job.op = "sign")
    BY <1>1, <2>1, <2>2 DEF FInv, Registered, Renewable
  <2>4. Registered'
    BY <1>1, <1>3, <1>4, <2>3 DEF FInv, Registered
  <2>5. Keyless' /\ Covers'
    BY <1>1, <1>2, <1>3, <1>4 DEF FInv, Keyless, Covers, Busy
  <2> QED BY <2>4, <2>5
<1>7. PairInv'
  <2>1. Rotating /\ pc \in {"swapKey", "sync"} => Swapped
    BY <1>2 DEF IInv, Swapping, NewPair, TypeOK, Swapped, Rotating, Busy
  <2> QED BY <1>1, <1>4, <2>1 DEF FInv, PairInv
<1>8. FleetInv'
  <2>1. Settled' = Settled
    BY <1>1, <1>3, <1>4 DEF Settled
  <2> QED BY <1>1, <2>1 DEF FInv, FleetInv
<1>9. TrustInv'
  BY <1>1, <1>2, <1>3, <1>4 DEF FInv, TrustInv
<1>10. BookInv'
  <2>1. CASE job' = job
    BY <1>1, <1>4, <2>1, BooksKept DEF FInv, Busy
  <2>2. CASE job' # job
    <3>1. Entered = {}
      BY <1>12, <2>2 DEF FInv, AsFound, Entered
    <3> QED BY <1>1, <1>3, <1>4, <3>1 DEF FInv, BookInv
  <2> QED BY <2>1, <2>2
<1> QED BY <1>5, <1>6, <1>7, <1>8, <1>9, <1>10 DEF FInv

\* A bootstrap is undone: the fleet never depended on what it removes.
LEMMA UndoFInv ==
    ASSUME IInv, FInv, UndoCrt \/ UndoKey
    PROVE  FInv'
<1>1. /\ pc \in {"undoCrt", "undoKey"} /\ pc' \in {"undoKey", "commit"} /\ job' = job
      /\ UNCHANGED <<minted, archive, registry, records, fleet, last, stray>>
      /\ onDisk' = onDisk \cup {live'} /\ live \in onDisk
      /\ live' \in {[live EXCEPT !.crt = NoCa], [live EXCEPT !.key = NoCa]}
      /\ pc = "undoCrt" =>
            /\ live' = [live EXCEPT !.crt = NoCa]
            /\ torn' = IF \E d \in onDisk : d.key # NoCa THEN "aborted" ELSE torn
      /\ pc = "undoKey" => live' = [live EXCEPT !.key = NoCa] /\ torn' = torn
  BY DEF UndoCrt, UndoKey, Step, books, history, IInv, Visible
<1>2. /\ job \in Job /\ ~job.ok /\ job.op = "bootstrap" /\ job.signed = {}
      /\ live.crt \in minted \cup {NoCa} /\ live \in Pair
  BY <1>1 DEF IInv, TypeOK, Younger, Busy, FInv, AsFound
<1>3. /\ live'.crt \in {live.crt, NoCa} /\ live'.key \in {live.key, NoCa}
      /\ pc = "undoCrt" => live'.key = live.key
      /\ pc = "undoKey" => live'.key = NoCa
  BY <1>1, <1>2 DEF Pair
<1>4. /\ ~Succeeded /\ ~Succeeded' /\ ~Rotating /\ ~Rotating' /\ ~Halfway /\ ~Halfway'
      /\ ~Swapped'
  BY <1>1, <1>2 DEF Halfway, Swapped, Succeeded, Rotating, Busy
<1>5. fleet = Unsigned /\ \A h \in Host : fleet[h] = NoCert /\ fleet[h].ca = NoCa
  BY <1>1, <1>2 DEF FInv, Keyless, Busy, Unsigned, NoCert
<1>6. AsFound'
  BY <1>1, <1>2, <1>3, <1>4 DEF FInv, AsFound, Busy
<1>7. Keyless' /\ Registered' /\ Covers'
  BY <1>1, <1>2, <1>4, <1>5 DEF Keyless, Registered, Covers
<1>8. PairInv'
  BY <1>1, <1>3, <1>4 DEF FInv, PairInv
<1>9. FleetInv' /\ TrustInv'
  BY <1>1, <1>4, <1>5 DEF FleetInv, TrustInv
<1>10. BookInv'
  BY <1>1, <1>4, BooksKept DEF FInv, Busy
<1> QED BY <1>6, <1>7, <1>8, <1>9, <1>10 DEF FInv

\* The end of a job without a result, and power cuts: once the job has renamed
\* something, that is remembered in torn.
LEMMA LoseFInv ==
    ASSUME IInv, FInv, CommitEmpty \/ Abort \/ PowerCut
    PROVE  FInv'
<1>1. /\ pc' \in {"idle", "off"} /\ onDisk' \subseteq onDisk
      /\ UNCHANGED <<minted, archive, registry, records, fleet>>
      /\ last' = last \/ (pc = "commit" /\ last' = job.seq)
      /\ torn' = "no" => torn = "no" /\ ~Halfway
      /\ torn' # "aborted" => torn # "aborted" /\ (Halfway => pc = "commit" /\ last' = job.seq)
  BY DEF CommitEmpty, Abort, PowerCut, Step, Fails, Aborts, Halfway, files, books, history,
         IInv, Visible, Busy
<1>2. /\ ~Succeeded' /\ ~Rotating' /\ ~Halfway' /\ pc' \notin Busy
  BY <1>1 DEF Halfway, Succeeded, Rotating, Busy
<1>3. AsFound' /\ Registered' /\ Covers'
  BY <1>1, <1>2 DEF FInv, AsFound, Registered, Covers, Busy
<1>4. Keyless'
  BY <1>1, <1>2 DEF FInv, Keyless
<1>5. PairInv'
  <2>1. Rotating /\ pc \in {"swapKey", "sync"} => Halfway
    BY DEF IInv, Swapping, NewPair, TypeOK, Swapped, Halfway, Rotating, Busy
  <2> QED BY <1>1, <2>1 DEF FInv, PairInv
<1>6. FleetInv'
  <2>1. torn' # "aborted" => Settled \subseteq Settled'
    <3>1. CASE last' = last /\ ~Halfway
      BY <1>1, <3>1 DEF Settled
    <3>2. CASE pc = "commit" /\ last' = job.seq
      BY <3>2, SettledGrows DEF Busy
    <3> QED BY <1>1, <3>1, <3>2
  <2> QED BY <1>1, <2>1 DEF FInv, FleetInv
<1>7. TrustInv'
  BY <1>1, <1>2 DEF FInv, TrustInv, Busy
<1>8. BookInv'
  <2>1. stray \in [registry : SUBSET Host, records : SUBSET Host]
    BY DEF IInv, TypeOK
  <2>2. Leaves
    BY DEF CommitEmpty, Abort, PowerCut
  <2>3. /\ stray'.records = stray.records
        /\ stray'.registry = stray.registry \cup (IF pc \in Busy THEN Entered ELSE {})
    BY <2>1, <2>2 DEF Leaves
  <2> QED BY <1>1, <1>2, <2>3 DEF FInv, BookInv
<1> QED BY <1>3, <1>4, <1>5, <1>6, <1>7, <1>8 DEF FInv

\* A job is committed: the certificates of a successful rotation are the new CA's,
\* and the receipt means that it is the only one on the box.
LEMMA CommitFInv ==
    ASSUME IInv, FInv, Commit
    PROVE  FInv'
<1>1. /\ pc = "commit" /\ pc' = "idle" /\ last' = job.seq
      /\ UNCHANGED <<live, onDisk, minted, archive, registry, torn>>
      /\ stray'.registry = (IF job.ok THEN stray.registry \ job.signed
                             ELSE stray.registry \cup Entered)
      /\ stray'.records = (IF job.ok THEN stray.records \ job.signed
                            ELSE stray.records \cup job.signed)
      /\ \A h \in Host : records'[h] = IF h \in job.signed THEN Certificate ELSE records[h]
      /\ \A h \in Host :
            fleet'[h] = IF job.ok /\ h \in job.signed THEN Certificate ELSE fleet[h]
      /\ Certificate.ca = job.new /\ (job.new # NoCa => Certificate # NoCert)
  BY DEF Commit, Step, files, Renewed, Certificate, NoCert
<1>2. /\ ~Succeeded' /\ ~Rotating' /\ ~Halfway' /\ pc' \notin Busy /\ pc \in Busy
      /\ (Succeeded <=> job.ok)
  BY <1>1 DEF Halfway, Succeeded, Rotating, Busy
<1>3. job \in Job /\ job.op \in {"bootstrap", "rotate", "sign"}
  BY <1>2 DEF IInv, TypeOK, Job
<1>4. job.ok => /\ onDisk = {NewPair} /\ job.new # NoCa
                /\ \A d \in onDisk : d.crt = job.new /\ d.key = job.new
  BY <1>2 DEF IInv, Swapping, NewPair
<1>5. /\ job.op = "bootstrap" => job.signed = {}
      /\ \A h \in job.signed : job.new # NoCa /\ (job.ok => registry[h] # NoCert)
  BY <1>2 DEF FInv, AsFound, Registered
<1>6. AsFound' /\ Covers'
  BY <1>1, <1>2 DEF FInv, AsFound, Covers, Busy
<1>7. Registered'
  BY <1>1, <1>2, <1>5 DEF FInv, Registered
<1>8. Keyless'
  <2> SUFFICES ASSUME NEW d \in onDisk, d.key = NoCa PROVE fleet' = Unsigned
    BY <1>1, <1>2 DEF Keyless
  <2>1. ~job.ok /\ fleet = Unsigned
    BY <1>4 DEF FInv, Keyless
  <2> QED BY <2>1 DEF Commit
<1>9. PairInv'
  BY <1>1, <1>2 DEF FInv, PairInv
<1>10. FleetInv'
  <2> SUFFICES ASSUME torn # "aborted", NEW d \in onDisk, NEW h \in Host
               PROVE  fleet'[h].ca \in {NoCa, d.crt} \cup {archive[s] : s \in Settled'}
    BY <1>1 DEF FleetInv
  <2>1. Settled \subseteq Settled'
    BY <1>1, <1>2, SettledGrows
  <2>2. CASE job.ok /\ h \in job.signed
    BY <1>1, <1>4, <2>2
  <2>3. CASE ~(job.ok /\ h \in job.signed)
    BY <1>1, <2>1, <2>3 DEF FInv, FleetInv
  <2> QED BY <2>2, <2>3
<1>11. TrustInv'
  <2> SUFFICES ASSUME torn = "no", NEW d \in onDisk, NEW h \in Host \ Skipped
               PROVE  fleet'[h].ca \in {NoCa, d.crt}
    BY <1>1, <1>2 DEF TrustInv, Busy
  <2>1. CASE job.ok /\ job.op = "rotate"
    <3>1. fleet[h] # NoCert => h \in job.signed
      BY <1>1, <1>2, <2>1 DEF FInv, Covers, Rotating
    <3> QED BY <1>1, <1>4, <2>1, <3>1 DEF NoCert
  <2>2. CASE ~job.ok \/ job.op = "bootstrap"
    <3>1. fleet'[h] = fleet[h]
      BY <1>1, <1>5, <2>2
    <3>2. ~Halfway
      BY <1>1, <2>2 DEF FInv, TrustInv, Halfway, Swapped
    <3> QED BY <3>1, <3>2 DEF FInv, TrustInv
  <2>3. CASE job.ok /\ job.op = "sign"
    <3>1. ~Halfway
      BY <2>3 DEF Halfway, Swapped
    <3> QED BY <1>1, <1>4, <2>3, <3>1 DEF FInv, TrustInv
  <2> QED BY <1>3, <2>1, <2>2, <2>3
<1>12. BookInv'
  <2>1. \A h \in job.signed : job.ok => h \in Entered /\ registry[h] = Certificate
    BY <1>2 DEF FInv, BookInv, Entered
  <2>2. Entered \subseteq job.signed
    BY DEF Entered
  <2>3. \A h \in Host \ stray'.records : fleet'[h] \in {NoCert, records'[h]}
    BY <1>1 DEF FInv, BookInv
  <2>4. \A h \in Host \ stray'.registry : fleet'[h] \in {NoCert, registry[h]}
    <3>1. CASE job.ok
      BY <1>1, <2>1, <2>2, <3>1 DEF FInv, BookInv
    <3>2. CASE ~job.ok
      BY <1>1, <3>2 DEF FInv, BookInv
    <3> QED BY <3>1, <3>2
  <2> QED BY <1>1, <1>2, <2>3, <2>4 DEF BookInv
<1> QED BY <1>6, <1>7, <1>8, <1>9, <1>10, <1>11, <1>12 DEF FInv

\* registry.json is rebuilt, or it is not: either way it has the fleet's.
LEMMA BootFInv ==
    ASSUME IInv, FInv, Boot
    PROVE  FInv'
<1>1. /\ pc = "off" /\ pc' = "idle" /\ registry' \in {records, registry}
      /\ UNCHANGED <<files, records, fleet, last, job, born, torn>>
  BY DEF Boot, Step
<1>2. /\ ~Succeeded /\ ~Succeeded' /\ ~Rotating /\ ~Rotating' /\ ~Halfway /\ ~Halfway'
      /\ pc \notin Busy /\ pc' \notin Busy
  BY <1>1 DEF Halfway, Succeeded, Rotating, Busy
<1>3. AsFound' /\ Covers' /\ Keyless' /\ PairInv'
  BY <1>1, <1>2 DEF FInv, AsFound, Covers, Keyless, PairInv, files, Busy
<1>4. Registered'
  BY <1>1, <1>2 DEF FInv, Registered
<1>5. FleetInv'
  <2>1. Settled' = Settled
    BY <1>1, <1>2 DEF Settled
  <2> QED BY <1>1, <2>1 DEF FInv, FleetInv, files
<1>6. TrustInv'
  BY <1>1, <1>2 DEF FInv, TrustInv, files, Busy
<1>7. BookInv'
  <2>1. stray \in [registry : SUBSET Host, records : SUBSET Host]
    BY DEF IInv, TypeOK
  <2>2. CASE registry' = records /\ stray' = [stray EXCEPT !.registry = stray.records]
    BY <1>1, <1>2, <2>1, <2>2 DEF FInv, BookInv
  <2>3. CASE UNCHANGED <<registry, stray>>
    BY <1>1, <1>2, <2>3 DEF FInv, BookInv
  <2> QED BY <2>2, <2>3 DEF Boot
<1> QED BY <1>3, <1>4, <1>5, <1>6, <1>7 DEF FInv

\* Steps that change nothing.
LEMMA StutterFInv == ASSUME FInv, UNCHANGED vars PROVE FInv'
<1>1. /\ (Rotating' <=> Rotating) /\ (Halfway' <=> Halfway) /\ (Succeeded' <=> Succeeded)
      /\ (Swapped' <=> Swapped) /\ Settled' = Settled /\ Entered' = Entered
  BY DEF vars, Rotating, Halfway, Swapped, Succeeded, Settled, Entered, Certificate
<1> QED BY <1>1 DEF FInv, AsFound, Keyless, PairInv, FleetInv, TrustInv, Registered, Covers,
                    BookInv, vars

\* Every step keeps the fleet's invariant.
LEMMA StepFInv == IInv /\ FInv /\ [Next]_vars => FInv'
<1> SUFFICES ASSUME IInv, FInv, [Next]_vars PROVE FInv'
  OBVIOUS
<1>1. CASE \E s \in SeqNo : Bootstrap(s) \/ Rotate(s) \/ Refuse(s)
  BY <1>1, BeginFInv, RefuseFInv
<1>2. CASE \/ \E s \in SeqNo, i \in Id : SignHosts(s, i)
           \/ \E hosts \in SUBSET Host \ {{}} : Issue(hosts)
  BY <1>2, SignHostsFInv, IssueFInv
<1>3. CASE \E c \in Ca : Mint(c)
  BY <1>3, MintFInv
<1>4. CASE Sign \/ Prepare \/ ArchiveOld
  BY <1>4, BuildFInv
<1>5. CASE SwapCrt \/ SwapKey
  BY <1>5, SwapCrtFInv, SwapKeyFInv
<1>6. CASE Sync \/ Shred \/ Save \/ Return
  BY <1>6, SettleFInv, SaveFInv
<1>7. CASE SignFails \/ RotateFails \/ MintFails \/ BootstrapFails \/ Timeout
  BY <1>7, FailFInv
<1>8. CASE UndoCrt \/ UndoKey
  BY <1>8, UndoFInv
<1>9. CASE Commit \/ CommitEmpty \/ Abort \/ PowerCut \/ Boot
  BY <1>9, CommitFInv, LoseFInv, BootFInv
<1>10. CASE UNCHANGED vars
  BY <1>10, StutterFInv
<1> QED
  BY <1>1, <1>2, <1>3, <1>4, <1>5, <1>6, <1>7, <1>8, <1>9, <1>10 DEF Next

\* The fleet's invariant holds in every reachable state.
THEOREM FleetInvariance == Spec => [](IInv /\ FInv)
BY InitIInv, StepIInv, InitFInv, StepFInv, PTL DEF Spec

\* Between jobs ca.key belongs to ca.crt in every pair a power cut can leave, unless
\* a rotation ended between its renames or a bootstrap was undone after its own.
THEOREM PairMatchesHolds == Spec => []PairMatches
<1>1. FInv => PairMatches
  BY DEF FInv, PairInv, PairMatches, Rotating, Busy
<1> QED BY <1>1, FleetInvariance, PTL

\* The certificate of every CA a host depends on is ca.crt or in the archive, unless
\* a rotation was lost between its renames and may come again.
THEOREM FleetCaKeptHolds == Spec => []FleetCaKept
<1>1. IInv /\ FInv => FleetCaKept
  BY DEF IInv, Visible, FInv, FleetInv, FleetCaKept, Settled
<1> QED BY <1>1, FleetInvariance, PTL

\* Hosts that install the bundle of a successful rotation trust those that have not
\* installed their new certificates yet, unless a rotation ended halfway.
THEOREM BundleTrustsFleetHolds == Spec => []BundleTrustsFleet
<1>1. FInv => BundleTrustsFleet
  BY DEF FInv, TrustInv, BundleTrustsFleet, TransitionTrusts, Published, Bundle, Rotating, Busy
<1> QED BY <1>1, FleetInvariance, PTL

\* The block list of a successful rotation has the certificate that each host uses,
\* but for hosts whose entry in registry.json comes from a job that was lost or failed.
THEOREM BlocklistCoversHolds == Spec => []BlocklistCovers
<1>1. FInv => BlocklistCovers
  BY DEF FInv, BookInv, BlocklistCovers, Published, Rotating, Busy
<1> QED BY <1>1, FleetInvariance, PTL
==============================================================================
