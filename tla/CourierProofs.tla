---------------------------- MODULE CourierProofs ----------------------------
(***************************************************************************)
(* Proofs about Courier, for any sticks, processes, jobs and numbers.      *)
(*                                                                         *)
(* A step is a process's (Acts) or the operator's and the box's with one   *)
(* stick (Handles).  Behind .caj.lock a process relies on what it has      *)
(* read: nobody else changes the counters or an inbox then (Undisturbed,   *)
(* WorkInv, WriteInv).  What is on the sticks is ordered by the sequence   *)
(* numbers, of which Top is the highest given out: one bundle has each     *)
(* (OneBundle, GivenOut), the box has committed none above it (LedgerInv,  *)
(* CountersInv), and a bundle refused for want of its co-signature was     *)
(* whole when it was refused, so nothing adds one (Cosignless).            *)
(***************************************************************************)
EXTENDS Courier, TLAPS

\* The highest sequence number given out.
Top == Larger(lastSeq, lastBuilt)
File == {"tar", "bg", "sig"}
Writing(p) == pc[p] \in File

\* What last-seq may say.
Confirmed(n) ==
    n # 0 => \E j \in Job : /\ ledger[j] # Nothing /\ ledger[j].seq = n
                            /\ ledger[j].status = "ok" => ledger[j] \in placed

\* r is the box's result of its job.
Genuine(r) == r \in Result /\ ledger[r.job] = r

\* What a process has found out under the lock is still so.
WorkInv(p) ==
    /\ pc[p] = "reserve" => work[p].seq = NextSeq /\ work[p].seq \in SeqNo
    /\ Writing(p) => work[p].seq \in SeqNo /\ work[p].seq <= Top
    /\ pc[p] = "outputs" => at[work[p].stick] = "mac" /\ outbox[work[p].stick].whole
    /\ pc[p] \in {"outputs", "merge"} => Genuine(work[p].result)
    /\ pc[p] = "merge" /\ work[p].result.status = "ok" => work[p].result \in placed
    /\ pc[p] = "report" => work[p].error # Nothing
    /\ pc[p] = "record" =>
         /\ work[p].new >= lastSeq /\ work[p].new <= Top
         /\ Confirmed(work[p].new)

\* A sequence number is given to one bundle, for one stick.
OneBundle ==
    \A s, t \in Stick : \A f, g \in File :
        inbox[s][f] # Nothing /\ inbox[t][g] # Nothing /\ inbox[s][f].seq = inbox[t][g].seq
            => s = t /\ inbox[s][f] = inbox[t][g]
GivenOut == \A s \in Stick : \A f \in File : inbox[s][f] # Nothing => inbox[s][f].seq <= Top

\* While a bundle is written, it is on its stick only, as far as it has got, and
\* it is not signed; the box has not had it.
WriteInv(p) ==
    Writing(p) =>
    /\ \A s \in Stick : \A f \in File :
         inbox[s][f] # Nothing /\ inbox[s][f].seq = work[p].seq =>
            s = work[p].stick /\ inbox[s][f] = Made(p) /\ f # "sig" /\ pc[p] # "tar"
    /\ pc[p] # "tar" => inbox[work[p].stick].tar = Made(p)
    /\ pc[p] = "sig" /\ work[p].bg => inbox[work[p].stick].bg = Made(p)
    /\ \A j \in Job : ledger[j] # Nothing => ledger[j].seq # work[p].seq

\* The box's results.
LedgerInv ==
    \A j \in Job : ledger[j] # Nothing =>
        /\ ledger[j].job = j /\ ledger[j].seq <= high /\ j \notin Unfit
        /\ \A s \in Stick : \A f \in File :
             inbox[s][f] # Nothing /\ inbox[s][f].seq = ledger[j].seq => inbox[s][f].job = j
LatestInv == \A s \in Stick : outbox[s].latest # Nothing => Genuine(outbox[s].latest)

\* A bundle that was refused for want of the co-signature never gets one.
Cosignless(b) ==
    /\ b.job \in Privileged /\ b.seq <= Top
    /\ \A s \in Stick : /\ inbox[s].bg # b
                        /\ \A f \in File : inbox[s][f] # Nothing /\ inbox[s][f].seq = b.seq
                             => inbox[s][f] = b
    /\ \A p \in Proc : Writing(p) => work[p].seq # b.seq
    /\ LET r == ledger[b.job] IN r # Nothing /\ r.seq = b.seq => r.status = "failed"

\* The bundle's own reasons stay.
CrumbInv(c) ==
    c # Nothing => /\ c.reason = "unfit" => c.of.job \in Unfit
                   /\ c.reason = "cosign_failed" => Cosignless(c.of)

WorksInv == \A p \in Proc : WorkInv(p)
WritesInv == \A p \in Proc : WriteInv(p)
CrumbsInv == /\ \A s \in Stick : CrumbInv(outbox[s].error)
             /\ \A p \in Proc : pc[p] \in Receiving => CrumbInv(work[p].error)
CountersInv == high <= Top /\ Confirmed(lastSeq)

\* What TypeOK leaves open of a process that is idle.
WorkTyped == work \in [Proc -> Build \cup Receive \cup {Nothing}]

IInv == /\ TypeOK /\ WorkTyped /\ WorksInv /\ WritesInv
        /\ OneBundle /\ GivenOut /\ SignatureLast
        /\ LedgerInv /\ LatestInv /\ CrumbsInv /\ CountersInv

-----------------------------------------------------------------------------
(* The steps.                                                              *)

\* A step of a process ...
Acts(p) ==
    \/ TakeLock(p) \/ TakeNext(p) \/ Reserve(p) \/ Place(p)
    \/ ReadError(p) \/ Report(p) \/ ReadLatest(p) \/ PlaceOutputs(p) \/ Merge(p)
    \/ Record(p) \/ Fail(p)
    \/ \E s \in Stick : StartReceive(p, s) \/ \E w \in Wanted : StartBuild(p, s, w)
\* ... and one of the operator or the box with a stick.
Handles(s) == Carry(s) \/ BoxRefuses(s) \/ BoxRuns(s) \/ BoxReplays(s)

Typed == TypeOK /\ WorkTyped

\* The part of it that is about processes.
ProcsTyped ==
    /\ lock \in Proc \cup {Nothing}
    /\ pc \in [Proc -> {"idle"} \cup Building \cup Receiving] /\ WorkTyped
    /\ \A p \in Proc :
         /\ pc[p] \in Building => work[p] \in Build
         /\ pc[p] \in Receiving => work[p] \in Receive
         /\ pc[p] \notin {"idle", "receive"} <=> lock = p

\* Numbers.
LEMMA SeqNoNat == SeqNo \subseteq Nat /\ \A n \in SeqNo : n # 0
  BY SeqNoAssumption

\* _next_seq() is one more than the highest number given out.
LEMMA TopNat ==
  ASSUME TypeOK
  PROVE  /\ Top \in SeqNo \cup {0} /\ Top \in Nat /\ NextSeq = Top + 1
         /\ lastSeq \in Nat /\ lastBuilt \in Nat /\ high \in Nat
         /\ Top >= lastSeq /\ Top >= lastBuilt
  <1>1. lastSeq \in SeqNo \cup {0} /\ lastBuilt \in SeqNo \cup {0} /\ high \in SeqNo \cup {0}
    BY DEF TypeOK
  <1>2. lastSeq \in Nat /\ lastBuilt \in Nat /\ high \in Nat
    BY <1>1, SeqNoNat
  <1> QED  BY <1>1, <1>2 DEF Top, Larger, NextSeq

\* Only one process is past the lock.
LEMMA OnePastLock ==
  ASSUME TypeOK, NEW p \in Proc, NEW q \in Proc, p # q,
         pc[p] \notin {"idle", "receive"}
  PROVE  pc[q] \in {"idle", "receive"}
  BY DEF TypeOK

\* A process leaves the others, the outboxes and the box as they are.
LEMMA OthersKeep ==
  ASSUME Typed, NEW p \in Proc, Acts(p)
  PROVE  /\ UNCHANGED <<at, outbox, box>>
         /\ \A q \in Proc \ {p} : pc'[q] = pc[q] /\ work'[q] = work[q]
  <1> USE DEF Typed, TypeOK, WorkTyped, mac, sticks, box, Go, Exits
  <1>1. CASE TakeLock(p) \/ TakeNext(p) \/ Reserve(p)
    BY <1>1 DEF TakeLock, TakeNext, Reserve
  <1>2. CASE Place(p)
    BY <1>2 DEF Place
  <1>3. CASE ReadError(p) \/ Report(p) \/ ReadLatest(p) \/ PlaceOutputs(p) \/ Merge(p)
    BY <1>3 DEF ReadError, Report, ReadLatest, PlaceOutputs, Merge
  <1>4. CASE Record(p) \/ Fail(p)
    BY <1>4 DEF Record, Fail
  <1>5. CASE \E s \in Stick : StartReceive(p, s) \/ \E w \in Wanted : StartBuild(p, s, w)
    BY <1>5 DEF StartReceive, StartBuild
  <1> QED  BY <1>1, <1>2, <1>3, <1>4, <1>5 DEF Acts

\* Files and counters are changed by these steps only.
LEMMA MacKeep ==
  ASSUME NEW p \in Proc, Acts(p)
  PROVE  /\ inbox' = inbox \/ Place(p)
         /\ lastBuilt' = lastBuilt \/ Reserve(p)
         /\ lastSeq' = lastSeq \/ Record(p)
         /\ placed' = placed \/ PlaceOutputs(p)
  BY DEF Acts, TakeLock, TakeNext, Reserve, Place, ReadError, Report, ReadLatest,
     PlaceOutputs, Merge, Record, Fail, StartReceive, StartBuild, mac, sticks

\* The operator and the box leave the Mac as it is.
LEMMA HandlesKeep ==
  ASSUME NEW s \in Stick, Handles(s)
  PROVE  UNCHANGED <<mac, procs, inbox>> /\ (UNCHANGED box \/ BoxRuns(s))
  BY DEF Handles, Carry, BoxRefuses, BoxRuns, BoxReplays, Delivers, Tells

\* What a file's rename does.
LEMMA PlaceStep ==
  ASSUME Typed, NEW p \in Proc, WorkInv(p), Place(p)
  PROVE  /\ Writing(p) /\ Made(p) \in Bundle /\ Made(p).seq = work[p].seq
         /\ inbox' \in [Stick -> Inbox]
         /\ \A s \in Stick : \A f \in File :
              inbox'[s][f] = IF s = work[p].stick /\ f = pc[p] /\ (f = "bg" => work[p].bg)
                             THEN Made(p) ELSE inbox[s][f]
         /\ pc[p] = "sig" => Exits(p)
         /\ pc[p] # "sig" => /\ pc' = [pc EXCEPT ![p] = IF pc[p] = "tar" THEN "bg" ELSE "sig"]
                             /\ UNCHANGED <<lock, work>>
  <1>1. pc[p] \in File /\ FileOrder["tar"] = "bg" /\ FileOrder["bg"] = "sig"
        /\ FileOrder["sig"] = "done"
    BY DEF Place, FileOrder, File
  <1>2. work[p] \in Build /\ work[p].seq \in SeqNo
    BY <1>1 DEF Typed, TypeOK, WorkInv, Writing, File, Building
  <1>3. Made(p) \in Bundle /\ Made(p).seq = work[p].seq /\ work[p].stick \in Stick
    BY <1>2 DEF Made, Bundle, Build
  <1>4. /\ inbox \in [Stick -> Inbox]
        /\ \A s \in Stick : inbox[s] \in [File -> Bundle \cup {Nothing}]
    BY DEF Typed, TypeOK, Inbox, File
  <1>5. CASE pc[p] = "bg" /\ ~work[p].bg
    <2>1. inbox' = inbox
      BY <1>5 DEF Place
    <2> QED  BY <1>1, <1>3, <1>4, <1>5, <2>1 DEF Place, Writing, File
  <1>6. CASE ~(pc[p] = "bg" /\ ~work[p].bg)
    <2>1. inbox' = [inbox EXCEPT ![work[p].stick][pc[p]] = Made(p)]
      BY <1>6 DEF Place
    <2>2. \A s \in Stick : \A f \in File :
              inbox'[s][f] = IF s = work[p].stick /\ f = pc[p] THEN Made(p) ELSE inbox[s][f]
      BY <1>1, <1>3, <1>4, <2>1
    <2>3. inbox' \in [Stick -> [File -> Bundle \cup {Nothing}]]
      BY <1>1, <1>3, <1>4, <2>1
    <2>4. inbox' \in [Stick -> Inbox]
      BY <2>3 DEF Inbox, File
    <2> QED  BY <1>1, <1>3, <1>6, <2>2, <2>4 DEF Place, Writing, File
  <1> QED  BY <1>5, <1>6

\* What the box accepts is one bundle.
LEMMA InsertedBundle ==
  ASSUME Typed, NEW s \in Stick, Inserted(s)
  PROVE  B(s) \in Bundle /\ B(s) # Nothing /\ inbox[s].sig = B(s) /\ inbox[s].tar = B(s)
  BY NothingAssumption DEF Typed, TypeOK, Inbox, Inserted, Verified, B

\* What a run leaves.
LEMMA BoxRunsStep ==
  ASSUME Typed, NEW s \in Stick, BoxRuns(s)
  PROVE  /\ ledger[B(s).job] = Nothing /\ B(s).seq > high /\ B(s).job \notin Unfit
         /\ \E r \in Result :
              /\ r.job = B(s).job /\ r.seq = B(s).seq
              /\ r.status = "ok" /\ r.job \in Privileged => Cosigned(s)
              /\ ledger' = [ledger EXCEPT ![B(s).job] = r] /\ high' = B(s).seq
              /\ Delivers(s, r, {Nothing, outbox[s].error})
  <1>1. B(s) \in Bundle
    BY InsertedBundle DEF BoxRuns
  <1>2. [job : {B(s).job}, seq : {B(s).seq}, status : {"ok", "failed"}] \subseteq Result
    BY <1>1 DEF Bundle, Result
  <1> QED  BY <1>2 DEF BoxRuns, Fresh, Fit, Ledger!Record

\* What a delivery leaves on the stick.
LEMMA DeliversStep ==
  ASSUME Typed, NEW s \in Stick, NEW r \in Result,
         NEW errors \in SUBSET (Crumb \cup {Nothing}), Delivers(s, r, errors)
  PROVE  /\ outbox' \in [Stick -> Outbox]
         /\ \A t \in Stick : /\ outbox'[t].latest \in {r, outbox[t].latest}
                             /\ outbox'[t].error \in errors \cup {outbox[t].error}
                             /\ t # s => outbox'[t] = outbox[t]
  <1>1. outbox \in [Stick -> Outbox] /\ outbox[s] \in Outbox
    BY DEF Typed, TypeOK
  <1>2. PICK latest \in {r, outbox[s].latest}, whole \in BOOLEAN, error \in errors :
          outbox' = [outbox EXCEPT ![s] = [latest |-> latest, whole |-> whole,
                                           error |-> error]]
    BY DEF Delivers
  <1> DEFINE o == [latest |-> latest, whole |-> whole, error |-> error]
  <1>3. o \in Outbox /\ o.latest \in {r, outbox[s].latest} /\ o.error \in errors
    BY <1>1 DEF Outbox
  <1>4. outbox' = [outbox EXCEPT ![s] = o]
    BY <1>2
  <1> HIDE DEF o
  <1> QED  BY <1>1, <1>3, <1>4

\* What a refusal leaves on the stick.
LEMMA TellsStep ==
  ASSUME Typed, NEW s \in Stick, B(s) \in Bundle, NEW reason \in Reason, Tells(s, reason)
  PROVE  /\ outbox' \in [Stick -> Outbox]
         /\ \A t \in Stick : /\ outbox'[t].latest = outbox[t].latest
                             /\ outbox'[t].error \in
                                  {[of |-> B(s), reason |-> reason], outbox[t].error}
                             /\ t # s => outbox'[t] = outbox[t]
  <1> DEFINE c == [of |-> B(s), reason |-> reason]
  <1>1. c \in Crumb
    BY DEF Crumb
  <1>2. outbox \in [Stick -> Outbox] /\ outbox' \in {outbox, [outbox EXCEPT ![s].error = c]}
    BY DEF Tells, Typed, TypeOK
  <1>3. \A t \in Stick : outbox[t] \in Outbox
    BY <1>2
  <1> HIDE DEF c
  <1>4. [outbox[s] EXCEPT !.error = c] \in Outbox
        /\ [outbox[s] EXCEPT !.error = c].latest = outbox[s].latest
        /\ [outbox[s] EXCEPT !.error = c].error = c
    BY <1>1, <1>3 DEF Outbox
  <1>5. CASE outbox' = outbox
    BY <1>2, <1>5 DEF c
  <1>6. CASE outbox' = [outbox EXCEPT ![s].error = c]
    <2>1. \A t \in Stick : outbox'[t] = IF t = s THEN [outbox[s] EXCEPT !.error = c]
                                       ELSE outbox[t]
      BY <1>2, <1>6
    <2>2. outbox' \in [Stick -> Outbox]
      BY <1>2, <1>4, <1>6
    <2>3. \A t \in Stick : /\ outbox'[t].latest = outbox[t].latest
                           /\ outbox'[t].error \in {c, outbox[t].error}
                           /\ t # s => outbox'[t] = outbox[t]
      BY <1>4, <2>1
    <2> QED  BY <2>2, <2>3 DEF c
  <1> QED  BY <1>2, <1>5, <1>6

-----------------------------------------------------------------------------
(* Types.                                                                  *)

\* Empty sticks, no process, a box without results.
LEMMA TypedInit == Init => Typed
  BY NothingAssumption DEF Init, Typed, TypeOK, WorkTyped, Inbox, Outbox, NoOutbox, Ledger!Init,
     Building, Receiving

\* A process at another step, with what it is at then.
LEMMA ProcTyped ==
  ASSUME Typed, NEW p \in Proc, NEW to \in {"idle"} \cup Building \cup Receiving,
         NEW w \in Build \cup Receive \cup {Nothing},
         pc' = [pc EXCEPT ![p] = to], work' = [work EXCEPT ![p] = w],
         to \in Building => w \in Build, to \in Receiving => w \in Receive,
         lock' = IF to \notin {"idle", "receive"} THEN p
                 ELSE IF lock = p THEN Nothing ELSE lock,
         lock \in {p, Nothing} \/ to \in {"idle", "receive"},
         to = "receive" => lock # p
  PROVE  ProcsTyped'
  <1> USE DEF Typed, TypeOK, WorkTyped, ProcsTyped
  <1>1. pc' \in [Proc -> {"idle"} \cup Building \cup Receiving]
        /\ work' \in [Proc -> Build \cup Receive \cup {Nothing}]
        /\ lock' \in Proc \cup {Nothing}
    OBVIOUS
  <1> SUFFICES ASSUME NEW q \in Proc
      PROVE  /\ pc'[q] \in Building => work'[q] \in Build
             /\ pc'[q] \in Receiving => work'[q] \in Receive
             /\ pc'[q] \notin {"idle", "receive"} <=> lock' = q
    BY <1>1
  <1>2. CASE q = p
    BY <1>2, NothingAssumption
  <1>3. CASE q # p
    BY <1>3, NothingAssumption
  <1> QED  BY <1>2, <1>3

\* The end of a process.
LEMMA ExitsTyped ==
  ASSUME Typed, NEW p \in Proc, Exits(p)
  PROVE  ProcsTyped'
  BY ProcTyped DEF Exits, Building, Receiving

\* A step of a process has values of the right type.
LEMMA ProcTypedStep ==
  ASSUME IInv, NEW p \in Proc, Acts(p)
  PROVE  Typed'
  <1>1. Typed /\ WorkInv(p) /\ LatestInv
    BY DEF IInv, Typed, WorksInv
  <1>2. ProcsTyped'
    <2> USE DEF Building, Receiving
    <2>1. CASE TakeLock(p)
      <3>1. /\ lock = Nothing /\ lock' = p /\ pc[p] = "receive"
            /\ pc' = [pc EXCEPT ![p] = "errors"]
            /\ work' = [work EXCEPT ![p] = work[p]] /\ work[p] \in Receive
        BY <1>1, <2>1 DEF TakeLock, Locks, Go, Typed, WorkTyped, TypeOK
      <3> QED  BY <1>1, <3>1, ProcTyped
    <2>2. CASE TakeNext(p)
      <3>1. /\ lock = p /\ lock' = lock /\ pc' = [pc EXCEPT ![p] = "reserve"]
            /\ work' = [work EXCEPT ![p] = [work[p] EXCEPT !.seq = NextSeq]]
            /\ work[p] \in Build /\ NextSeq \in SeqNo
        BY <1>1, <2>2 DEF TakeNext, Go, Typed, TypeOK
      <3>2. [work[p] EXCEPT !.seq = NextSeq] \in Build
        BY <3>1 DEF Build
      <3> QED  BY <1>1, <3>1, <3>2, ProcTyped
    <2>3. CASE Reserve(p)
      <3>1. /\ lock = p /\ lock' = lock /\ pc' = [pc EXCEPT ![p] = "tar"]
            /\ work' = [work EXCEPT ![p] = work[p]] /\ work[p] \in Build
        BY <1>1, <2>3 DEF Reserve, Go, Typed, WorkTyped, TypeOK
      <3> QED  BY <1>1, <3>1, ProcTyped
    <2>4. CASE Place(p)
      <3>1. CASE pc[p] = "sig"
        BY <1>1, <2>4, <3>1, PlaceStep, ExitsTyped
      <3>2. CASE pc[p] # "sig"
        <4> DEFINE to == IF pc[p] = "tar" THEN "bg" ELSE "sig"
        <4>1. Writing(p) /\ pc' = [pc EXCEPT ![p] = to] /\ lock' = lock /\ work' = work
          BY <1>1, <2>4, <3>2, PlaceStep
        <4>2. lock = p /\ work' = [work EXCEPT ![p] = work[p]] /\ work[p] \in Build
          BY <1>1, <4>1 DEF Typed, WorkTyped, TypeOK, Writing, File
        <4>3. to \in Building
          OBVIOUS
        <4> HIDE DEF to
        <4> QED  BY <1>1, <4>1, <4>2, <4>3, ProcTyped
      <3> QED  BY <3>1, <3>2
    <2>5. CASE ReadError(p)
      <3> DEFINE w == [work[p] EXCEPT !.error = outbox[work[p].stick].error]
      <3>1. /\ pc[p] = "errors" /\ lock = p /\ lock' = lock
            /\ work[p] \in Receive /\ work' = [work EXCEPT ![p] = w]
            /\ \E to \in {"report", "latest"} : pc' = [pc EXCEPT ![p] = to]
        BY <1>1, <2>5 DEF ReadError, Go, Typed, TypeOK
      <3>2. w \in Receive
        BY <1>1, <3>1 DEF Receive, Typed, TypeOK, Outbox
      <3> HIDE DEF w
      <3> QED  BY <1>1, <3>1, <3>2, ProcTyped
    <2>6. CASE Report(p)
      <3>1. CASE Exits(p)
        BY <1>1, <3>1, ExitsTyped
      <3>2. CASE ~Exits(p)
        <4>1. /\ lock = p /\ lock' = lock /\ pc' = [pc EXCEPT ![p] = "latest"]
              /\ work' = [work EXCEPT ![p] = work[p]] /\ work[p] \in Receive
          BY <1>1, <2>6, <3>2 DEF Report, Go, Typed, WorkTyped, TypeOK
        <4> QED  BY <1>1, <4>1, ProcTyped
      <3> QED  BY <3>1, <3>2
    <2>7. CASE ReadLatest(p)
      <3> DEFINE w == [work[p] EXCEPT !.result = outbox[work[p].stick].latest]
      <3>1. /\ pc[p] = "latest" /\ lock = p /\ lock' = lock
            /\ work[p] \in Receive /\ work' = [work EXCEPT ![p] = w]
            /\ \E to \in {"outputs", "merge"} : pc' = [pc EXCEPT ![p] = to]
        BY <1>1, <2>7 DEF ReadLatest, Go, Typed, TypeOK
      <3>2. w \in Receive
        BY <1>1, <3>1 DEF Receive, Typed, TypeOK, Outbox
      <3> HIDE DEF w
      <3> QED  BY <1>1, <3>1, <3>2, ProcTyped
    <2>8. CASE PlaceOutputs(p)
      <3>1. /\ lock = p /\ lock' = lock /\ pc' = [pc EXCEPT ![p] = "merge"]
            /\ work' = [work EXCEPT ![p] = work[p]] /\ work[p] \in Receive
        BY <1>1, <2>8 DEF PlaceOutputs, Go, Typed, WorkTyped, TypeOK
      <3> QED  BY <1>1, <3>1, ProcTyped
    <2>9. CASE Merge(p)
      <3> DEFINE w == [work[p] EXCEPT !.new = Larger(lastSeq, work[p].result.seq)]
      <3>1. /\ pc[p] = "merge" /\ lock = p /\ lock' = lock
            /\ work[p] \in Receive /\ work' = [work EXCEPT ![p] = w]
            /\ pc' = [pc EXCEPT ![p] = "record"]
        BY <1>1, <2>9 DEF Merge, Go, Typed, TypeOK
      <3>2. Larger(lastSeq, work[p].result.seq) \in SeqNo \cup {0}
        BY <1>1, <3>1 DEF Larger, WorkInv, Genuine, Result, Typed, TypeOK
      <3>3. w \in Receive
        BY <3>1, <3>2 DEF Receive
      <3> HIDE DEF w
      <3> QED  BY <1>1, <3>1, <3>3, ProcTyped
    <2>10. CASE Record(p) \/ Fail(p)
      BY <1>1, <2>10, ExitsTyped DEF Record, Fail
    <2>11. ASSUME NEW s \in Stick, StartReceive(p, s) PROVE ProcsTyped'
      <3> DEFINE w == [stick |-> s, sawLatest |-> outbox[s].latest # Nothing,
                       error |-> outbox[s].error, result |-> Nothing, new |-> 0]
      <3>1. pc[p] = "idle" /\ lock # p /\ lock' = lock /\ work' = [work EXCEPT ![p] = w]
            /\ pc' = [pc EXCEPT ![p] = "receive"]
        BY <1>1, <2>11 DEF StartReceive, Go, Typed, TypeOK
      <3>2. w \in Receive
        BY <1>1 DEF Receive, Typed, TypeOK, Outbox
      <3> HIDE DEF w
      <3> QED  BY <1>1, <3>1, <3>2, ProcTyped
    <2>12. ASSUME NEW s \in Stick, NEW v \in Wanted, StartBuild(p, s, v) PROVE ProcsTyped'
      <3> DEFINE w == [stick |-> s, job |-> v.job, bg |-> v.bg, seq |-> 0]
      <3>1. lock = Nothing /\ lock' = p /\ work' = [work EXCEPT ![p] = w]
            /\ pc' = [pc EXCEPT ![p] = "next"]
        BY <1>1, <2>12 DEF StartBuild, Go, Locks, Typed, TypeOK
      <3>2. w \in Build
        BY WantedAssumption DEF Build
      <3> HIDE DEF w
      <3> QED  BY <1>1, <3>1, <3>2, ProcTyped
    <2> QED  BY <2>1, <2>2, <2>3, <2>4, <2>5, <2>6, <2>7, <2>8, <2>9, <2>10, <2>11,
              <2>12 DEF Acts
  <1>3. lastSeq' \in SeqNo \cup {0}
    <2>1. CASE Record(p)
      <3>1. work[p] \in Receive /\ lastSeq' = work[p].new
        BY <1>1, <2>1 DEF Record, Typed, TypeOK, Receiving
      <3> QED  BY <3>1 DEF Receive
    <2> QED  BY <1>1, <2>1, MacKeep DEF Typed, TypeOK
  <1>4. lastBuilt' \in SeqNo \cup {0}
    <2>1. CASE Reserve(p)
      BY <1>1, <2>1 DEF Reserve, Go, WorkInv
    <2> QED  BY <1>1, <2>1, MacKeep DEF Typed, TypeOK
  <1>5. placed' \subseteq Result
    <2>1. CASE PlaceOutputs(p)
      BY <1>1, <2>1 DEF PlaceOutputs, Go, WorkInv, Genuine, Typed, TypeOK
    <2> QED  BY <1>1, <2>1, MacKeep DEF Typed, TypeOK
  <1>6. inbox' \in [Stick -> Inbox]
    BY <1>1, MacKeep, PlaceStep DEF Typed, TypeOK
  <1>7. UNCHANGED <<at, outbox, ledger, high>>
    BY <1>1, OthersKeep DEF box
  <1> QED  BY <1>1, <1>2, <1>3, <1>4, <1>5, <1>6, <1>7 DEF Typed, TypeOK, WorkTyped, ProcsTyped

\* So has one of the operator or the box.
LEMMA HandlesTypedStep ==
  ASSUME IInv, NEW s \in Stick, Handles(s)
  PROVE  Typed'
  <1>1. Typed /\ UNCHANGED <<mac, procs, inbox>>
    BY HandlesKeep DEF IInv, Typed
  <1>2. at' \in [Stick -> {"mac", "box"}]
    BY <1>1 DEF Handles, Carry, BoxRefuses, BoxRuns, BoxReplays, Delivers, Tells, Typed, TypeOK
  <1>3. outbox' \in [Stick -> Outbox] /\ ledger' \in [Job -> Result \cup {Nothing}]
        /\ high' \in SeqNo \cup {0}
    <2>1. outbox \in [Stick -> Outbox] /\ ledger \in [Job -> Result \cup {Nothing}]
          /\ outbox[s] \in Outbox
      BY <1>1 DEF Typed, TypeOK
    <2>2. CASE Carry(s)
      BY <1>1, <2>1, <2>2 DEF Carry, box, Typed, TypeOK
    <2>3. CASE BoxRefuses(s)
      <3>1. B(s) \in Bundle /\ UNCHANGED box /\ \E reason \in Reason : Tells(s, reason)
        BY <1>1, <2>3, InsertedBundle DEF BoxRefuses, Tells, Reason
      <3> QED  BY <1>1, <2>1, <3>1, TellsStep DEF box, Typed, TypeOK
    <2>4. CASE BoxRuns(s)
      <3>1. PICK r \in Result :
              /\ r.job = B(s).job /\ r.seq = B(s).seq
              /\ ledger' = [ledger EXCEPT ![B(s).job] = r] /\ high' = B(s).seq
              /\ Delivers(s, r, {Nothing, outbox[s].error})
        BY <1>1, <2>4, BoxRunsStep
      <3>2. outbox' \in [Stick -> Outbox]
        <4>1. {Nothing, outbox[s].error} \in SUBSET (Crumb \cup {Nothing})
          BY <2>1 DEF Outbox
        <4> QED  BY <1>1, <3>1, <4>1, DeliversStep
      <3>3. high' \in SeqNo \cup {0}
        BY <1>1, <2>4, <3>1, InsertedBundle DEF BoxRuns, Bundle
      <3> QED  BY <2>1, <3>1, <3>2, <3>3
    <2>5. CASE BoxReplays(s)
      <3>1. ledger[B(s).job] \in Result
        BY <1>1, <2>1, <2>5, InsertedBundle DEF BoxReplays, Bundle
      <3>2. {outbox[s].error} \in SUBSET (Crumb \cup {Nothing})
        BY <2>1 DEF Outbox
      <3>3. Delivers(s, ledger[B(s).job], {outbox[s].error}) /\ UNCHANGED box
        BY <2>5 DEF BoxReplays
      <3> QED  BY <1>1, <2>1, <3>1, <3>2, <3>3, DeliversStep DEF box, Typed, TypeOK
    <2> QED  BY <2>2, <2>3, <2>4, <2>5 DEF Handles
  <1> QED  BY <1>1, <1>2, <1>3 DEF Typed, TypeOK, WorkTyped, mac, procs

-----------------------------------------------------------------------------
(* What a process has found out under the lock.                            *)

\* Numbers are only ever given out one by one, by Reserve.
LEMMA CountersRise ==
  ASSUME IInv, NEW p \in Proc, Acts(p)
  PROVE  /\ Top' >= Top /\ lastSeq' >= lastSeq
         /\ Top' = Top \/ (Reserve(p) /\ Top' = Top + 1 /\ work[p].seq = Top + 1)
  <1>1. Typed /\ WorkInv(p) /\ Typed'
    BY ProcTypedStep DEF IInv, Typed, WorksInv
  <1>2. /\ Top \in Nat /\ lastSeq \in Nat /\ lastBuilt \in Nat /\ Top >= lastSeq
        /\ NextSeq = Top + 1
    BY <1>1, TopNat DEF Typed
  <1>3. CASE Reserve(p)
    <2>1. work[p].seq = Top + 1 /\ lastBuilt' = Top + 1 /\ lastSeq' = lastSeq
      BY <1>1, <1>2, <1>3 DEF Reserve, Go, WorkInv
    <2>2. Top' = Top + 1
      BY <1>2, <2>1 DEF Top, Larger
    <2> QED  BY <1>2, <1>3, <2>1, <2>2
  <1>4. CASE Record(p)
    <2>1. lastSeq' = work[p].new /\ lastBuilt' = lastBuilt
          /\ work[p].new >= lastSeq /\ work[p].new <= Top
      BY <1>1, <1>4 DEF Record, WorkInv
    <2>2. lastSeq' \in Nat
      BY <1>1, SeqNoNat DEF Typed, TypeOK
    <2>3. Top' = Top
      BY <1>2, <2>1, <2>2 DEF Top, Larger
    <2> QED  BY <1>2, <2>1, <2>2, <2>3
  <1>5. CASE ~Reserve(p) /\ ~Record(p)
    <2>1. lastSeq' = lastSeq /\ lastBuilt' = lastBuilt
      BY <1>5, MacKeep
    <2>2. Top' = Top
      BY <2>1 DEF Top
    <2> QED  BY <1>2, <2>1, <2>2
  <1> QED  BY <1>3, <1>4, <1>5

\* What a process has found out of the box's results stays so.
LEMMA KnownStays ==
  ASSUME IInv, NEW p \in Proc, Acts(p)
  PROVE  /\ ledger' = ledger /\ high' = high /\ outbox' = outbox
         /\ \A r : Genuine(r) => Genuine(r)'
         /\ \A n : Confirmed(n) => Confirmed(n)'
  <1>1. ledger' = ledger /\ high' = high /\ outbox' = outbox
    BY OthersKeep DEF IInv, Typed, box
  <1>2. placed \subseteq placed'
    BY MacKeep DEF PlaceOutputs
  <1>3. \A r : Genuine(r) => Genuine(r)'
    BY <1>1 DEF Genuine
  <1>4. \A n : Confirmed(n) => Confirmed(n)'
    BY <1>1, <1>2 DEF Confirmed
  <1> QED  BY <1>1, <1>3, <1>4

\* What the process that acts relies on.
LEMMA OwnWorkStep ==
  ASSUME IInv, NEW p \in Proc, Acts(p)
  PROVE  WorkInv(p)'
  <1>1. Typed /\ WorkInv(p) /\ LatestInv /\ LedgerInv /\ CountersInv
    BY DEF IInv, Typed, WorksInv
  <1>2. /\ Top \in Nat /\ lastSeq \in Nat /\ lastBuilt \in Nat /\ high \in Nat /\ Top >= lastSeq
        /\ NextSeq = Top + 1
    BY <1>1, TopNat DEF Typed
  <1>3. /\ Top' >= Top /\ ledger' = ledger
        /\ \A r : Genuine(r) => Genuine(r)'
        /\ \A n : Confirmed(n) => Confirmed(n)'
    BY CountersRise, KnownStays
  <1>4. CASE TakeNext(p)
    <2>1. /\ pc'[p] = "reserve" /\ work'[p].seq = NextSeq
          /\ NextSeq \in SeqNo /\ NextSeq' = NextSeq
      BY <1>1, <1>4 DEF TakeNext, Go, Typed, TypeOK, WorkTyped, Building, Build, mac, NextSeq
    <2> QED  BY <2>1 DEF WorkInv, Writing, File
  <1>5. CASE Reserve(p)
    <2>1. pc'[p] = "tar" /\ work' = work /\ work[p].seq \in SeqNo /\ work[p].seq = Top + 1
      BY <1>1, <1>2, <1>5 DEF Reserve, Go, WorkInv, Typed, TypeOK
    <2>2. Top' = Top + 1
      <3>1. lastBuilt' = Top + 1 /\ lastSeq' = lastSeq
        BY <1>5, <2>1 DEF Reserve
      <3> QED  BY <1>2, <3>1 DEF Top, Larger
    <2> QED  BY <1>2, <2>1, <2>2 DEF WorkInv, Writing, File
  <1>6. CASE Place(p)
    <2>1. Writing(p) /\ (pc'[p] = "idle" \/ (pc'[p] \in {"bg", "sig"} /\ work' = work))
      BY <1>1, <1>6, PlaceStep DEF Exits, Typed, TypeOK
    <2>2. Top' = Top
      BY <1>6 DEF Place, mac, Top
    <2> QED  BY <1>1, <2>1, <2>2 DEF WorkInv, Writing, File
  <1>7. CASE ReadError(p)
    <2>1. pc'[p] = "latest" \/ (pc'[p] = "report" /\ work'[p].error # Nothing)
      BY <1>1, <1>7 DEF ReadError, Go, Typed, TypeOK, WorkTyped, Receiving, Receive
    <2> QED  BY <2>1 DEF WorkInv, Writing, File
  <1>8. CASE ReadLatest(p)
    <2>1. work[p] \in Receive /\ outbox[work[p].stick].latest # Nothing
          /\ work'[p].result = outbox[work[p].stick].latest
      BY <1>1, <1>8 DEF ReadLatest, Go, Typed, TypeOK, WorkTyped, Receiving, Receive
    <2>2. Genuine(work'[p].result)
      BY <1>1, <2>1 DEF LatestInv, Receive
    <2>3. Genuine(work[p].result)'
      BY <1>3, <2>2 DEF Genuine
    <2>4. pc'[p] = "outputs" \/ (pc'[p] = "merge" /\ work'[p].result.status # "ok")
      BY <1>1, <1>8, <2>1 DEF ReadLatest, Go, Typed, TypeOK
    <2>5. at'[work'[p].stick] = "mac" /\ outbox'[work'[p].stick].whole
      <3>1. work'[p].stick = work[p].stick /\ at' = at /\ outbox' = outbox
        BY <1>1, <1>8, <2>1 DEF ReadLatest, sticks, Typed, WorkTyped, Receive
      <3> QED  BY <1>8, <3>1 DEF ReadLatest
    <2> QED  BY <2>3, <2>4, <2>5 DEF WorkInv, Writing, File
  <1>9. CASE PlaceOutputs(p)
    <2>1. pc[p] = "outputs" /\ pc'[p] = "merge" /\ work' = work
          /\ placed' = placed \cup {work[p].result}
      BY <1>1, <1>9 DEF PlaceOutputs, Go, WorkInv, Typed, TypeOK
    <2>2. Genuine(work[p].result)'
      BY <1>1, <1>3, <2>1 DEF WorkInv, Genuine
    <2> QED  BY <2>1, <2>2 DEF WorkInv, Writing, File
  <1>10. CASE Merge(p)
    <2> DEFINE r == work[p].result
               n == Larger(lastSeq, r.seq)
    <2>1. /\ pc[p] = "merge" /\ pc'[p] = "record" /\ work'[p].new = n
          /\ lastSeq' = lastSeq /\ Top' = Top /\ placed' = placed
      BY <1>1, <1>10 DEF Merge, Go, Typed, TypeOK, WorkTyped, Receiving, Receive, mac, Top
    <2>2. r \in Result /\ ledger[r.job] = r /\ (r.status = "ok" => r \in placed)
      BY <1>1, <2>1 DEF WorkInv, Genuine
    <2>3. r.job \in Job /\ r.seq \in Nat /\ r.seq <= high /\ r # Nothing
      <3>1. r.job \in Job /\ r.seq \in SeqNo /\ r # Nothing
        BY <2>2, NothingAssumption DEF Result
      <3> QED  BY <1>1, <2>2, <3>1, SeqNoNat DEF LedgerInv
    <2>4. n \in Nat /\ n >= lastSeq /\ n <= Top /\ (n = lastSeq \/ n = r.seq)
      BY <1>1, <1>2, <2>3 DEF Larger, CountersInv
    <2>5. Confirmed(n)
      BY <1>1, <2>2, <2>3, <2>4 DEF Confirmed, CountersInv
    <2> HIDE DEF n
    <2>6. Confirmed(work[p].new)'
      BY <1>3, <2>1, <2>5 DEF Confirmed
    <2> QED  BY <2>1, <2>4, <2>6 DEF WorkInv, Writing, File
  <1>11. CASE TakeLock(p) \/ Report(p) \/ Record(p) \/ Fail(p)
              \/ \E s \in Stick : StartReceive(p, s) \/ \E w \in Wanted : StartBuild(p, s, w)
    <2>1. pc'[p] \in {"idle", "next", "receive", "errors", "latest"}
      BY <1>1, <1>11 DEF TakeLock, Report, Record, Fail, StartReceive, StartBuild, Go, Exits,
         Typed, TypeOK
    <2> QED  BY <2>1 DEF WorkInv, Writing, File
  <1> QED  BY <1>4, <1>5, <1>6, <1>7, <1>8, <1>9, <1>10, <1>11 DEF Acts

\* A process that is not past the lock disturbs nothing another one relies on.
LEMMA Undisturbed ==
  ASSUME IInv, NEW p \in Proc, Acts(p), NEW q \in Proc \ {p}, pc[q] \notin {"idle", "receive"}
  PROVE  UNCHANGED <<lastSeq, lastBuilt, placed, inbox>>
  <1>1. pc[p] \in {"idle", "receive"}
    BY OnePastLock DEF IInv
  <1>2. ~Reserve(p) /\ ~Record(p) /\ ~PlaceOutputs(p) /\ ~Place(p)
    BY <1>1 DEF Reserve, Record, PlaceOutputs, Place, Go, FileOrder
  <1> QED  BY <1>2, MacKeep

\* What every process relies on.
LEMMA WorksStep ==
  ASSUME IInv, NEW p \in Proc, Acts(p)
  PROVE  WorksInv'
  <1> SUFFICES ASSUME NEW q \in Proc \ {p} PROVE WorkInv(q)'
    BY OwnWorkStep DEF WorksInv
  <1>1. WorkInv(q) /\ pc'[q] = pc[q] /\ work'[q] = work[q]
    BY OthersKeep DEF IInv, WorksInv, Typed
  <1>2. CASE pc[q] \in {"idle", "receive"}
    BY <1>1, <1>2 DEF WorkInv, Writing, File
  <1>3. CASE pc[q] \notin {"idle", "receive"}
    <2>1. /\ UNCHANGED <<lastSeq, lastBuilt, placed, inbox>> /\ ledger' = ledger
          /\ at' = at /\ outbox' = outbox
      BY <1>3, Undisturbed, KnownStays, OthersKeep DEF IInv, Typed
    <2> QED  BY <1>1, <2>1 DEF WorkInv, Writing, NextSeq, Top, Genuine, Confirmed
  <1> QED  BY <1>2, <1>3

-----------------------------------------------------------------------------
(* What is on the sticks, and what the box has had.                        *)

\* A new file has a number of its own, or is of the bundle that is being written.
LEMMA OneBundleStep ==
  ASSUME IInv, NEW p \in Proc, Acts(p)
  PROVE  OneBundle' /\ GivenOut'
  <1>1. Typed /\ WorkInv(p) /\ WriteInv(p) /\ OneBundle /\ GivenOut /\ Top' >= Top /\ Typed'
    BY CountersRise, ProcTypedStep DEF IInv, Typed, WorksInv, WritesInv
  <1>2. Top \in Nat /\ Top' \in SeqNo \cup {0}
    BY <1>1, TopNat DEF Typed, Top, Larger, TypeOK
  <1>3. \A s \in Stick, f \in File : inbox[s][f] \in Bundle \cup {Nothing}
    BY <1>1 DEF Typed, TypeOK, Inbox, File
  <1>4. CASE Place(p)
    <2>1. /\ Made(p).seq = work[p].seq
          /\ \A s \in Stick : \A f \in File :
               inbox'[s][f] = IF s = work[p].stick /\ f = pc[p] /\ (f = "bg" => work[p].bg)
                              THEN Made(p) ELSE inbox[s][f]
          /\ Writing(p)
      BY <1>1, <1>4, PlaceStep
    <2>2. \A s \in Stick : \A f \in File :
            inbox[s][f] # Nothing /\ inbox[s][f].seq = work[p].seq
              => s = work[p].stick /\ inbox[s][f] = Made(p)
      BY <1>1, <2>1 DEF WriteInv
    <2>3. OneBundle'
      BY <1>1, <2>1, <2>2 DEF OneBundle
    <2>4. GivenOut'
      <3>1. work[p].seq <= Top /\ Top' = Top
        BY <1>1, <1>4, <2>1 DEF WorkInv, Place, mac, Top
      <3> QED  BY <1>1, <2>1, <3>1 DEF GivenOut
    <2> QED  BY <2>3, <2>4
  <1>5. CASE ~Place(p)
    <2>1. inbox' = inbox
      BY <1>5, MacKeep
    <2>2. Top' \in Nat
      BY <1>2, SeqNoNat
    <2>3. \A s \in Stick, f \in File : inbox[s][f] # Nothing => inbox[s][f].seq \in Nat
      BY <1>3, SeqNoNat DEF Bundle
    <2>4. GivenOut'
      BY <1>1, <1>2, <2>1, <2>2, <2>3 DEF GivenOut
    <2> QED  BY <1>1, <2>1, <2>4 DEF OneBundle
  <1> QED  BY <1>4, <1>5

\* The bundle the process that acts is writing.
LEMMA OwnWriteStep ==
  ASSUME IInv, NEW p \in Proc, Acts(p)
  PROVE  WriteInv(p)'
  <1>1. /\ Typed /\ WorkInv(p) /\ WriteInv(p) /\ GivenOut /\ LedgerInv /\ CountersInv
        /\ ledger' = ledger
    BY KnownStays DEF IInv, Typed, WorksInv, WritesInv
  <1>2. Top \in Nat /\ NextSeq = Top + 1 /\ high \in Nat
    BY <1>1, TopNat DEF Typed
  <1>3. \A s \in Stick, f \in File : inbox[s][f] # Nothing => inbox[s][f].seq \in Nat
    <2>1. \A s \in Stick, f \in File : inbox[s][f] \in Bundle \cup {Nothing}
      BY <1>1 DEF Typed, TypeOK, Inbox, File
    <2> QED  BY <2>1, SeqNoNat DEF Bundle
  <1>4. \A j \in Job : ledger[j] # Nothing => ledger[j].seq \in Nat
    BY <1>1, SeqNoNat DEF Typed, TypeOK, Result
  <1>5. CASE Reserve(p)
    <2>1. /\ pc'[p] = "tar" /\ work' = work /\ inbox' = inbox /\ work[p].seq = Top + 1
      BY <1>1, <1>2, <1>5 DEF Reserve, Go, WorkInv, Typed, TypeOK, sticks
    <2>2. \A s \in Stick, f \in File : inbox[s][f] # Nothing => inbox[s][f].seq # work[p].seq
      BY <1>1, <1>2, <1>3, <2>1 DEF GivenOut
    <2>3. \A j \in Job : ledger[j] # Nothing => ledger[j].seq # work[p].seq
      BY <1>1, <1>2, <1>4, <2>1 DEF LedgerInv, CountersInv
    <2> QED  BY <1>1, <2>1, <2>2, <2>3 DEF WriteInv, Writing, File
  <1>6. CASE Place(p)
    <2>1. CASE pc[p] = "sig"
      <3>1. pc'[p] = "idle"
        BY <1>1, <1>6, <2>1, PlaceStep DEF Exits, Typed, TypeOK
      <3> QED  BY <3>1 DEF WriteInv, Writing, File
    <2>2. CASE pc[p] # "sig"
      <3>1. /\ Writing(p) /\ work' = work /\ Made(p) \in Bundle /\ Made(p).seq = work[p].seq
            /\ pc'[p] = IF pc[p] = "tar" THEN "bg" ELSE "sig"
            /\ \A s \in Stick : \A f \in File :
                 inbox'[s][f] = IF s = work[p].stick /\ f = pc[p] /\ (f = "bg" => work[p].bg)
                                THEN Made(p) ELSE inbox[s][f]
        BY <1>1, <1>6, <2>2, PlaceStep DEF Typed, TypeOK
      <3>2. work[p].stick \in Stick /\ Made(p)' = Made(p)
        BY <1>1, <3>1 DEF Made, Writing, File, Typed, TypeOK, Building, Build
      <3>3. \A s \in Stick : \A f \in File :
              inbox'[s][f] # Nothing /\ inbox'[s][f].seq = work[p].seq =>
                s = work[p].stick /\ inbox'[s][f] = Made(p) /\ f # "sig"
        BY <1>1, <2>2, <3>1 DEF WriteInv
      <3>4. inbox'[work[p].stick].tar = Made(p)
        <4>1. inbox'[work[p].stick]["tar"] = Made(p)
          BY <1>1, <2>2, <3>1, <3>2 DEF WriteInv, File, Writing
        <4> QED  BY <4>1
      <3>5. pc[p] = "bg" /\ work[p].bg => inbox'[work[p].stick].bg = Made(p)
        <4>1. pc[p] = "bg" /\ work[p].bg => inbox'[work[p].stick]["bg"] = Made(p)
          BY <3>1, <3>2 DEF File
        <4> QED  BY <4>1
      <3> QED  BY <1>1, <2>2, <3>1, <3>2, <3>3, <3>4, <3>5 DEF WriteInv, Writing, File
    <2> QED  BY <2>1, <2>2
  <1>7. CASE ~Reserve(p) /\ ~Place(p)
    <2>1. pc'[p] \notin File
      BY <1>1, <1>7
         DEF Acts, TakeLock, TakeNext, ReadError, Report, ReadLatest, PlaceOutputs, Merge,
             Record, Fail, StartReceive, StartBuild, Go, Exits, File, Typed, TypeOK
    <2> QED  BY <2>1 DEF WriteInv, Writing
  <1> QED  BY <1>5, <1>6, <1>7

\* Every bundle that is being written.
LEMMA WritesStep ==
  ASSUME IInv, NEW p \in Proc, Acts(p)
  PROVE  WritesInv'
  <1> SUFFICES ASSUME NEW q \in Proc \ {p} PROVE WriteInv(q)'
    BY OwnWriteStep DEF WritesInv
  <1>1. WriteInv(q) /\ pc'[q] = pc[q] /\ work'[q] = work[q]
    BY OthersKeep DEF IInv, WritesInv, Typed
  <1>2. CASE Writing(q)
    <2>1. inbox' = inbox /\ ledger' = ledger
      BY <1>2, Undisturbed, KnownStays DEF Writing, File
    <2> QED  BY <1>1, <2>1 DEF WriteInv, Writing, Made
  <1>3. CASE ~Writing(q)
    BY <1>1, <1>3 DEF WriteInv, Writing
  <1> QED  BY <1>2, <1>3

\* The signature is written when the other files are there (_deliver_atomic).
LEMMA SignedStep ==
  ASSUME IInv, NEW p \in Proc, Acts(p)
  PROVE  SignatureLast'
  <1>1. Typed /\ WorkInv(p) /\ WriteInv(p) /\ SignatureLast
    BY DEF IInv, Typed, WorksInv, WritesInv
  <1>2. CASE Place(p)
    <2>1. /\ Writing(p) /\ Made(p) \in Bundle /\ Made(p).seq = work[p].seq
          /\ \A s \in Stick : \A f \in File :
               inbox'[s][f] = IF s = work[p].stick /\ f = pc[p] /\ (f = "bg" => work[p].bg)
                              THEN Made(p) ELSE inbox[s][f]
      BY <1>1, <1>2, PlaceStep
    <2> SUFFICES ASSUME NEW s \in Stick, inbox'[s]["sig"] # Nothing,
                        inbox'[s]["sig"] = inbox'[s]["tar"], inbox'[s]["tar"].bg
                 PROVE  inbox'[s]["bg"] = inbox'[s]["tar"]
      BY DEF SignatureLast, Verified, B, Cosigned
    <2>2. CASE s # work[p].stick
      <3>1. \A f \in File : inbox'[s][f] = inbox[s][f]
        BY <2>1, <2>2
      <3> QED  BY <1>1, <3>1 DEF SignatureLast, Verified, B, Cosigned, File
    <2>3. CASE s = work[p].stick
      <3>1. Made(p).bg = work[p].bg /\ Made(p) # Nothing
        BY <2>1, NothingAssumption DEF Made
      <3>2. inbox[s]["sig"] # Nothing => inbox[s]["sig"].seq # work[p].seq
        BY <1>1, <2>1 DEF WriteInv, File
      <3>3. pc[p] = "sig"
        <4>1. CASE pc[p] = "tar"
          BY <2>1, <2>3, <3>2, <4>1 DEF File
        <4>2. CASE pc[p] = "bg"
          <5>1. inbox[s]["tar"] = Made(p)
            BY <1>1, <2>1, <2>3, <4>2 DEF WriteInv
          <5> QED  BY <2>1, <2>3, <3>2, <4>2, <5>1 DEF File
        <4> QED  BY <2>1, <4>1, <4>2 DEF Writing, File
      <3>4. inbox[s]["tar"] = Made(p) /\ (work[p].bg => inbox[s]["bg"] = Made(p))
        BY <1>1, <2>1, <2>3, <3>3 DEF WriteInv
      <3> QED  BY <2>1, <2>3, <3>1, <3>3, <3>4 DEF File
    <2> QED  BY <2>2, <2>3
  <1>3. CASE ~Place(p)
    BY <1>1, <1>3, MacKeep DEF SignatureLast, Verified, B, Cosigned
  <1> QED  BY <1>2, <1>3

\* A process takes nothing from what the box has had.
LEMMA LedgerStep ==
  ASSUME IInv, NEW p \in Proc, Acts(p)
  PROVE  LedgerInv' /\ LatestInv' /\ CountersInv'
  <1>1. /\ Typed /\ WorkInv(p) /\ WriteInv(p) /\ LedgerInv /\ LatestInv /\ CountersInv
        /\ Top' >= Top /\ ledger' = ledger /\ high' = high /\ outbox' = outbox
        /\ \A n : Confirmed(n) => Confirmed(n)'
    BY KnownStays, CountersRise DEF IInv, Typed, WorksInv, WritesInv
  <1>2. LedgerInv'
    <2>1. CASE Place(p)
      <3>1. /\ Writing(p) /\ Made(p).seq = work[p].seq
            /\ \A s \in Stick : \A f \in File :
                 inbox'[s][f] = Made(p) \/ inbox'[s][f] = inbox[s][f]
        BY <1>1, <2>1, PlaceStep
      <3>2. \A j \in Job : ledger[j] # Nothing => ledger[j].seq # work[p].seq
        BY <1>1, <3>1 DEF WriteInv
      <3> QED  BY <1>1, <3>1, <3>2 DEF LedgerInv
    <2> QED  BY <1>1, <2>1, MacKeep DEF LedgerInv
  <1>3. LatestInv'
    BY <1>1 DEF LatestInv, Genuine
  <1>4. CountersInv'
    <2>1. high <= Top'
      <3>1. Typed'
        BY ProcTypedStep
      <3>2. Top \in Nat /\ high \in Nat
        BY <1>1, TopNat DEF Typed
      <3>3. Top' \in Nat
        BY <3>1, SeqNoNat DEF Typed, TypeOK, Top, Larger
      <3> QED  BY <1>1, <3>2, <3>3 DEF CountersInv
    <2>2. CASE Record(p)
      <3>1. lastSeq' = work[p].new /\ Confirmed(work[p].new)
        BY <1>1, <2>2 DEF Record, WorkInv
      <3>2. placed' = placed
        BY <2>2 DEF Record
      <3> QED  BY <1>1, <2>1, <3>1, <3>2 DEF CountersInv, Confirmed
    <2>3. CASE ~Record(p)
      <3>1. lastSeq' = lastSeq
        BY <2>3, MacKeep
      <3> QED  BY <1>1, <2>1, <3>1 DEF CountersInv
    <2> QED  BY <2>2, <2>3
  <1> QED  BY <1>2, <1>3, <1>4

\* No process adds a co-signature to a refused bundle.
LEMMA CrumbKept ==
  ASSUME IInv, NEW p \in Proc, Acts(p), NEW b \in Bundle, Cosignless(b)
  PROVE  Cosignless(b)'
  <1>1. /\ Typed /\ Typed' /\ WorkInv(p) /\ ledger' = ledger
        /\ Top' = Top \/ (Reserve(p) /\ Top' = Top + 1 /\ work[p].seq = Top + 1)
    BY CountersRise, KnownStays, ProcTypedStep DEF IInv, Typed, WorksInv
  <1>2. b \in Bundle /\ b.seq \in Nat
    BY SeqNoNat DEF Bundle
  <1>3. Top \in Nat
    BY <1>1, TopNat DEF Typed
  <1>4. b.seq <= Top /\ b.seq <= Top'
    BY <1>1, <1>2, <1>3 DEF Cosignless
  <1>5. \A q \in Proc : (Writing(q) => work[q].seq # b.seq)'
    <2> SUFFICES ASSUME NEW q \in Proc, pc'[q] \in File PROVE work'[q].seq # b.seq
      BY DEF Writing
    <2>1. CASE q # p
      BY <1>1, <1>2, <2>1, OthersKeep DEF Cosignless, Writing
    <2>2. CASE q = p /\ Reserve(p)
      <3>1. work[p].seq = Top + 1 /\ work' = work
        BY <1>1, <1>3, <2>2, TopNat DEF Reserve, Go, WorkInv, Typed
      <3> QED  BY <1>2, <1>3, <1>4, <2>2, <3>1
    <2>3. CASE q = p /\ Place(p)
      <3>1. Writing(p) /\ work'[p] = work[p]
        BY <1>1, <2>3, PlaceStep DEF Exits, Typed, TypeOK, File
      <3> QED  BY <1>2, <2>3, <3>1 DEF Cosignless
    <2>4. CASE q = p /\ ~Reserve(p) /\ ~Place(p)
      BY <1>1, <2>4
         DEF Acts, TakeLock, TakeNext, ReadError, Report, ReadLatest, PlaceOutputs, Merge,
             Record, Fail, StartReceive, StartBuild, Go, Exits, File, Typed, TypeOK
    <2> QED  BY <2>1, <2>2, <2>3, <2>4
  <1>6. \A s \in Stick :
          /\ inbox'[s]["bg"] # b
          /\ \A f \in File :
               inbox'[s][f] # Nothing /\ inbox'[s][f].seq = b.seq => inbox'[s][f] = b
    <2>1. \A s \in Stick :
            /\ inbox[s]["bg"] # b
            /\ \A f \in File :
                 inbox[s][f] # Nothing /\ inbox[s][f].seq = b.seq => inbox[s][f] = b
      BY <1>2 DEF Cosignless
    <2>2. CASE Place(p)
      <3>1. /\ Writing(p) /\ Made(p).seq = work[p].seq
            /\ \A s \in Stick : \A f \in File :
                 inbox'[s][f] = Made(p) \/ inbox'[s][f] = inbox[s][f]
        BY <1>1, <2>2, PlaceStep
      <3>2. Made(p).seq # b.seq
        BY <1>2, <3>1 DEF Cosignless
      <3> QED  BY <2>1, <3>1, <3>2 DEF File
    <2> QED  BY <2>1, <2>2, MacKeep
  <1> QED  BY <1>1, <1>2, <1>4, <1>5, <1>6 DEF Cosignless

\* caj-recv takes the breadcrumbs as they are on the stick.
LEMMA CrumbsStep ==
  ASSUME IInv, NEW p \in Proc, Acts(p)
  PROVE  CrumbsInv'
  <1>1. Typed /\ CrumbsInv /\ outbox' = outbox
    BY KnownStays DEF IInv, Typed
  <1>2. \A s \in Stick : outbox[s].error \in Crumb \cup {Nothing} /\ CrumbInv(outbox[s].error)
    BY <1>1 DEF CrumbsInv, Typed, TypeOK, Outbox
  <1>3. \A c \in Crumb : CrumbInv(c) => CrumbInv(c)'
    BY CrumbKept DEF Crumb, CrumbInv
  <1>4. CrumbInv(Nothing)'
    BY DEF CrumbInv
  <1>5. \A s \in Stick : CrumbInv(outbox[s].error)'
    BY <1>1, <1>2, <1>3, <1>4
  <1>6. ASSUME NEW q \in Proc, pc'[q] \in Receiving PROVE CrumbInv(work[q].error)'
    <2>1. CASE pc[q] \in Receiving /\ work'[q].error = work[q].error
      <3>1. work[q].error \in Crumb \cup {Nothing} /\ CrumbInv(work[q].error)
        BY <1>1, <2>1 DEF CrumbsInv, Typed, TypeOK, Receive
      <3> QED  BY <1>3, <1>4, <2>1, <3>1
    <2>2. CASE \E s \in Stick : work'[q].error = outbox[s].error
      BY <1>2, <1>3, <1>4, <2>2
    <2>3. CASE q # p
      BY <1>1, <1>6, <2>1, <2>3, OthersKeep
    <2>4. CASE q = p
      <3> USE DEF Receiving, Building
      <3>1. CASE ReadError(p)
        <4>1. work[p] \in Receive /\ work'[p].error = outbox[work[p].stick].error
          BY <1>1, <3>1 DEF ReadError, Typed, TypeOK, WorkTyped, Receive
        <4> QED  BY <2>2, <2>4, <4>1 DEF Receive
      <3>2. CASE \E s \in Stick : StartReceive(p, s)
        BY <1>1, <2>2, <2>4, <3>2 DEF StartReceive, Typed, WorkTyped
      <3>3. CASE TakeLock(p) \/ Report(p) \/ ReadLatest(p) \/ PlaceOutputs(p) \/ Merge(p)
        <4>1. pc[p] \in Receiving /\ work[p] \in Receive
          BY <1>1, <3>3 DEF TakeLock, Report, ReadLatest, PlaceOutputs, Merge, Go, Typed, TypeOK
        <4>2. work'[p].error = work[p].error
          BY <1>1, <1>6, <2>4, <3>3, <4>1
             DEF TakeLock, Report, ReadLatest, PlaceOutputs, Merge, Go, Exits, Typed, TypeOK,
                 WorkTyped, Receive
        <4> QED  BY <2>1, <2>4, <4>1, <4>2
      <3>4. CASE TakeNext(p) \/ Reserve(p) \/ Record(p) \/ Fail(p)
                 \/ \E s \in Stick : \E w \in Wanted : StartBuild(p, s, w)
        BY <1>1, <1>6, <2>4, <3>4
           DEF TakeNext, Reserve, Record, Fail, StartBuild, Go, Exits, Typed, TypeOK
      <3>5. CASE Place(p)
        <4>1. Writing(p) /\ pc'[p] \in {"idle", "bg", "sig"}
          BY <1>1, <3>5, PlaceStep DEF IInv, WorksInv, Exits, Typed, TypeOK
        <4> QED  BY <1>6, <2>4, <4>1
      <3> QED  BY <3>1, <3>2, <3>3, <3>4, <3>5 DEF Acts
    <2> QED  BY <2>3, <2>4
  <1> QED  BY <1>5, <1>6 DEF CrumbsInv

-----------------------------------------------------------------------------
(* The operator and the box.                                               *)

\* The operator and the box change nothing a process relies on.
LEMMA BoxKnownStays ==
  ASSUME IInv, NEW s \in Stick, Handles(s)
  PROVE  /\ UNCHANGED <<mac, procs, inbox>> /\ Top' = Top /\ NextSeq' = NextSeq
         /\ \A j \in Job : ledger[j] # Nothing => ledger'[j] = ledger[j]
         /\ \A r : Genuine(r) => Genuine(r)'
         /\ \A n : Confirmed(n) => Confirmed(n)'
  <1>1. UNCHANGED <<mac, procs, inbox>> /\ Typed
    BY HandlesKeep DEF IInv, Typed
  <1>2. \A j \in Job : ledger[j] # Nothing => ledger'[j] = ledger[j]
    BY <1>1, HandlesKeep, BoxRunsStep DEF box, Typed, TypeOK
  <1>3. \A r : Genuine(r) => Genuine(r)'
    BY <1>2, NothingAssumption DEF Genuine, Result
  <1>4. \A n : Confirmed(n) => Confirmed(n)'
    BY <1>1, <1>2 DEF Confirmed, mac
  <1> QED  BY <1>1, <1>2, <1>3, <1>4 DEF mac, Top, NextSeq

\* What a run adds to the ledger.
LEMMA BoxAdds ==
  ASSUME IInv, NEW s \in Stick, BoxRuns(s), NEW j \in Job, ledger'[j] # Nothing
  PROVE  \/ ledger'[j] = ledger[j]
         \/ /\ j = B(s).job /\ ledger'[j].job = j /\ ledger'[j].seq = B(s).seq
            /\ ledger'[j].status = "ok" /\ j \in Privileged => Cosigned(s)
            /\ j \notin Unfit
  BY BoxRunsStep DEF IInv, Typed, TypeOK

\* What is about processes and inboxes is kept.
LEMMA BoxWorksStep ==
  ASSUME IInv, NEW s \in Stick, Handles(s)
  PROVE  WorksInv' /\ WritesInv' /\ OneBundle' /\ GivenOut' /\ SignatureLast'
  <1>1. /\ UNCHANGED <<mac, procs, inbox>> /\ Top' = Top /\ NextSeq' = NextSeq
        /\ \A r : Genuine(r) => Genuine(r)'
        /\ \A n : Confirmed(n) => Confirmed(n)'
    BY BoxKnownStays
  <1>2. WorksInv'
    <2> SUFFICES ASSUME NEW p \in Proc PROVE WorkInv(p)'
      BY DEF WorksInv
    <2>1. WorkInv(p) /\ pc' = pc /\ work' = work /\ lastSeq' = lastSeq /\ placed' = placed
      BY <1>1 DEF IInv, WorksInv, mac, procs
    <2>2. (Genuine(work[p].result) => Genuine(work[p].result)')
          /\ (Confirmed(work[p].new) => Confirmed(work[p].new)')
      BY <1>1, <2>1 DEF Genuine, Confirmed
    <2>3. pc[p] = "outputs" => at'[work[p].stick] = "mac" /\ outbox'[work[p].stick].whole
      <3> SUFFICES ASSUME pc[p] = "outputs"
                   PROVE  at'[work[p].stick] = "mac" /\ outbox'[work[p].stick].whole
        OBVIOUS
      <3>1. /\ lock = p /\ work[p].stick \in Stick /\ p # Nothing
            /\ at[work[p].stick] = "mac" /\ outbox[work[p].stick].whole
        BY <2>1, NothingAssumption DEF IInv, TypeOK, WorkInv, Receiving, Receive
      <3>2. s # work[p].stick
        BY <3>1 DEF Handles, Carry, BoxRefuses, BoxRuns, BoxReplays, Inserted
      <3>3. \A t \in Stick \ {s} : at'[t] = at[t] /\ outbox'[t] = outbox[t]
        BY DEF Handles, Carry, BoxRefuses, BoxRuns, BoxReplays, Delivers, Tells, IInv, TypeOK
      <3> QED  BY <3>1, <3>2, <3>3
    <2> QED  BY <1>1, <2>1, <2>2, <2>3 DEF WorkInv, Writing
  <1>3. WritesInv'
    <2> SUFFICES ASSUME NEW p \in Proc, Writing(p) PROVE WriteInv(p)'
      BY <1>1 DEF WritesInv, WriteInv, Writing, procs
    <2>1. WriteInv(p) /\ pc' = pc /\ work' = work /\ inbox' = inbox
      BY <1>1 DEF IInv, WritesInv, procs
    <2>2. \A j \in Job : ledger'[j] # Nothing => ledger'[j].seq # work[p].seq
      <3>1. CASE UNCHANGED box
        BY <2>1, <3>1 DEF WriteInv, box
      <3>2. CASE BoxRuns(s)
        <4>1. inbox[s]["sig"] # Nothing /\ inbox[s]["sig"].seq = B(s).seq
          BY <3>2, InsertedBundle DEF BoxRuns, IInv, Typed
        <4>2. B(s).seq # work[p].seq
          BY <2>1, <4>1 DEF WriteInv, File
        <4> QED  BY <2>1, <3>2, <4>2, BoxAdds DEF WriteInv
      <3> QED  BY <3>1, <3>2, HandlesKeep
    <2> QED  BY <2>1, <2>2 DEF WriteInv, Writing, Made
  <1>4. OneBundle' /\ GivenOut' /\ SignatureLast'
    BY <1>1 DEF IInv, OneBundle, GivenOut, SignatureLast, Verified, B, Cosigned
  <1> QED  BY <1>2, <1>3, <1>4

\* A run is recorded under the number of its bundle, before it is on the stick.
LEMMA BoxLedgerStep ==
  ASSUME IInv, NEW s \in Stick, Handles(s)
  PROVE  LedgerInv' /\ LatestInv' /\ CountersInv'
  <1>1. /\ UNCHANGED <<mac, procs, inbox>> /\ Top' = Top
        /\ \A r : Genuine(r) => Genuine(r)'
        /\ \A n : Confirmed(n) => Confirmed(n)'
    BY BoxKnownStays
  <1>2. Typed /\ Typed' /\ LedgerInv /\ LatestInv /\ CountersInv /\ OneBundle /\ GivenOut
    BY HandlesTypedStep DEF IInv, Typed
  <1>3. LedgerInv'
    <2>1. CASE UNCHANGED box
      BY <1>1, <1>2, <2>1 DEF LedgerInv, box
    <2>2. CASE BoxRuns(s)
      <3> SUFFICES ASSUME NEW j \in Job, ledger'[j] # Nothing
                   PROVE  /\ ledger'[j].job = j /\ ledger'[j].seq <= high' /\ j \notin Unfit
                          /\ \A t \in Stick : \A f \in File :
                               inbox[t][f] # Nothing /\ inbox[t][f].seq = ledger'[j].seq =>
                                 inbox[t][f].job = j
        BY <1>1 DEF LedgerInv
      <3>1. /\ high' = B(s).seq /\ B(s).seq > high /\ B(s).seq \in Nat /\ high \in Nat
            /\ inbox[s]["sig"] # Nothing /\ inbox[s]["sig"] = B(s)
        <4>1. B(s) \in Bundle /\ inbox[s]["sig"] # Nothing /\ inbox[s]["sig"] = B(s)
          BY <1>2, <2>2, InsertedBundle DEF BoxRuns
        <4>2. B(s).seq \in SeqNo /\ high \in SeqNo \cup {0}
          BY <1>2, <4>1 DEF Bundle, Typed, TypeOK
        <4>3. high' = B(s).seq /\ B(s).seq > high
          BY <1>2, <2>2, BoxRunsStep
        <4>4. B(s).seq \in Nat
          BY <4>2, SeqNoNat
        <4>5. high \in Nat
          BY <1>2, TopNat DEF Typed
        <4> QED  BY <4>1, <4>3, <4>4, <4>5
      <3>2. CASE ledger'[j] = ledger[j]
        <4>1. ledger[j].seq \in Nat /\ ledger[j].seq <= high
          BY <1>2, <3>2, SeqNoNat DEF LedgerInv, Typed, TypeOK, Result
        <4> QED  BY <1>2, <3>1, <3>2, <4>1 DEF LedgerInv
      <3>3. CASE /\ j = B(s).job /\ ledger'[j].job = j /\ ledger'[j].seq = B(s).seq
                 /\ j \notin Unfit
        BY <1>2, <3>1, <3>3 DEF OneBundle, File
      <3> QED  BY <2>2, <3>2, <3>3, BoxAdds
    <2> QED  BY <2>1, <2>2, HandlesKeep
  <1>4. LatestInv'
    <2> SUFFICES ASSUME NEW t \in Stick, outbox'[t].latest # Nothing
                 PROVE  Genuine(outbox[t].latest)'
      BY DEF LatestInv
    <2>1. CASE outbox'[t].latest = outbox[t].latest
      BY <1>1, <1>2, <2>1 DEF LatestInv, Genuine
    <2>2. CASE BoxRuns(s) /\ outbox'[t].latest # outbox[t].latest
      <3>1. PICK r \in Result :
              /\ r.job = B(s).job /\ ledger' = [ledger EXCEPT ![B(s).job] = r]
              /\ Delivers(s, r, {Nothing, outbox[s].error})
        BY <1>2, <2>2, BoxRunsStep
      <3>2. outbox'[t].latest = r
        <4>1. {Nothing, outbox[s].error} \in SUBSET (Crumb \cup {Nothing})
          BY <1>2 DEF Typed, TypeOK, Outbox
        <4> QED  BY <1>2, <2>2, <3>1, <4>1, DeliversStep
      <3>3. ledger'[r.job] = r
        BY <1>2, <3>1 DEF Typed, TypeOK, Result
      <3> QED  BY <3>2, <3>3 DEF Genuine
    <2>3. CASE BoxReplays(s) /\ outbox'[t].latest # outbox[t].latest
      <3>1. B(s).job \in Job
        BY <1>2, <2>3, InsertedBundle DEF BoxReplays, Bundle
      <3>2. /\ outbox'[t].latest = ledger[B(s).job]
            /\ ledger[B(s).job] # Nothing /\ ledger' = ledger
        <4>1. {outbox[s].error} \in SUBSET (Crumb \cup {Nothing})
          BY <1>2 DEF Typed, TypeOK, Outbox
        <4>2. /\ ledger[B(s).job] \in Result /\ ledger[B(s).job] # Nothing /\ ledger' = ledger
              /\ Delivers(s, ledger[B(s).job], {outbox[s].error})
          BY <1>2, <2>3, <3>1 DEF BoxReplays, Typed, TypeOK, box
        <4> QED  BY <1>2, <2>3, <4>1, <4>2, DeliversStep
      <3>3. Genuine(ledger[B(s).job])
        BY <1>2, <3>1, <3>2 DEF LedgerInv, Genuine, Typed, TypeOK
      <3> QED  BY <3>2, <3>3 DEF Genuine
    <2>4. CASE Carry(s) \/ BoxRefuses(s)
      <3>1. outbox'[t].latest = outbox[t].latest
        BY <1>2, <2>4, InsertedBundle, TellsStep DEF Carry, BoxRefuses, Reason
      <3> QED  BY <1>2, <2>1, <3>1
    <2> QED  BY <2>1, <2>2, <2>3, <2>4 DEF Handles
  <1>5. CountersInv'
    <2>1. high' <= Top
      <3>1. CASE BoxRuns(s)
        BY <1>2, <3>1, BoxRunsStep, InsertedBundle DEF BoxRuns, GivenOut, File
      <3> QED  BY <1>2, <3>1, HandlesKeep DEF CountersInv, box
    <2>2. Confirmed(lastSeq)'
      BY <1>1, <1>2 DEF CountersInv, Confirmed, mac
    <2> QED  BY <1>1, <2>1, <2>2 DEF CountersInv
  <1> QED  BY <1>3, <1>4, <1>5

\* The box does not run a bundle it refused for want of the co-signature.
LEMMA BoxCrumbKept ==
  ASSUME IInv, NEW s \in Stick, Handles(s), NEW b \in Bundle, Cosignless(b)
  PROVE  Cosignless(b)'
  <1>1. UNCHANGED <<mac, procs, inbox>> /\ Top' = Top /\ Typed
    BY BoxKnownStays DEF IInv, Typed
  <1>2. b.job \in Job
    BY DEF Bundle
  <1>3. LET r == ledger'[b.job] IN r # Nothing /\ r.seq = b.seq => r.status = "failed"
    <2>1. CASE UNCHANGED box
      BY <1>2, <2>1 DEF Cosignless, box
    <2>2. CASE BoxRuns(s)
      <3> SUFFICES ASSUME ledger'[b.job] # Nothing, ledger'[b.job].seq = b.seq,
                          ledger'[b.job] # ledger[b.job]
                   PROVE  ledger'[b.job].status = "failed"
        BY <1>2 DEF Cosignless
      <3>1. b.job = B(s).job /\ B(s).seq = b.seq
            /\ (ledger'[b.job].status = "ok" /\ b.job \in Privileged => Cosigned(s))
        BY <1>2, <2>2, BoxAdds
      <3>2. inbox[s]["tar"] = B(s) /\ B(s) # Nothing
        BY <1>1, <2>2, InsertedBundle DEF BoxRuns
      <3>3. B(s) = b /\ inbox[s].bg # b /\ b.job \in Privileged
        BY <1>2, <3>1, <3>2 DEF Cosignless, File
      <3>4. ~Cosigned(s)
        BY <3>3 DEF Cosigned, B
      <3>5. ledger'[b.job] \in Result
        BY <1>2, HandlesTypedStep DEF Typed, TypeOK
      <3> QED  BY <3>1, <3>3, <3>4, <3>5 DEF Result
    <2> QED  BY <2>1, <2>2, HandlesKeep
  <1> QED  BY <1>1, <1>2, <1>3 DEF Cosignless, Writing, procs

\* A bundle that is refused is whole, and its number nobody's.
LEMMA CrumbMade ==
  ASSUME IInv, NEW s \in Stick, BoxRefuses(s),
         Fresh(s), B(s).job \in Privileged, ~Cosigned(s)
  PROVE  Cosignless(B(s))'
  <1>1. UNCHANGED <<mac, procs, inbox>> /\ Top' = Top /\ Typed
    BY BoxKnownStays DEF IInv, Typed, Handles
  <1>2. /\ B(s) \in Bundle /\ B(s) # Nothing /\ inbox[s]["sig"] = B(s) /\ inbox[s]["tar"] = B(s)
        /\ inbox' = inbox /\ ledger' = ledger /\ pc' = pc /\ work' = work
    BY <1>1, InsertedBundle DEF BoxRefuses, Tells, procs, box
  <1>3. ledger[B(s).job] = Nothing /\ B(s).job \in Privileged /\ inbox[s]["bg"] # B(s)
    BY DEF Fresh, Cosigned, B
  <1>4. B(s).seq <= Top
    BY <1>2 DEF IInv, GivenOut, File
  <1>5. \A u \in Stick : \A f \in File :
          inbox[u][f] # Nothing /\ inbox[u][f].seq = B(s).seq => u = s /\ inbox[u][f] = B(s)
    BY <1>2 DEF IInv, OneBundle, File
  <1>6. \A u \in Stick : inbox[u]["bg"] # B(s)
    BY <1>2, <1>3, <1>5 DEF File
  <1>7. \A p \in Proc : Writing(p) => work[p].seq # B(s).seq
    BY <1>2 DEF IInv, WritesInv, WriteInv, File
  <1>8. B(s)' = B(s)
    BY <1>2 DEF B
  <1> QED  BY <1>1, <1>2, <1>3, <1>4, <1>5, <1>6, <1>7, <1>8 DEF Cosignless, Writing

\* What ERROR.json says after a visit to the box.
LEMMA BoxCrumbsStep ==
  ASSUME IInv, NEW s \in Stick, Handles(s)
  PROVE  CrumbsInv'
  <1>1. Typed /\ CrumbsInv /\ UNCHANGED <<mac, procs, inbox>> /\ Top' = Top
    BY BoxKnownStays DEF IInv, Typed
  <1>2. \A c \in Crumb : CrumbInv(c) => CrumbInv(c)'
    BY BoxCrumbKept DEF Crumb, CrumbInv
  <1>3. CrumbInv(Nothing)'
    BY DEF CrumbInv
  <1>4. \A p \in Proc : pc'[p] \in Receiving => CrumbInv(work[p].error)'
    <2> SUFFICES ASSUME NEW p \in Proc, pc[p] \in Receiving PROVE CrumbInv(work[p].error)'
      BY <1>1 DEF procs
    <2>1. work[p].error \in Crumb \cup {Nothing} /\ CrumbInv(work[p].error) /\ work' = work
      BY <1>1 DEF CrumbsInv, Typed, TypeOK, Receive, procs
    <2> QED  BY <1>2, <1>3, <2>1
  <1>5. ASSUME NEW t \in Stick PROVE CrumbInv(outbox[t].error)'
    <2>1. outbox[t].error \in Crumb \cup {Nothing} /\ CrumbInv(outbox[t].error)
      BY <1>1 DEF CrumbsInv, Typed, TypeOK, Outbox
    <2>2. CASE outbox'[t].error \in {Nothing, outbox[t].error}
      BY <1>2, <1>3, <2>1, <2>2
    <2>3. CASE BoxRefuses(s)
      <3>1. B(s) \in Bundle
        BY <1>1, <2>3, InsertedBundle DEF BoxRefuses
      <3>2. PICK reason \in Reason :
              /\ Tells(s, reason)
              /\ reason = "unfit" => ~Fit(s)
              /\ reason = "cosign_failed" =>
                   Fresh(s) /\ B(s).job \in Privileged /\ ~Cosigned(s)
        BY <2>3 DEF BoxRefuses, Reason
      <3> DEFINE c == [of |-> B(s), reason |-> reason]
      <3>3. outbox'[t].error \in {c, outbox[t].error}
        BY <1>1, <3>1, <3>2, TellsStep
      <3>4. c.of = B(s) /\ c.reason = reason
        OBVIOUS
      <3>5. reason = "cosign_failed" => Cosignless(B(s))'
        BY <2>3, <3>2, CrumbMade
      <3>6. inbox' = inbox /\ B(s)' = B(s)
        BY <1>1 DEF B
      <3>7. CASE outbox'[t].error = c
        <4>1. outbox'[t].error.of = B(s) /\ outbox'[t].error.reason = reason
          BY <3>4, <3>7
        <4> HIDE DEF c
        <4>2. reason = "unfit" => B(s).job \in Unfit
          BY <3>2 DEF Fit
        <4>3. reason = "cosign_failed" => Cosignless(outbox[t].error.of)'
          BY <3>5, <3>6, <4>1 DEF Cosignless
        <4> QED  BY <4>1, <4>2, <4>3 DEF CrumbInv
      <3> QED  BY <2>2, <3>3, <3>7
    <2>4. CASE ~BoxRefuses(s)
      <3>1. outbox'[t].error \in {Nothing, outbox[t].error}
        BY <1>1, <2>4 DEF Handles, Carry, BoxRuns, BoxReplays, Delivers, Typed, TypeOK
      <3> QED  BY <2>2, <3>1
    <2> QED  BY <2>3, <2>4
  <1> QED  BY <1>4, <1>5 DEF CrumbsInv

-----------------------------------------------------------------------------
(* The invariant, and what follows from it.                                *)

\* The invariant holds at first ...
LEMMA InvInit == Init => IInv
  <1> SUFFICES ASSUME Init PROVE IInv
    OBVIOUS
  <1>1. Typed /\ \A s \in Stick, f \in File : inbox[s][f] = Nothing
    BY TypedInit DEF Init, File
  <1>2. WorksInv /\ WritesInv
    BY DEF Init, WorksInv, WritesInv, WorkInv, WriteInv, Writing, File
  <1>3. OneBundle /\ GivenOut /\ SignatureLast
    BY <1>1 DEF OneBundle, GivenOut, SignatureLast, Verified, File
  <1>4. LedgerInv /\ LatestInv /\ CrumbsInv
    BY DEF Init, Ledger!Init, LedgerInv, LatestInv, CrumbsInv, CrumbInv, Receiving, NoOutbox
  <1>5. CountersInv
    BY DEF Init, Ledger!Init, CountersInv, Confirmed, Top, Larger
  <1> QED  BY <1>1, <1>2, <1>3, <1>4, <1>5 DEF IInv, Typed

\* ... and every step keeps it.
LEMMA InvStep == IInv /\ [Next]_vars => IInv'
  <1>1. ASSUME IInv, NEW p \in Proc, Acts(p) PROVE IInv'
    BY <1>1, ProcTypedStep, WorksStep, OneBundleStep, WritesStep, SignedStep, LedgerStep,
       CrumbsStep DEF IInv, Typed
  <1>2. ASSUME IInv, NEW s \in Stick, Handles(s) PROVE IInv'
    BY <1>2, HandlesTypedStep, BoxWorksStep, BoxLedgerStep, BoxCrumbsStep DEF IInv, Typed
  <1>3. ASSUME IInv, UNCHANGED vars PROVE IInv'
    <2> USE DEF vars, mac, procs, sticks, box
    <2>1. TypeOK' /\ WorkTyped' /\ OneBundle' /\ GivenOut' /\ SignatureLast'
      BY <1>3 DEF IInv, TypeOK, WorkTyped, OneBundle, GivenOut, SignatureLast, Verified, B,
         Cosigned, Top
    <2>2. WorksInv' /\ WritesInv'
      BY <1>3 DEF IInv, WorksInv, WritesInv, WorkInv, WriteInv, Writing, Made, Top, NextSeq,
         Genuine, Confirmed
    <2>3. LedgerInv' /\ LatestInv' /\ CountersInv'
      BY <1>3 DEF IInv, LedgerInv, LatestInv, Genuine, CountersInv, Confirmed, Top
    <2>4. CrumbsInv'
      BY <1>3 DEF IInv, CrumbsInv, CrumbInv, Cosignless, Writing, Top
    <2> QED  BY <2>1, <2>2, <2>3, <2>4 DEF IInv
  <1> QED  BY <1>1, <1>2, <1>3 DEF Next, Acts, Handles

\* The inductive invariant of the Mac's side, for any sticks, processes and jobs.
THEOREM CourierInvariant == Spec => []IInv
  BY InvInit, InvStep, PTL DEF Spec

\* Type correctness; .caj.lock is its holder's only.
THEOREM TypeCorrect == Spec => []TypeOK
  <1>1. IInv => TypeOK
    BY DEF IInv
  <1> QED  BY <1>1, CourierInvariant, PTL

\* No two sticks the box accepts carry one seq, whatever fails and overlaps
\* (_next_seq, _record_built_seq).
THEOREM FreshSeqsHolds == Spec => []FreshSeqs
  <1>1. IInv => FreshSeqs
    <2> SUFFICES ASSUME IInv PROVE FreshSeqs
      OBVIOUS
    <2>1. high < NextSeq
      BY TopNat DEF IInv, CountersInv
    <2>2. \A s \in Stick : Verified(s) =>
            inbox[s]["tar"] # Nothing /\ B(s) = inbox[s]["tar"]
      BY DEF Verified, B
    <2> QED  BY <2>1, <2>2 DEF IInv, FreshSeqs, OneBundle, LedgerInv, File
  <1> QED  BY <1>1, CourierInvariant, PTL

\* The primary signature is the last file (_deliver_atomic).
THEOREM SignatureLastHolds == Spec => []SignatureLast
  <1>1. IInv => SignatureLast
    BY DEF IInv
  <1> QED  BY <1>1, CourierInvariant, PTL

\* last-seq confirms a result all of whose outputs are placed (_do_receive).
THEOREM ConfirmedIsPlacedHolds == Spec => []ConfirmedIsPlaced
  <1>1. IInv => ConfirmedIsPlaced
    BY DEF IInv, CountersInv, Confirmed, ConfirmedIsPlaced
  <1> QED  BY <1>1, CourierInvariant, PTL

\* A job reported as refused for a reason of its bundle did not run under that seq
\* and never will (_report_error_breadcrumb).
THEOREM RefusedNeverRunsHolds == Spec => []RefusedNeverRuns
  <1>1. IInv => RefusedNeverRuns
    <2> SUFFICES ASSUME IInv, NEW p \in Proc, pc[p] = "report",
                        work[p].error.reason \in {"unfit", "cosign_failed"}
                 PROVE  LET r == ledger[work[p].error.of.job] IN
                        r # Nothing /\ r.seq = work[p].error.of.seq => r.status = "failed"
      BY DEF RefusedNeverRuns
    <2>1. work[p].error # Nothing /\ CrumbInv(work[p].error)
      BY DEF IInv, WorksInv, WorkInv, CrumbsInv, Receiving
    <2>2. CASE work[p].error.reason = "cosign_failed"
      BY <2>1, <2>2 DEF CrumbInv, Cosignless
    <2>3. CASE work[p].error.reason = "unfit"
      <3>1. work[p].error.of.job \in Unfit /\ work[p].error.of.job \in Job
        BY <2>1, <2>3, WantedAssumption DEF CrumbInv
      <3> QED  BY <3>1 DEF IInv, LedgerInv
    <2> QED  BY <2>2, <2>3
  <1> QED  BY <1>1, CourierInvariant, PTL

\* caj-recv never takes last-seq back (_write_last_seq_atomic).
THEOREM LastSeqNeverFallsHolds == Spec => LastSeqNeverFalls
  <1>1. ASSUME IInv, [Next]_vars PROVE lastSeq' >= lastSeq
    <2>1. lastSeq \in Nat
      BY <1>1, TopNat DEF IInv
    <2>2. CASE \E p \in Proc : Acts(p)
      BY <1>1, <2>2, CountersRise
    <2>3. CASE \E s \in Stick : Handles(s)
      BY <2>1, <2>3, HandlesKeep DEF mac
    <2>4. CASE UNCHANGED vars
      BY <2>1, <2>4 DEF vars, mac
    <2> QED  BY <1>1, <2>2, <2>3, <2>4 DEF Next, Acts, Handles
  <1>2. IInv /\ [Next]_vars => [lastSeq' >= lastSeq]_lastSeq
    BY <1>1
  <1> QED  BY <1>2, CourierInvariant, PTL DEF Spec, LastSeqNeverFalls
==============================================================================
