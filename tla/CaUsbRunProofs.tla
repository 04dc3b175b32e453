----------------------------- MODULE CaUsbRunProofs -----------------------------
(***************************************************************************)
(* Proofs about CaUsbRun, for any sticks, jobs and bundles.                *)
(*                                                                         *)
(* A step is one instance's: it leaves alone what belongs to the others    *)
(* (OthersKeep), and a result in the store stays (StoreGrows).  What one   *)
(* instance has established at each step is therefore local to it: the     *)
(* bundle it has in hand (BundleInv), what it is going to tell of it       *)
(* (ToldInv), what its stick shows (StickInv), whether that is mounted     *)
(* (MountInv).  The LED is shared: who has the lock has put SAFE_REMOVE    *)
(* out before it mounts anything (LedInv).                                 *)
(***************************************************************************)
EXTENDS CaUsbRun, TLAPS

\* The steps of a run that hold the bundle of an inserted stick ...
InHand == {"ready", "replayReady", "dispatch", "commit", "bump", "crumb"}
\* ... those that precede an outcome to be told ...
Untold == {"none", "held", "stopped", "start", "busy", "begin", "mount", "check", "offer",
           "confirm2", "kit", "ready", "replayReady", "dispatch", "crumb"}
\* ... those that tell one which is in the store ...
Telling == {"deliver", "copy", "latest", "sync"}
\* ... and those at which the stick is mounted.
Mounted == Locked \ {"begin", "mount", "show", "exit"}

\* What the K1 gate and the handler get has passed the checks.
BundleInv(s) ==
    /\ unit[s] \in InHand => B(s) \in Bundle
    /\ unit[s] \in {"ready", "dispatch"} => Verified(B(s)) /\ B(s).wellFormed /\ InScope(B(s))
    /\ unit[s] = "replayReady" => done[B(s).job] # NoResult

\* Does the store say of l's job what l says?
Recorded(l) ==
    /\ done[l.job] # NoResult
    /\ l.replayed => done[l.job] = [seq |-> l.seq, status |-> l.status]

\* What is told is of the bundle in hand, and is in the store before it is told.
ToldInv(s) ==
    /\ unit[s] \in Untold => told[s] = NoResult
    /\ unit[s] \in {"commit", "bump"} =>
         told[s] \in Latest /\ told[s].job = B(s).job /\ ~told[s].replayed
    /\ unit[s] = "bump" => done[B(s).job] # NoResult
    /\ unit[s] \in Telling => told[s] \in Latest /\ Recorded(told[s])

Backed(o) == o.latest # NoResult => Recorded(o.latest)
\* Its files are beside LATEST.json.
Complete(o) == o.latest # NoResult => o.latest.job \in o.whole

\* Whatever a pull leaves is backed by the store; what is on a stick that was
\* never pulled in haste is complete, and what is on one that is still there has
\* got as far as its run.
StickInv(s) ==
    /\ outbox[s] \in onStick[s] /\ \A o \in onStick[s] : Backed(o)
    /\ s \notin hasty => Complete(outbox[s])
    /\ s \in plugged =>
         /\ unit[s] = "latest" => told[s].job \in outbox[s].whole
         /\ unit[s] = "sync" => outbox[s].latest = told[s]
         /\ unit[s] \in {"umount", "show", "exit"} /\ ok[s] /\ told[s] # NoResult =>
              onStick[s] = {outbox[s]} /\ outbox[s].latest = told[s]

\* A mount that is left behind by a failed umount is no success.
MountInv(s) ==
    mount[s] # "no" => unit[s] \in Mounted \/ (unit[s] \in {"show", "exit"} /\ ~ok[s])

\* Whoever has the lock has put out the SAFE_REMOVE of the run before.
LedInv(s) ==
    unit[s] \in Locked /\ led = "SAFE_REMOVE" =>
        unit[s] = "begin" \/ (unit[s] = "exit" /\ ok[s])

IInv == /\ TypeOK
        /\ \A s \in Stick :
             BundleInv(s) /\ ToldInv(s) /\ StickInv(s) /\ MountInv(s) /\ LedInv(s)
        /\ SafeRemoveMeansUnmounted

-----------------------------------------------------------------------------
(* One instance, the others, and the store.                                *)

\* A step by, or on behalf of, the instance of one stick ...
Acts(s) == Step(s) \/ Stop(s) \/ Pull(s) \/ \E b \in Carries[s] : Insert(s, b)

\* ... of one of these kinds: it goes on, to another step or the lock or the LED ...
Passing(s) ==
    \/ Acquire(s) \/ Contend(s) \/ Begin(s) \/ MountFails(s)
    \/ Refuse(s) \/ Fresh(s) \/ Replay(s) \/ Offer(s) \/ Accept(s) \/ Confirm2(s)
    \/ Press(s) \/ DispatchRefuses(s) \/ CommitAgain(s) \/ ShowTerminal(s) \/ Cleanup(s)
\* ... it mounts, or settles whether the run succeeded ...
Settling(s) ==
    \/ Forged(s) \/ Decline(s) \/ KitFails(s) \/ ReplayNoPress(s) \/ RunThenRaise(s)
    \/ CommitRaises(s) \/ DeliverFails(s) \/ UmountFails(s)
    \/ MountRo(s) \/ WriteKit(s) \/ Crumb(s)
\* ... it decides what is to be told ...
Deciding(s) == NoPress(s) \/ ReplayPress(s) \/ Execute(s)
\* ... the process ends ...
Leaving(s) == ShowBusy(s) \/ ButtonFault(s) \/ Exit(s) \/ Stop(s)
\* ... it writes to the stick, or writes back, which may be put in and pulled.
Writing(s) ==
    CopyFirst(s) \/ CopyRest(s) \/ WriteLatest(s) \/ Sync(s) \/ Umount(s)
Inserting(s) == \E b \in Carries[s] : Insert(s, b)

\* There are no other steps.
LEMMA StepKinds ==
  ASSUME NEW s, Acts(s)
  PROVE  \/ Passing(s) \/ Settling(s) \/ Deciding(s) \/ Commit(s) \/ Bump(s)
         \/ Leaving(s) \/ Writing(s) \/ Pull(s) \/ Inserting(s)
  BY DEF Acts, Step, Passing, Settling, Deciding, Leaving, Writing, Inserting

\* The state in which no stick was ever inserted.
LEMMA TypedInit == Init => TypeOK
  <1> SUFFICES ASSUME Init PROVE TypeOK
    OBVIOUS
  <1>1. EmptyOutbox \in Outbox
    BY DEF EmptyOutbox, Outbox
  <1> QED  BY <1>1, NullAssumption DEF Init, TypeOK, Unit, Locked, Running, Led

\* A step of one instance leaves what belongs to another one as it is.
Same(t) ==
    /\ unit'[t] = unit[t] /\ ok'[t] = ok[t] /\ mount'[t] = mount[t] /\ told'[t] = told[t]
    /\ inbox'[t] = inbox[t] /\ outbox'[t] = outbox[t] /\ onStick'[t] = onStick[t]
    /\ t \in plugged' <=> t \in plugged
    /\ t \in hasty' <=> t \in hasty

\* What instances share is the lock, the LED and the store only.
LEMMA OthersKeep ==
  ASSUME TypeOK, NEW s \in Stick, NEW t \in Stick \ {s}, Acts(s)
  PROVE  Same(t)
  <1>1. CASE Passing(s)
    BY <1>1
       DEF TypeOK, Same, sticks, store, Go, Passing, Contend, Begin, MountFails, Refuse, Fresh,
           Replay, Offer, Accept, Confirm2, Press, DispatchRefuses, CommitAgain, ShowTerminal,
           Cleanup, Acquire
  <1>2. CASE Settling(s)
    BY <1>2
       DEF TypeOK, Same, sticks, store, Go, Settling, Forged, Decline, KitFails, ReplayNoPress,
           RunThenRaise, CommitRaises, DeliverFails, UmountFails, MountRo, WriteKit, Crumb,
           Finish
  <1>3. CASE Deciding(s)
    BY <1>3 DEF TypeOK, Same, sticks, store, Go, Deciding, NoPress, ReplayPress, Execute
  <1>4. CASE Commit(s)
    BY <1>4 DEF TypeOK, Same, sticks, store, Go, Commit
  <1>5. CASE Bump(s)
    BY <1>5 DEF TypeOK, Same, sticks, store, Go, Bump
  <1>6. CASE Leaving(s)
    BY <1>6
       DEF TypeOK, Same, sticks, store, Go, Leaving, ShowBusy, ButtonFault, Exit, Stop, Ends
  <1>7. CASE Writing(s)
    BY <1>7
       DEF TypeOK, Same, sticks, store, Go, Writing, CopyFirst, CopyRest, WriteLatest,
           Sync, Umount, WriteBack, Write, Finish
  <1>8. CASE Pull(s)
    BY <1>8 DEF TypeOK, Same, sticks, store, Go, Pull
  <1>9. CASE Inserting(s)
    BY <1>9 DEF TypeOK, Same, sticks, store, Go, Inserting, Insert
  <1> QED  BY <1>1, <1>2, <1>3, <1>4, <1>5, <1>6, <1>7, <1>8, <1>9, StepKinds

-----------------------------------------------------------------------------
(* Types.                                                                  *)

\* What a step of an instance between two steps under the lock does to the lock.
LEMMA GoLock ==
  ASSUME TypeOK, NEW s \in Stick, NEW from, NEW to \in Unit, Go(s, from, to),
         from \in Locked <=> to \in Locked, lock' = lock
  PROVE  unit' \in [Stick -> Unit] /\ \A t \in Stick : lock' = t <=> unit'[t] \in Locked
  BY DEF TypeOK, Go

\* The end of a process.
LEMMA EndsTyped ==
  ASSUME TypeOK, NEW s \in Stick, NEW to \in {"held", "stopped"}, Ends(s, to), led' \in Led
  PROVE  TypeOK'
  <1> USE DEF TypeOK, Ends, store
  <1>1. unit' \in [Stick -> Unit] /\ lock' \in Stick \cup {NoStick}
        /\ \A t \in Stick : lock' = t <=> unit'[t] \in Locked
    BY NullAssumption DEF Unit, Locked, Running
  <1> QED  BY <1>1

\* A write to a stick.
LEMMA WriteTyped ==
  ASSUME TypeOK, NEW s \in Stick, NEW o \in Outbox, NEW left \in SUBSET Outbox,
         Write(s, o, left)
  PROVE  /\ plugged' \subseteq Stick /\ inbox' \in [Stick -> Bundle \cup {NoBundle}]
         /\ outbox' \in [Stick -> Outbox] /\ onStick' \in [Stick -> SUBSET Outbox]
         /\ hasty' \subseteq Stick
  BY DEF TypeOK, Write

\* A bundle has a job and a sequence number of this instance.
LEMMA BundleTyped ==
  ASSUME NEW b \in Bundle
  PROVE  b.job \in Job /\ b.seq \in SeqNo
  BY BundleAssumption DEF SeqNo

\* What a delivery makes of a stick's outbox.
LEMMA OutboxTyped ==
  ASSUME NEW o \in Outbox, NEW l \in Latest
  PROVE  /\ [o EXCEPT !.latest = l] \in Outbox
         /\ [o EXCEPT !.whole = @ \ {l.job}] \in Outbox
         /\ [o EXCEPT !.whole = @ \cup {l.job}] \in Outbox
  BY DEF Outbox, Latest

\* Parts of TypeOK.
SticksTyped == /\ plugged \subseteq Stick /\ inbox \in [Stick -> Bundle \cup {NoBundle}]
               /\ outbox \in [Stick -> Outbox] /\ onStick \in [Stick -> SUBSET Outbox]
               /\ hasty \subseteq Stick
UnitTyped == unit \in [Stick -> Unit] /\ \A t \in Stick : lock = t <=> unit[t] \in Locked

\* Every step has values of the right type.
LEMMA TypedStep ==
  ASSUME IInv, NEW s \in Stick,
         Acts(s)
  PROVE  TypeOK'
  <1>0. TypeOK /\ B(s) \in Bundle \cup {NoBundle}
    BY DEF IInv, TypeOK, B
  <1>1. CASE Passing(s)
    <2> USE DEF Passing, Contend, Begin, MountFails, Refuse, Fresh, Replay, Offer, Accept,
                Confirm2, Press, DispatchRefuses, CommitAgain, ShowTerminal, Cleanup
    <2>1. CASE Acquire(s)
      BY <1>0, <2>1, NullAssumption
         DEF Acquire, Go, TypeOK, sticks, store, Unit, Locked, Running
    <2>2. CASE ~Acquire(s)
      <3>1. UnitTyped'
        BY <1>0, <1>1, <2>2, GoLock DEF Unit, Locked, Running, UnitTyped
      <3> QED  BY <1>0, <1>1, <2>2, <3>1 DEF TypeOK, sticks, store, Show, Led, UnitTyped
    <2> QED  BY <2>1, <2>2
  <1>2. CASE Settling(s)
    <2> USE DEF Settling, Forged, Decline, KitFails, ReplayNoPress, RunThenRaise,
                CommitRaises, DeliverFails, UmountFails, MountRo, WriteKit, Crumb, Finish
    <2>1. UnitTyped'
      BY <1>0, <1>2, GoLock DEF Unit, Locked, Running, UnitTyped
    <2> QED  BY <1>0, <1>2, <2>1 DEF TypeOK, sticks, store, UnitTyped
  <1>3. CASE Deciding(s)
    <2> USE DEF Deciding, NoPress, ReplayPress, Execute
    <2>1. UnitTyped'
      BY <1>0, <1>3, GoLock DEF Unit, Locked, Running, UnitTyped
    <2>2. B(s) \in Bundle /\ (unit[s] = "replayReady" => done[B(s).job] \in Result)
      BY <1>0, <1>3, BundleTyped DEF IInv, BundleInv, InHand, Go, TypeOK
    <2>3. B(s).job \in Job /\ B(s).seq \in SeqNo
      BY <2>2, BundleTyped
    <2>4. told' \in [Stick -> Latest \cup {NoResult}]
      <3>1. CASE NoPress(s)
        <4>1. Will(s, "no_confirmation") \in Latest
          BY <2>3 DEF Will, Latest, Status
        <4> QED  BY <1>0, <3>1, <4>1 DEF TypeOK
      <3>2. CASE ReplayPress(s)
        <4> DEFINE l == [job |-> B(s).job, seq |-> done[B(s).job].seq,
                         status |-> done[B(s).job].status, replayed |-> TRUE]
        <4>1. l \in Latest
          BY <2>2, <2>3, <3>2 DEF Latest, Result, Go
        <4> QED  BY <1>0, <3>2, <4>1 DEF TypeOK
      <3>3. CASE Execute(s)
        <4>1. \A st \in RanStatus : Will(s, st) \in Latest
          BY <2>3 DEF Will, Latest, Status
        <4> QED  BY <1>0, <3>3, <4>1 DEF TypeOK
      <3> QED  BY <1>3, <3>1, <3>2, <3>3
    <2> QED  BY <1>0, <1>3, <2>1, <2>4 DEF TypeOK, sticks, store, UnitTyped, Show, Led
  <1>4. CASE Commit(s)
    <2>1. UnitTyped'
      BY <1>0, <1>4, GoLock DEF Unit, Locked, Running, UnitTyped, Commit
    <2>2. B(s) \in Bundle /\ told[s] \in Latest
      BY <1>0, <1>4 DEF IInv, BundleInv, ToldInv, InHand, Go, Commit
    <2>3. [seq |-> B(s).seq, status |-> told[s].status] \in Result
      BY <2>2, BundleTyped DEF Result, Latest
    <2>4. done' \in [Job -> Result \cup {NoResult}]
      BY <1>0, <1>4, <2>3 DEF Commit, TypeOK
    <2> QED  BY <1>0, <1>4, <2>1, <2>4 DEF TypeOK, sticks, UnitTyped, Commit
  <1>5. CASE Bump(s)
    <2>1. UnitTyped'
      BY <1>0, <1>5, GoLock DEF Unit, Locked, Running, UnitTyped, Bump
    <2>2. B(s) \in Bundle
      BY <1>0, <1>5 DEF IInv, BundleInv, InHand, Go, Bump
    <2>3. seq' \in SeqNo \cup {0} /\ consumed' \subseteq Job
      BY <1>0, <1>5, <2>2, BundleTyped DEF Bump, TypeOK
    <2> QED  BY <1>0, <1>5, <2>1, <2>3 DEF TypeOK, sticks, UnitTyped, Bump
  <1>6. CASE Leaving(s)
    BY <1>0, <1>6, EndsTyped DEF Leaving, ShowBusy, ButtonFault, Exit, Stop, Show, Led, TypeOK
  <1>7. CASE Writing(s)
    <2>1. UnitTyped'
      BY <1>0, <1>7, GoLock DEF Unit, Locked, Running, UnitTyped, Writing, CopyFirst,
         CopyRest, WriteLatest, Sync, Umount, Finish
    <2>2. unit[s] \in Telling => told[s] \in Latest
      BY DEF IInv, ToldInv
    <2>3. SticksTyped'
      <3>1. outbox[s] \in Outbox /\ onStick[s] \in SUBSET Outbox
        BY <1>0 DEF TypeOK
      <3>2. CASE CopyFirst(s)
        <4> DEFINE left == {[o EXCEPT !.whole = @ \ {told[s].job}] : o \in onStick[s]}
        <4>1. told[s] \in Latest /\ Write(s, outbox[s], left)
          BY <2>2, <3>2 DEF CopyFirst, Go, Telling
        <4>2. left \in SUBSET Outbox
          BY <3>1, <4>1, OutboxTyped
        <4> HIDE DEF left
        <4> QED  BY <1>0, <3>1, <4>1, <4>2, WriteTyped DEF SticksTyped
      <3>3. CASE CopyRest(s)
        <4> DEFINE left == {[o EXCEPT !.whole = @ \cup {told[s].job}] : o \in onStick[s]}
                   new == [outbox[s] EXCEPT !.whole = @ \cup {told[s].job}]
        <4>1. told[s] \in Latest /\ Write(s, new, left)
          BY <2>2, <3>3 DEF CopyRest, Go, Telling
        <4>2. left \in SUBSET Outbox /\ new \in Outbox
          BY <3>1, <4>1, OutboxTyped
        <4> HIDE DEF left, new
        <4> QED  BY <1>0, <4>1, <4>2, WriteTyped DEF SticksTyped
      <3>4. CASE WriteLatest(s)
        <4> DEFINE new == [outbox[s] EXCEPT !.latest = told[s]]
        <4>1. told[s] \in Latest /\ Write(s, new, LatestLeft(s))
          BY <2>2, <3>4 DEF WriteLatest, Go, Telling
        <4>2. LatestLeft(s) \in SUBSET Outbox /\ new \in Outbox
          BY <3>1, <4>1, OutboxTyped DEF LatestLeft
        <4> HIDE DEF new
        <4> QED  BY <1>0, <4>1, <4>2, WriteTyped DEF SticksTyped
      <3>5. CASE Sync(s) \/ Umount(s)
        BY <1>0, <3>1, <3>5 DEF SticksTyped, TypeOK, Sync, Umount, WriteBack
      <3> QED  BY <1>7, <3>2, <3>3, <3>4, <3>5 DEF Writing
    <2> QED  BY <1>0, <1>7, <2>1, <2>3 
                DEF TypeOK, SticksTyped, UnitTyped, Finish, store, Writing, CopyFirst,
                    CopyRest, WriteLatest, Sync, Umount
  <1>8. CASE Pull(s)
    BY <1>0, <1>8 DEF Pull, TypeOK, sticks, store
  <1>9. CASE Inserting(s)
    <2> USE DEF Inserting, Insert
    <2>1. UnitTyped'
      BY <1>0, <1>9, GoLock DEF Unit, Locked, Running, UnitTyped
    <2>2. plugged' \subseteq Stick /\ inbox' \in [Stick -> Bundle \cup {NoBundle}]
      BY <1>0, <1>9, CarriesAssumption DEF TypeOK
    <2> QED  BY <1>0, <1>9, <2>1, <2>2 DEF TypeOK, sticks, store, UnitTyped
  <1> QED  BY <1>1, <1>2, <1>3, <1>4, <1>5, <1>6, <1>7, <1>8, <1>9, StepKinds

-----------------------------------------------------------------------------
(* What each instance has established.                                     *)

Grows == \A j \in Job : done[j] # NoResult => done'[j] = done[j]
\* commit() sets the result of a job without one (commitlog.commit).
LEMMA StoreGrows ==
  ASSUME TypeOK, NEW s \in Stick, Acts(s)
  PROVE  Grows
  <1>1. CASE Passing(s)
    BY <1>1
       DEF TypeOK, Grows, sticks, store, Passing, Contend, Begin, MountFails, Refuse, Fresh,
           Replay, Offer, Accept, Confirm2, Press, DispatchRefuses, CommitAgain, ShowTerminal,
           Cleanup, Acquire
  <1>2. CASE Settling(s)
    BY <1>2
       DEF TypeOK, Grows, sticks, store, Settling, Forged, Decline, KitFails, ReplayNoPress,
           RunThenRaise, CommitRaises, DeliverFails, UmountFails, MountRo, WriteKit, Crumb,
           Finish
  <1>3. CASE Deciding(s)
    BY <1>3 DEF TypeOK, Grows, sticks, store, Deciding, NoPress, ReplayPress, Execute
  <1>4. CASE Commit(s)
    BY <1>4 DEF TypeOK, Grows, sticks, store, Commit
  <1>5. CASE Bump(s)
    BY <1>5 DEF TypeOK, Grows, sticks, store, Bump
  <1>6. CASE Leaving(s)
    BY <1>6 DEF TypeOK, Grows, sticks, store, Leaving, ShowBusy, ButtonFault, Exit, Stop, Ends
  <1>7. CASE Writing(s)
    BY <1>7
       DEF TypeOK, Grows, sticks, store, Writing, CopyFirst, CopyRest, WriteLatest, Sync, Umount, WriteBack, Write, Finish
  <1>8. CASE Pull(s)
    BY <1>8 DEF TypeOK, Grows, sticks, store, Pull
  <1>9. CASE Inserting(s)
    BY <1>9 DEF TypeOK, Grows, sticks, store, Inserting, Insert
  <1> QED  BY <1>1, <1>2, <1>3, <1>4, <1>5, <1>6, <1>7, <1>8, <1>9, StepKinds

\* A bundle in hand is kept until the process ends (_process_mounted, _run_locked).
LEMMA BundleStep ==
  ASSUME IInv, NEW s \in Stick, Acts(s), NEW t \in Stick
  PROVE  BundleInv(t)'
  <1>1. TypeOK /\ BundleInv(t) /\ ToldInv(t) /\ StickInv(t) /\ MountInv(t) /\ LedInv(t)
    BY DEF IInv
  <1>2. CASE t # s
    BY <1>1, <1>2, OthersKeep, StoreGrows, BundleTyped
       DEF Same, Grows, BundleInv, TypeOK, B, InHand
  <1>3. CASE t = s
    <2>1. CASE Passing(s)
      BY <2>1, <1>1, <1>3, NullAssumption, BundleTyped
         DEF TypeOK, sticks, store, Go, BundleInv, ToldInv, B, InHand, Passes, Verified,
             InScope, Passing, Contend, Begin, MountFails, Refuse, Fresh, Replay, Offer, Accept,
             Confirm2, Press, DispatchRefuses, CommitAgain, ShowTerminal, Cleanup, Acquire
    <2>2. CASE Settling(s)
      BY <2>2, <1>1, <1>3, NullAssumption, BundleTyped
         DEF TypeOK, sticks, store, Go, BundleInv, ToldInv, B, InHand, Passes, Verified,
             InScope, Settling, Forged, Decline, KitFails, ReplayNoPress, RunThenRaise,
             CommitRaises, DeliverFails, UmountFails, MountRo, WriteKit, Crumb, Finish
    <2>3. CASE Deciding(s)
      BY <2>3, <1>1, <1>3, NullAssumption, BundleTyped
         DEF TypeOK, sticks, store, Go, BundleInv, ToldInv, B, InHand, Passes, Verified,
             InScope, Deciding, NoPress, ReplayPress, Execute
    <2>4. CASE Commit(s)
      BY <2>4, <1>1, <1>3, NullAssumption, BundleTyped
         DEF TypeOK, sticks, store, Go, BundleInv, ToldInv, B, InHand, Passes, Verified,
             InScope, Commit
    <2>5. CASE Bump(s)
      BY <2>5, <1>1, <1>3, NullAssumption, BundleTyped
         DEF TypeOK, sticks, store, Go, BundleInv, ToldInv, B, InHand, Passes, Verified,
             InScope, Bump
    <2>6. CASE Leaving(s)
      BY <2>6, <1>1, <1>3, NullAssumption, BundleTyped
         DEF TypeOK, sticks, store, Go, BundleInv, ToldInv, B, InHand, Passes, Verified,
             InScope, Leaving, ShowBusy, ButtonFault, Exit, Stop, Ends
    <2>7. CASE Writing(s)
      BY <2>7, <1>1, <1>3, NullAssumption, BundleTyped
         DEF TypeOK, sticks, store, Go, BundleInv, ToldInv, B, InHand, Passes, Verified,
             InScope, Writing, CopyFirst, CopyRest, WriteLatest, Sync, Umount, WriteBack, Write,
             Finish
    <2>8. CASE Pull(s)
      BY <2>8, <1>1, <1>3, NullAssumption, BundleTyped
         DEF TypeOK, sticks, store, Go, BundleInv, ToldInv, B, InHand, Passes, Verified,
             InScope, Pull
    <2>9. CASE Inserting(s)
      BY <2>9, <1>1, <1>3, NullAssumption, BundleTyped
         DEF TypeOK, sticks, store, Go, BundleInv, ToldInv, B, InHand, Passes, Verified,
             InScope, Inserting, Insert
    <2> QED  BY <2>1, <2>2, <2>3, <2>4, <2>5, <2>6, <2>7, <2>8, <2>9, StepKinds
  <1> QED  BY <1>2, <1>3

\* Commit before delivery (_run_locked, _replay).
LEMMA ToldStep ==
  ASSUME IInv, NEW s \in Stick, Acts(s), NEW t \in Stick
  PROVE  ToldInv(t)'
  <1>1. TypeOK /\ BundleInv(t) /\ ToldInv(t) /\ StickInv(t) /\ MountInv(t) /\ LedInv(t)
    BY DEF IInv
  <1>2. CASE t # s
    BY <1>1, <1>2, OthersKeep, StoreGrows, BundleTyped
       DEF Same, Grows, ToldInv, TypeOK, B, Latest, Recorded, BundleInv, InHand
  <1>3. CASE t = s
    <2>1. CASE Passing(s)
      BY <2>1, <1>1, <1>3, NullAssumption, BundleTyped
         DEF TypeOK, sticks, store, Go, ToldInv, BundleInv, B, InHand, Untold, Telling, Latest,
             Recorded, Result, Passing, Contend, Begin, MountFails, Refuse, Fresh, Replay,
             Offer, Accept, Confirm2, Press, DispatchRefuses, CommitAgain, ShowTerminal,
             Cleanup, Acquire
    <2>2. CASE Settling(s)
      BY <2>2, <1>1, <1>3, NullAssumption, BundleTyped
         DEF TypeOK, sticks, store, Go, ToldInv, BundleInv, B, InHand, Untold, Telling, Latest,
             Recorded, Result, Settling, Forged, Decline, KitFails, ReplayNoPress, RunThenRaise,
             CommitRaises, DeliverFails, UmountFails, MountRo, WriteKit, Crumb, Finish
    <2>3. CASE Deciding(s)
      <3>1. B(s) \in Bundle /\ B(s).job \in Job /\ B(s).seq \in SeqNo /\ inbox' = inbox
        BY <2>3, <1>1, <1>3, BundleTyped
           DEF BundleInv, InHand, Go, sticks, Deciding, NoPress, ReplayPress, Execute
      <3>2. CASE NoPress(s)
        BY <3>1, <3>2, <1>1, <1>3
           DEF TypeOK, ToldInv, Untold, Telling, Latest, Will, Status, B, Go, NoPress
      <3>3. CASE ReplayPress(s)
        BY <3>1, <3>3, <1>1, <1>3
           DEF TypeOK, BundleInv, ToldInv, Recorded, Untold, Telling, Latest, Result, B, Go,
               store, ReplayPress
      <3>4. CASE Execute(s)
        BY <3>1, <3>4, <1>1, <1>3
           DEF TypeOK, ToldInv, Untold, Telling, Latest, Will, Status, B, Go, Execute
      <3> QED  BY <2>3, <3>2, <3>3, <3>4 DEF Deciding
    <2>4. CASE Commit(s)
      BY <2>4, <1>1, <1>3, NullAssumption, BundleTyped
         DEF TypeOK, sticks, store, Go, ToldInv, BundleInv, B, InHand, Untold, Telling, Latest,
             Recorded, Result, Commit
    <2>5. CASE Bump(s)
      BY <2>5, <1>1, <1>3, NullAssumption, BundleTyped
         DEF TypeOK, sticks, store, Go, ToldInv, BundleInv, B, InHand, Untold, Telling, Latest,
             Recorded, Result, Bump
    <2>6. CASE Leaving(s)
      BY <2>6, <1>1, <1>3, NullAssumption, BundleTyped
         DEF TypeOK, sticks, store, Go, ToldInv, BundleInv, B, InHand, Untold, Telling, Latest,
             Recorded, Result, Leaving, ShowBusy, ButtonFault, Exit, Stop, Ends
    <2>7. CASE Writing(s)
      BY <2>7, <1>1, <1>3, NullAssumption, BundleTyped
         DEF TypeOK, sticks, store, Go, ToldInv, BundleInv, B, InHand, Untold, Telling, Latest,
             Recorded, Result, Writing, CopyFirst, CopyRest, WriteLatest, Sync,
             Umount, WriteBack, Write, Finish
    <2>8. CASE Pull(s)
      BY <2>8, <1>1, <1>3, NullAssumption, BundleTyped
         DEF TypeOK, sticks, store, Go, ToldInv, BundleInv, B, InHand, Untold, Telling, Latest,
             Recorded, Result, Pull
    <2>9. CASE Inserting(s)
      BY <2>9, <1>1, <1>3, NullAssumption, BundleTyped
         DEF TypeOK, sticks, store, Go, ToldInv, BundleInv, B, InHand, Untold, Telling, Latest,
             Recorded, Result, Inserting, Insert
    <2> QED  BY <2>1, <2>2, <2>3, <2>4, <2>5, <2>6, <2>7, <2>8, <2>9, StepKinds
  <1> QED  BY <1>2, <1>3

\* A write of what the store backs.
LEMMA WriteBacked ==
  ASSUME TypeOK, NEW s \in Stick, StickInv(s), NEW o, NEW left, Write(s, o, left),
         o \in left \cup onStick[s], \A x \in left : Backed(x),
         \A x \in onStick[s] : Backed(x) => Backed(x)', \A x \in left : Backed(x) => Backed(x)'
  PROVE  /\ outbox'[s] = o /\ o \in onStick'[s] /\ \A x \in onStick'[s] : Backed(x)'
         /\ s \in plugged' /\ s \in plugged /\ (s \in hasty' <=> s \in hasty)
  BY DEF TypeOK, StickInv, Write

\* Files first, then LATEST.json, then sync (_deliver).
LEMMA StickStep ==
  ASSUME IInv, NEW s \in Stick, Acts(s), NEW t \in Stick
  PROVE  StickInv(t)'
  <1>1. TypeOK /\ ToldInv(t) /\ StickInv(t)
    BY DEF IInv
  <1>2. \A o \in Outbox : Backed(o) => Backed(o)'
    BY <1>1, StoreGrows DEF Backed, Recorded, Grows, Outbox, Latest
  <1>3. CASE t # s
    BY <1>1, <1>2, <1>3, OthersKeep DEF Same, StickInv, Complete, TypeOK
  <1>4. CASE t = s
    <2>1. CASE Passing(s)
      BY <2>1, <1>1, <1>2, <1>4
         DEF TypeOK, sticks, Go, StickInv, ToldInv, Untold, Passing, Contend, Begin, MountFails,
             Refuse, Fresh, Replay, Offer, Accept, Confirm2, Press, DispatchRefuses,
             CommitAgain, ShowTerminal, Cleanup, Acquire
    <2>2. CASE Settling(s)
      BY <2>2, <1>1, <1>2, <1>4
         DEF TypeOK, sticks, Go, StickInv, ToldInv, Untold, Settling, Forged, Decline, KitFails,
             ReplayNoPress, RunThenRaise, CommitRaises, DeliverFails, UmountFails, MountRo,
             WriteKit, Crumb, Finish
    <2>3. CASE Deciding(s)
      BY <2>3, <1>1, <1>2, <1>4
         DEF TypeOK, sticks, Go, StickInv, ToldInv, Untold, Deciding, NoPress, ReplayPress,
             Execute
    <2>4. CASE Commit(s)
      BY <2>4, <1>1, <1>2, <1>4 DEF TypeOK, sticks, Go, StickInv, ToldInv, Untold, Commit
    <2>5. CASE Bump(s)
      BY <2>5, <1>1, <1>2, <1>4 DEF TypeOK, sticks, Go, StickInv, ToldInv, Untold, Bump
    <2>6. CASE Leaving(s)
      BY <2>6, <1>1, <1>2, <1>4
         DEF TypeOK, sticks, Go, StickInv, ToldInv, Untold, Leaving, ShowBusy, ButtonFault,
             Exit, Stop, Ends
    <2>7. CASE Writing(s)
      <3>1. /\ unit[s] \in Telling => told[s] \in Latest /\ Recorded(told[s])
            /\ outbox[s] \in Outbox /\ onStick[s] \in SUBSET Outbox /\ done' = done
            /\ s \notin hasty => Complete(outbox[s])
            /\ outbox[s] \in onStick[s] /\ \A o \in onStick[s] : Backed(o)
        BY <2>7, <1>1, <1>4
           DEF ToldInv, StickInv, TypeOK, store, Writing, CopyFirst, CopyRest, WriteLatest,
               Sync, Umount
      <3>2. CASE CopyFirst(s)
        <4> DEFINE left == {[o EXCEPT !.whole = @ \ {told[s].job}] : o \in onStick[s]}
        <4>1. \A o \in left : Backed(o) /\ Backed(o)'
          <5>1. \A o \in left : \E x \in onStick[s] : o.latest = x.latest
            BY <3>1 DEF Outbox
          <5> HIDE DEF left
          <5> QED  BY <3>1, <5>1 DEF Backed, Recorded
        <4>2. /\ Write(s, outbox[s], left) /\ unit'[s] = "copy"
              /\ outbox[s] \in left \cup onStick[s] /\ unit[s] = "deliver"
          BY <1>1, <3>1, <3>2 DEF CopyFirst, Go, TypeOK
        <4>3. \A o \in onStick[s] : Backed(o) => Backed(o)'
          BY <3>1 DEF Backed, Recorded
        <4> HIDE DEF left
        <4>4. /\ outbox'[s] = outbox[s] /\ outbox[s] \in onStick'[s]
              /\ \A o \in onStick'[s] : Backed(o)' /\ (s \in hasty' <=> s \in hasty)
          BY <1>1, <1>4, <4>1, <4>2, <4>3, WriteBacked
        <4> QED  BY <1>4, <3>1, <4>2, <4>4 DEF StickInv, Complete
      <3>3. CASE CopyRest(s)
        <4> DEFINE left == {[o EXCEPT !.whole = @ \cup {told[s].job}] : o \in onStick[s]}
                   new == [outbox[s] EXCEPT !.whole = @ \cup {told[s].job}]
        <4>1. \A o \in left : Backed(o) /\ Backed(o)'
          <5>1. \A o \in left : \E x \in onStick[s] : o.latest = x.latest
            BY <3>1 DEF Outbox
          <5> HIDE DEF left
          <5> QED  BY <3>1, <5>1 DEF Backed, Recorded
        <4>2. /\ Write(s, new, left) /\ unit'[s] = "latest" /\ told' = told
              /\ new \in left \cup onStick[s] /\ unit[s] = "copy"
          BY <1>1, <3>1, <3>3 DEF CopyRest, Go, TypeOK
        <4>3. /\ new.latest = outbox[s].latest /\ told[s].job \in new.whole
              /\ outbox[s].whole \subseteq new.whole
          BY <3>1 DEF Outbox
        <4>4. \A o \in onStick[s] : Backed(o) => Backed(o)'
          BY <3>1 DEF Backed, Recorded
        <4> HIDE DEF left, new
        <4>5. /\ outbox'[s] = new /\ new \in onStick'[s]
              /\ \A o \in onStick'[s] : Backed(o)' /\ (s \in hasty' <=> s \in hasty)
          BY <1>1, <1>4, <4>1, <4>2, <4>4, WriteBacked
        <4> QED  BY <1>4, <3>1, <4>2, <4>3, <4>5 DEF StickInv, Complete
      <3>4. CASE WriteLatest(s)
        <4> DEFINE new == [outbox[s] EXCEPT !.latest = told[s]]
        <4>1. /\ Write(s, new, LatestLeft(s)) /\ told' = told /\ unit[s] = "latest"
              /\ unit'[s] = "sync" /\ s \in plugged
          BY <1>1, <3>4 DEF WriteLatest, Go, Write, TypeOK
        <4>2. told[s] \in Latest /\ Recorded(told[s]) /\ told[s].job \in outbox[s].whole
          BY <1>1, <1>4, <3>1, <4>1 DEF StickInv, Telling
        <4>3. \A o \in LatestLeft(s) : Backed(o) /\ Backed(o)'
          BY <3>1, <4>1, <4>2 DEF LatestLeft, Backed, Recorded, Outbox
        <4>4. /\ new.latest = told[s] /\ new.whole = outbox[s].whole
              /\ new \in LatestLeft(s) \cup onStick[s]
          BY <3>1 DEF Outbox, LatestLeft
        <4>5. \A o \in onStick[s] : Backed(o) => Backed(o)'
          BY <3>1 DEF Backed, Recorded
        <4> HIDE DEF new
        <4>6. /\ outbox'[s] = new /\ new \in onStick'[s]
              /\ \A o \in onStick'[s] : Backed(o)' /\ (s \in hasty' <=> s \in hasty)
          BY <1>1, <1>4, <4>1, <4>3, <4>4, <4>5, WriteBacked
        <4> QED  BY <1>4, <3>1, <4>1, <4>2, <4>4, <4>6 DEF StickInv, Complete
      <3>5. CASE Sync(s) \/ Umount(s)
        <4>1. /\ onStick'[s] = {outbox[s]} /\ outbox' = outbox /\ plugged' = plugged
              /\ hasty' = hasty /\ told' = told
          BY <1>1, <3>5 DEF Sync, Umount, WriteBack, TypeOK
        <4>2. \/ unit[s] = "sync" /\ unit'[s] = "umount"
              \/ unit[s] = "umount" /\ unit'[s] = "show" /\ ok' = ok
          BY <1>1, <3>5 DEF Sync, Umount, Finish, Go, TypeOK
        <4>3. Backed(outbox[s])'
          BY <3>1, <4>1 DEF Backed, Recorded
        <4> QED  BY <1>1, <1>4, <3>1, <4>1, <4>2, <4>3 DEF StickInv, Complete
      <3> QED  BY <2>7, <3>2, <3>3, <3>4, <3>5 DEF Writing
    <2>8. CASE Pull(s)
      BY <2>8, <1>1, <1>2, <1>4 DEF TypeOK, sticks, Go, StickInv, Complete, ToldInv, Untold,
                                        Pull
    <2>9. CASE Inserting(s)
      BY <2>9, <1>1, <1>2, <1>4
         DEF TypeOK, sticks, Go, StickInv, ToldInv, Untold, Inserting, Insert
    <2> QED  BY <2>1, <2>2, <2>3, <2>4, <2>5, <2>6, <2>7, <2>8, <2>9, StepKinds
  <1> QED  BY <1>3, <1>4

\* A mount is under the lock, until umount (_finish).
LEMMA MountStep ==
  ASSUME IInv, NEW s \in Stick, Acts(s), NEW t \in Stick
  PROVE  MountInv(t)'
  <1>1. TypeOK /\ BundleInv(t) /\ ToldInv(t) /\ StickInv(t) /\ MountInv(t) /\ LedInv(t)
    BY DEF IInv
  <1>2. CASE t # s
    BY <1>1, <1>2, OthersKeep, StoreGrows DEF Same, Grows, MountInv, TypeOK
  <1>3. CASE t = s
    <2>1. CASE Passing(s)
      BY <2>1, <1>1, <1>3
         DEF TypeOK, sticks, store, Go, MountInv, Mounted, Locked, Passing, Contend, Begin,
             MountFails, Refuse, Fresh, Replay, Offer, Accept, Confirm2, Press, DispatchRefuses,
             CommitAgain, ShowTerminal, Cleanup, Acquire
    <2>2. CASE Settling(s)
      BY <2>2, <1>1, <1>3
         DEF TypeOK, sticks, store, Go, MountInv, Mounted, Locked, Settling, Forged, Decline,
             KitFails, ReplayNoPress, RunThenRaise, CommitRaises, DeliverFails, UmountFails,
             MountRo, WriteKit, Crumb, Finish
    <2>3. CASE Deciding(s)
      BY <2>3, <1>1, <1>3
         DEF TypeOK, sticks, store, Go, MountInv, Mounted, Locked, Deciding, NoPress,
             ReplayPress, Execute
    <2>4. CASE Commit(s)
      BY <2>4, <1>1, <1>3 DEF TypeOK, sticks, store, Go, MountInv, Mounted, Locked, Commit
    <2>5. CASE Bump(s)
      BY <2>5, <1>1, <1>3 DEF TypeOK, sticks, store, Go, MountInv, Mounted, Locked, Bump
    <2>6. CASE Leaving(s)
      BY <2>6, <1>1, <1>3
         DEF TypeOK, sticks, store, Go, MountInv, Mounted, Locked, Leaving, ShowBusy,
             ButtonFault, Exit, Stop, Ends
    <2>7. CASE Writing(s)
      BY <2>7, <1>1, <1>3
         DEF TypeOK, sticks, store, Go, MountInv, Mounted, Locked, Writing, CopyFirst, CopyRest,
             WriteLatest, Sync, Umount, WriteBack, Write, Finish
    <2>8. CASE Pull(s)
      BY <2>8, <1>1, <1>3 DEF TypeOK, sticks, store, Go, MountInv, Mounted, Locked, Pull
    <2>9. CASE Inserting(s)
      BY <2>9, <1>1, <1>3
         DEF TypeOK, sticks, store, Go, MountInv, Mounted, Locked, Inserting, Insert
    <2> QED  BY <2>1, <2>2, <2>3, <2>4, <2>5, <2>6, <2>7, <2>8, <2>9, StepKinds
  <1> QED  BY <1>2, <1>3

\* Only the holder of the lock lights SAFE_REMOVE, and VERIFYING puts it out.
LEMMA LedStep ==
  ASSUME IInv, NEW s \in Stick, Acts(s), NEW t \in Stick
  PROVE  LedInv(t)'
  <1>1. TypeOK /\ LedInv(s) /\ LedInv(t)
    BY DEF IInv
  <1>2. CASE t # s
    <2>1. /\ unit'[t] = unit[t] /\ ok'[t] = ok[t]
          /\ lock = t <=> unit[t] \in Locked
          /\ lock = s <=> unit[s] \in Locked
      BY <1>1, <1>2, OthersKeep DEF Same, TypeOK
    <2>2. unit[t] \in Locked => led' = led \/ led' # "SAFE_REMOVE"
      <3>1. CASE Passing(s)
        BY <3>1, <1>2, <2>1, NullAssumption
           DEF Locked, Go, Show, Passing, Contend, Begin, MountFails, Refuse, Fresh, Replay,
               Offer, Accept, Confirm2, Press, DispatchRefuses, CommitAgain, ShowTerminal,
               Cleanup, Acquire
      <3>2. CASE Settling(s)
        BY <3>2, <1>2, <2>1, NullAssumption
           DEF Locked, Go, Show, Settling, Forged, Decline, KitFails, ReplayNoPress,
               RunThenRaise, CommitRaises, DeliverFails, UmountFails, MountRo, WriteKit, Crumb,
               Finish
      <3>3. CASE Deciding(s)
        BY <3>3, <1>2, <2>1, NullAssumption
           DEF Locked, Go, Show, Deciding, NoPress, ReplayPress, Execute
      <3>4. CASE Commit(s)
        BY <3>4, <1>2, <2>1, NullAssumption DEF Locked, Go, Show, Commit
      <3>5. CASE Bump(s)
        BY <3>5, <1>2, <2>1, NullAssumption DEF Locked, Go, Show, Bump
      <3>6. CASE Leaving(s)
        BY <3>6, <1>2, <2>1, NullAssumption
           DEF Locked, Go, Show, Leaving, ShowBusy, ButtonFault, Exit, Stop, Ends
      <3>7. CASE Writing(s)
        BY <3>7, <1>2, <2>1, NullAssumption
           DEF Locked, Go, Show, Writing, CopyFirst, CopyRest, WriteLatest, Sync,
               Umount, WriteBack, Write, Finish
      <3>8. CASE Pull(s)
        BY <3>8, <1>2, <2>1, NullAssumption DEF Locked, Go, Show, Pull
      <3>9. CASE Inserting(s)
        BY <3>9, <1>2, <2>1, NullAssumption DEF Locked, Go, Show, Inserting, Insert
      <3> QED  BY <3>1, <3>2, <3>3, <3>4, <3>5, <3>6, <3>7, <3>8, <3>9, StepKinds
    <2> QED  BY <1>1, <2>1, <2>2 DEF LedInv
  <1>3. CASE t = s
    <2>1. CASE Passing(s)
      BY <2>1, <1>1, <1>3
         DEF TypeOK, Go, Show, LedInv, Locked, Passing, Contend, Begin, MountFails, Refuse,
             Fresh, Replay, Offer, Accept, Confirm2, Press, DispatchRefuses, CommitAgain,
             ShowTerminal, Cleanup, Acquire
    <2>2. CASE Settling(s)
      BY <2>2, <1>1, <1>3
         DEF TypeOK, Go, Show, LedInv, Locked, Settling, Forged, Decline, KitFails,
             ReplayNoPress, RunThenRaise, CommitRaises, DeliverFails, UmountFails, MountRo,
             WriteKit, Crumb, Finish
    <2>3. CASE Deciding(s)
      BY <2>3, <1>1, <1>3
         DEF TypeOK, Go, Show, LedInv, Locked, Deciding, NoPress, ReplayPress, Execute
    <2>4. CASE Commit(s)
      BY <2>4, <1>1, <1>3 DEF TypeOK, Go, Show, LedInv, Locked, Commit
    <2>5. CASE Bump(s)
      BY <2>5, <1>1, <1>3 DEF TypeOK, Go, Show, LedInv, Locked, Bump
    <2>6. CASE Leaving(s)
      BY <2>6, <1>1, <1>3
         DEF TypeOK, Go, Show, LedInv, Locked, Leaving, ShowBusy, ButtonFault, Exit, Stop, Ends
    <2>7. CASE Writing(s)
      BY <2>7, <1>1, <1>3
         DEF TypeOK, Go, Show, LedInv, Locked, Writing, CopyFirst, CopyRest, WriteLatest,
             Sync, Umount, WriteBack, Write, Finish
    <2>8. CASE Pull(s)
      BY <2>8, <1>1, <1>3 DEF TypeOK, Go, Show, LedInv, Locked, Pull
    <2>9. CASE Inserting(s)
      BY <2>9, <1>1, <1>3 DEF TypeOK, Go, Show, LedInv, Locked, Inserting, Insert
    <2> QED  BY <2>1, <2>2, <2>3, <2>4, <2>5, <2>6, <2>7, <2>8, <2>9, StepKinds
  <1> QED  BY <1>2, <1>3

\* SAFE_REMOVE comes after umount, and nothing is mounted under it.
LEMMA UnmountedStep ==
  ASSUME IInv, NEW s \in Stick, Acts(s)
  PROVE  SafeRemoveMeansUnmounted'
  <1>1. TypeOK /\ SafeRemoveMeansUnmounted /\ LedInv(s)
    BY DEF IInv
  <1>2. CASE ShowTerminal(s)
    <2>1. \A t \in Stick : MountInv(t) /\ (lock = t <=> unit[t] \in Locked)
      BY <1>1 DEF IInv, TypeOK
    <2> QED  BY <1>1, <1>2, <2>1 
                DEF ShowTerminal, TypeOK, Go, Show, SafeRemoveMeansUnmounted, MountInv, Mounted,
                    Locked
  <1>3. CASE ~ShowTerminal(s)
    <2>1. CASE Passing(s)
      BY <2>1, <1>1, <1>3
         DEF TypeOK, sticks, Go, Show, LedInv, SafeRemoveMeansUnmounted, Locked, Passing,
             Contend, Begin, MountFails, Refuse, Fresh, Replay, Offer, Accept, Confirm2, Press,
             DispatchRefuses, CommitAgain, ShowTerminal, Cleanup, Acquire
    <2>2. CASE Settling(s)
      BY <2>2, <1>1, <1>3
         DEF TypeOK, sticks, Go, Show, LedInv, SafeRemoveMeansUnmounted, Locked, Settling,
             Forged, Decline, KitFails, ReplayNoPress, RunThenRaise, CommitRaises, DeliverFails,
             UmountFails, MountRo, WriteKit, Crumb, Finish
    <2>3. CASE Deciding(s)
      BY <2>3, <1>1, <1>3
         DEF TypeOK, sticks, Go, Show, LedInv, SafeRemoveMeansUnmounted, Locked, Deciding,
             NoPress, ReplayPress, Execute
    <2>4. CASE Commit(s)
      BY <2>4, <1>1, <1>3
         DEF TypeOK, sticks, Go, Show, LedInv, SafeRemoveMeansUnmounted, Locked, Commit
    <2>5. CASE Bump(s)
      BY <2>5, <1>1, <1>3
         DEF TypeOK, sticks, Go, Show, LedInv, SafeRemoveMeansUnmounted, Locked, Bump
    <2>6. CASE Leaving(s)
      BY <2>6, <1>1, <1>3
         DEF TypeOK, sticks, Go, Show, LedInv, SafeRemoveMeansUnmounted, Locked, Leaving,
             ShowBusy, ButtonFault, Exit, Stop, Ends
    <2>7. CASE Writing(s)
      BY <2>7, <1>1, <1>3
         DEF TypeOK, sticks, Go, Show, LedInv, SafeRemoveMeansUnmounted, Locked, Writing,
             CopyFirst, CopyRest, WriteLatest, Sync, Umount, WriteBack, Write, Finish
    <2>8. CASE Pull(s)
      BY <2>8, <1>1, <1>3
         DEF TypeOK, sticks, Go, Show, LedInv, SafeRemoveMeansUnmounted, Locked, Pull
    <2>9. CASE Inserting(s)
      BY <2>9, <1>1, <1>3
         DEF TypeOK, sticks, Go, Show, LedInv, SafeRemoveMeansUnmounted, Locked, Inserting,
             Insert
    <2> QED  BY <2>1, <2>2, <2>3, <2>4, <2>5, <2>6, <2>7, <2>8, <2>9, StepKinds
  <1> QED  BY <1>2, <1>3

-----------------------------------------------------------------------------
(* The theorems.                                                           *)

\* The invariant holds at first ...
LEMMA InvInit == Init => IInv
  <1> SUFFICES ASSUME Init PROVE IInv
    OBVIOUS
  <1>1. SafeRemoveMeansUnmounted /\ \A s \in Stick : MountInv(s) /\ LedInv(s)
    BY DEF Init, SafeRemoveMeansUnmounted, MountInv, LedInv
  <1>2. \A s \in Stick : BundleInv(s) /\ ToldInv(s)
    BY DEF Init, BundleInv, ToldInv, InHand, Untold, Telling
  <1>3. \A s \in Stick : StickInv(s)
    <2>1. Backed(EmptyOutbox) /\ Complete(EmptyOutbox) /\ EmptyOutbox \in Outbox
      BY DEF Backed, Complete, EmptyOutbox, Outbox
    <2> QED  BY <2>1 DEF Init, StickInv
  <1> QED  BY <1>1, <1>2, <1>3, TypedInit DEF IInv

\* ... and every step keeps it.
LEMMA InvStep == IInv /\ [Next]_vars => IInv'
  <1>1. ASSUME IInv, Next PROVE IInv'
    <2>1. PICK s \in Stick : Acts(s)
      BY <1>1 DEF Next, Acts
    <2> QED  BY <1>1, <2>1, TypedStep, BundleStep, ToldStep, StickStep, MountStep, LedStep,
                UnmountedStep DEF IInv
  <1>2. ASSUME IInv, UNCHANGED vars PROVE IInv'
    BY <1>2 DEF IInv, TypeOK, vars, sticks, store, BundleInv, ToldInv, StickInv, MountInv,
       LedInv, B, Recorded, Backed, Complete, SafeRemoveMeansUnmounted
  <1> QED  BY <1>1, <1>2

\* The inductive invariant of the box's runs, for any sticks, jobs and bundles.
THEOREM RunInvariant == Spec => []IInv
  BY InvInit, InvStep, PTL DEF Spec

\* Type correctness; the lock is the one of the instance whose step is under it.
THEOREM TypeCorrect == Spec => []TypeOK
  <1>1. IInv => TypeOK
    BY DEF IInv
  <1> QED  BY <1>1, RunInvariant, PTL

\* SAFE_REMOVE is never lit while a stick is mounted (_finish).
THEOREM SafeRemoveMeansUnmountedHolds == Spec => []SafeRemoveMeansUnmounted
  <1>1. IInv => SafeRemoveMeansUnmounted
    BY DEF IInv
  <1> QED  BY <1>1, RunInvariant, PTL

\* SAFE_REMOVE after a job: its result is on the stick for good (_deliver, _finish).
THEOREM SafeRemoveMeansDeliveredHolds == Spec => []SafeRemoveMeansDelivered
  <1>1. IInv => SafeRemoveMeansDelivered
    <2> SUFFICES ASSUME IInv, NEW s \in plugged, unit[s] = "exit", led = "SAFE_REMOVE",
                        told[s] # NoResult
                 PROVE  onStick[s] = {outbox[s]} /\ outbox[s].latest = told[s]
      BY DEF SafeRemoveMeansDelivered
    <2>1. s \in Stick /\ StickInv(s) /\ LedInv(s)
      BY DEF IInv, TypeOK
    <2> QED  BY <2>1 DEF StickInv, LedInv, Locked
  <1> QED  BY <1>1, RunInvariant, PTL

\* Whatever a pull leaves on a stick is backed by the store, and complete unless
\* it was pulled before its delivery had been synced (_deliver_and_finish, _replay).
THEOREM LatestIsBackedHolds == Spec => []LatestIsBacked
  <1>1. IInv => LatestIsBacked
    BY DEF IInv, StickInv, Backed, Complete, Recorded, LatestIsBacked
  <1> QED  BY <1>1, RunInvariant, PTL

\* The bundles whose handler may be run.
Authorised(b) ==
    /\ b.wellFormed
    /\ b.signer = "operator" \/ (b.signer = "breakglass" /\ b.op = "rotate-job-signers")
    /\ b.op = "privileged" => b.signer = "operator" /\ b.cosigned

\* The steps that execute a handler.
LEMMA RunsAreAuthorised ==
  ASSUME IInv, NEW s \in Stick, Acts(s), NEW t \in Stick,
         unit[t] = "dispatch", unit'[t] \in {"commit", "umount"}
  PROVE  Authorised(B(t))
  <1>1. TypeOK /\ BundleInv(t)
    BY DEF IInv
  <1>2. t = s
    BY <1>1, OthersKeep DEF Same
  <1>3. CASE Execute(s) \/ RunThenRaise(s)
    BY <1>1, <1>2, <1>3, BundleAssumption
       DEF Execute, RunThenRaise, Finish, Go, Runnable, BundleInv, InHand, Verified, InScope,
           Authorised
  <1>4. CASE ~(Execute(s) \/ RunThenRaise(s))
    <2>1. CASE Passing(s)
      BY <2>1, <1>4, <1>1, <1>2
         DEF Go, TypeOK, Passing, Contend, Begin, MountFails, Refuse, Fresh, Replay, Offer,
             Accept, Confirm2, Press, DispatchRefuses, CommitAgain, ShowTerminal, Cleanup,
             Acquire
    <2>2. CASE Settling(s)
      BY <2>2, <1>4, <1>1, <1>2
         DEF Go, TypeOK, Settling, Forged, Decline, KitFails, ReplayNoPress, RunThenRaise,
             CommitRaises, DeliverFails, UmountFails, MountRo, WriteKit, Crumb, Finish
    <2>3. CASE Deciding(s)
      BY <2>3, <1>4, <1>1, <1>2 DEF Go, TypeOK, Deciding, NoPress, ReplayPress, Execute
    <2>4. CASE Commit(s)
      BY <2>4, <1>4, <1>1, <1>2 DEF Go, TypeOK, Commit
    <2>5. CASE Bump(s)
      BY <2>5, <1>4, <1>1, <1>2 DEF Go, TypeOK, Bump
    <2>6. CASE Leaving(s)
      BY <2>6, <1>4, <1>1, <1>2 DEF Go, TypeOK, Leaving, ShowBusy, ButtonFault, Exit, Stop, Ends
    <2>7. CASE Writing(s)
      BY <2>7, <1>4, <1>1, <1>2
         DEF Go, TypeOK, Writing, CopyFirst, CopyRest, WriteLatest, Sync, Umount, WriteBack,
             Write, Finish
    <2>8. CASE Pull(s)
      BY <2>8, <1>4, <1>1, <1>2 DEF Go, TypeOK, Pull
    <2>9. CASE Inserting(s)
      BY <2>9, <1>4, <1>1, <1>2 DEF Go, TypeOK, Inserting, Insert
    <2> QED  BY <2>1, <2>2, <2>3, <2>4, <2>5, <2>6, <2>7, <2>8, <2>9, StepKinds
  <1> QED  BY <1>3, <1>4

\* A handler is run for an authorised bundle only (_check_job, dispatch.run).
THEOREM OnlyAuthorisedRunsHolds == Spec => OnlyAuthorisedRuns
  <1>1. ASSUME IInv, Next, NEW t \in Stick,
               unit[t] = "dispatch", unit'[t] \in {"commit", "umount"}
        PROVE  Authorised(B(t))
    BY <1>1, RunsAreAuthorised DEF Next, Acts
  <1>2. IInv /\ [Next]_vars =>
          [\A s \in Stick : unit[s] = "dispatch" /\ unit'[s] \in {"commit", "umount"} =>
             /\ B(s).wellFormed
             /\ \/ B(s).signer = "operator"
                \/ B(s).signer = "breakglass" /\ B(s).op = "rotate-job-signers"
             /\ B(s).op = "privileged" => B(s).signer = "operator" /\ B(s).cosigned]_vars
    BY <1>1 DEF Authorised
  <1> QED  BY <1>2, RunInvariant, PTL DEF Spec, OnlyAuthorisedRuns

-----------------------------------------------------------------------------
(* The store of CaUsbRun is the ledger CommitLog implements in detail.     *)

Ledger == INSTANCE JobLedger WITH Run <- Result, NoRun <- NoResult,
                                  ledger <- done, high <- seq
WriteOnce == Ledger!WriteOnceSpec

\* Whatever instances commit, replay or are killed in between, a recorded result
\* is never changed or lost (commit, _commit_and_deliver, _replay).
THEOREM WriteOnceHolds == Spec => WriteOnce
  <1>1. Init => done = [j \in Job |-> NoResult]
    BY DEF Init
  <1>2. ASSUME IInv, IInv', Next PROVE Ledger!Fill
    <2>1. PICK s \in Stick : Acts(s)
      BY <1>2 DEF Next, Acts
    <2>2. Grows /\ done' \in [Job -> Result \cup {NoResult}]
      BY <1>2, <2>1, StoreGrows DEF IInv, TypeOK
    <2> QED  BY <2>2 DEF Grows, Ledger!Fill
  <1>3. IInv /\ IInv' /\ [Next]_vars => [Ledger!Fill]_done
    BY <1>2 DEF vars, store
  <1> QED  BY <1>1, <1>3, RunInvariant, PTL DEF Spec, WriteOnce, Ledger!WriteOnceSpec
==============================================================================
