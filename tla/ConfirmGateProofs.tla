-------------------------- MODULE ConfirmGateProofs --------------------------
(***************************************************************************)
(* Proofs about ConfirmGate, for every set of devices, codes and gestures. *)
(*                                                                         *)
(* A confirmation is live because everything the open file has to say was  *)
(* queued after the LED asked: lit is taken before the file is opened, so  *)
(* a press in the queue, or the one _PressWaiter remembers, is later than  *)
(* lit (Later); what was confirmed before is not (Earlier).                *)
(***************************************************************************)
EXTENDS ConfirmGate, TLAPS

\* Where await_press has the event file open.
Opened == {"drain", "held", "wait", "select", "read"}

\* Nothing of one wait is left when the next begins.
Shut ==
    pc \notin Opened =>
        node = NoDevice /\ queue = <<>> /\ pressed = 0 /\ expired = FALSE
\* Keys and gestures are counted while a run is at its gate.
Away ==
    pc \notin Waiting =>
        presses = 0 /\ lit = 0 /\ key = [d \in Device |-> Up]
\* Every gesture in sight has begun.
Begun ==
    /\ lit <= presses /\ pressed <= presses
    /\ \A i \in DOMAIN queue : queue[i].of <= presses
    /\ \A d \in Device : key[d].of <= presses
\* The presses the waiter has or will read came after the LED.
Later ==
    /\ pressed # 0 => pressed > lit
    /\ \A i \in DOMAIN queue : queue[i].value = 1 => queue[i].of > lit
\* The open file is K1's.
K1Open ==
    pc \in Opened =>
        node \in Candidates
\* Of what has been confirmed when a further confirmation is awaited.
Earlier ==
    /\ pc = "idle" => answers = <<>>
    /\ pc \in Waiting => \A i \in DOMAIN answers : answers[i].of <= presses
    /\ pc \in Waiting \ {"light"} => \A i \in DOMAIN answers : answers[i].of <= lit

GateInv == /\ GateTypeOK /\ Shut /\ Away /\ Begun /\ Later /\ K1Open /\ Earlier
           /\ LiveGesture

USE DEF Gesture, Opened, Waiting, KitSteps, Ended

\* The kit has four parts.
LEMMA KitLen == Len(KitOrder) = 4
  BY DEF KitOrder

\* No gate is open at first.
LEMMA GateInvInit == GateInit => GateInv
  <1> SUFFICES ASSUME GateInit PROVE GateInv
    OBVIOUS
  <1> USE DEF GateInit
  <1>1. MaxPress \in Nat /\ Up.of = 0
    BY GateAssumption DEF Up
  <1>2. GateTypeOK
    <2>1. queue \in Seq(Event) /\ answers \in Seq(Answer)
      OBVIOUS
    <2>2. kit \in [File -> {"none", "old", "new", "torn"}] /\ copied \in 0..Len(KitOrder)
      BY KitLen DEF Empty
    <2>3. key \in [Device -> Down \cup {Up}]
      OBVIOUS
    <2>4. presses \in Gesture /\ pressed \in Gesture /\ lit \in Gesture
      BY <1>1
    <2>5. attached \in SUBSET Device /\ node \in Device \cup {NoDevice} /\ onBox \subseteq File
      OBVIOUS
    <2> HIDE DEF Gesture
    <2> QED  BY <2>1, <2>2, <2>3, <2>4, <2>5 DEF GateTypeOK
  <1>3. Begun /\ Later
    BY <1>1 DEF Begun, Later
  <1>4. Shut /\ Away /\ K1Open /\ Earlier /\ LiveGesture
    BY DEF Shut, Away, K1Open, Earlier, LiveGesture
  <1> QED  BY <1>2, <1>3, <1>4 DEF GateInv

\* A gesture, or autorepeat, adds events that are later than lit.
LEMMA KeysStep ==
  ASSUME GateInv, NEW d \in Device, NEW k \in Down \cup {Up}, NEW n \in Gesture,
         Keys(d, k, n), n >= presses, k.of <= n, NEW e \in Event, Queued(d, e),
         e.of <= n, e.value = 1 => e.of > presses
  PROVE  GateInv'
  <1> USE DEF GateInv
  <1>1. pc' = pc /\ pc \in Waiting /\ attached' = attached /\ Candidates' = Candidates /\ node' = node /\ pressed' = pressed
        /\ lit' = lit /\ answers' = answers /\ presses' = n /\ UNCHANGED <<kind, expired, kitVars>>
    BY DEF Keys, Candidates
  <1>2. key' \in [Device -> Down \cup {Up}] /\ \A x \in Device : key'[x] = IF x = d THEN k ELSE key[x]
    BY DEF Keys, GateTypeOK
  <1>3. queue' \in Seq(Event)
    BY DEF Queued, GateTypeOK
  <1>4. GateTypeOK'
    BY <1>1, <1>2, <1>3 DEF GateTypeOK, kitVars
  <1>5. \A i \in DOMAIN queue' : queue'[i] = e \/ (i \in DOMAIN queue /\ queue'[i] = queue[i])
    BY DEF Queued, GateTypeOK
  <1>6. Shut' /\ Away' /\ K1Open' /\ LiveGesture'
    <2>1. Shut'
      <3>1. CASE pc \in Opened  BY <1>1, <3>1 DEF Shut
      <3>2. CASE pc \notin Opened
        <4>1. node # d  BY <3>2, GateAssumption DEF Shut
        <4> QED  BY <1>1, <3>2, <4>1 DEF Shut, Queued
      <3> QED  BY <3>1, <3>2
    <2>2. Away' /\ K1Open' /\ LiveGesture'  BY <1>1 DEF Away, K1Open, LiveGesture
    <2> QED  BY <2>1, <2>2
  <1>7. MaxPress \in Nat  BY GateAssumption
  <1>8. Begun'
    <2>1. lit <= n /\ pressed <= n
      BY <1>7 DEF Begun, GateTypeOK
    <2>2. ASSUME NEW i \in DOMAIN queue, queue[i] \in Event PROVE queue[i].of <= n
      BY <1>7, <2>2 DEF Begun, GateTypeOK, Event
    <2>3. \A i \in DOMAIN queue' : queue'[i].of <= n
      BY <1>5, <2>2 DEF GateTypeOK
    <2>4. ASSUME NEW x \in Device PROVE key'[x].of <= n
      <3>1. key[x].of \in Nat /\ key[x].of <= presses
        BY <1>7 DEF Begun, GateTypeOK, Down, Up
      <3> QED  BY <1>2, <1>7, <3>1 DEF GateTypeOK
    <2> QED  BY <1>1, <2>1, <2>3, <2>4 DEF Begun
  <1>9. Later'
    <2>1. lit <= presses /\ lit \in Nat /\ presses \in Nat /\ e.of \in Nat
      BY <1>7 DEF Begun, GateTypeOK, Event
    <2> QED  BY <1>1, <1>5, <2>1 DEF Later
  <1>10. Earlier'
    <2>1. \A i \in DOMAIN answers : answers[i].of \in Nat
      <3>1. \A i \in DOMAIN answers : answers[i] \in Answer
        BY DEF GateTypeOK
      <3> QED  BY <1>7, <3>1 DEF Answer
    <2>2. ASSUME pc \in Waiting PROVE \A i \in DOMAIN answers : answers[i].of <= n
      BY <1>7, <2>1, <2>2 DEF Earlier, GateTypeOK
    <2> QED  BY <1>1, <2>2 DEF Earlier
  <1> QED  BY <1>4, <1>6, <1>8, <1>9, <1>10

\* Keys move.
LEMMA FingersStep == GateInv /\ Fingers => GateInv'
  <1> SUFFICES ASSUME GateInv, NEW d \in Device,
                      \/ Release(d) \/ Repeat(d) \/ \E c \in Code : Press(d, c)
               PROVE  GateInv'
    BY DEF Fingers
  <1> USE DEF GateInv
  <1>1. /\ MaxPress \in Nat /\ presses \in Nat /\ presses <= MaxPress /\ Up.of = 0
        /\ key[d] \in Down \cup {Up} /\ key[d].of <= presses
    BY GateAssumption DEF GateTypeOK, Begun, Up
  <1>2. ASSUME NEW c \in Code, Press(d, c) PROVE GateInv'
    <2>1. [code |-> c, of |-> presses + 1] \in Down /\ presses + 1 \in Gesture
      BY <1>1, <1>2 DEF Press, Down
    <2>2. [code |-> c, value |-> 1, of |-> presses + 1] \in Event
      BY <2>1 DEF Event, Down
    <2> QED  BY <1>1, <1>2, <2>1, <2>2, KeysStep DEF Press
  <1>3. ASSUME key[d] # Up, NEW v \in {0, 2}
        PROVE  [code |-> key[d].code, value |-> v, of |-> key[d].of] \in Event
    BY <1>1, <1>3 DEF Event, Down
  <1>4. CASE Release(d)
    BY <1>1, <1>3, <1>4, KeysStep DEF Release, GateTypeOK
  <1>5. CASE Repeat(d)
    BY <1>1, <1>3, <1>5, KeysStep DEF Repeat, GateTypeOK
  <1> QED  BY <1>2, <1>4, <1>5

\* A visit begins, with keys that may be down.
LEMMA ArriveStep == GateInv /\ Arrive => GateInv'
  <1> SUFFICES ASSUME GateInv, NEW k \in {"job", "replay", "blank"}, NEW A \in Attached,
                      Insert(k, A)
               PROVE  GateInv'
    BY DEF Arrive
  <1> USE DEF GateInv, Insert
  <1>1. MaxPress \in Nat /\ A \subseteq Device
    BY GateAssumption
  <1>2. key' \in [Device -> Down \cup {Up}] /\ \A d \in Device : key'[d].of = 0
    <2>1. PICK D \in SUBSET A : \E c \in [D -> Code] :
            /\ \A d \in D : c[d] \in CodesOf[d]
            /\ key' = [d \in Device |-> IF d \in D THEN [code |-> c[d], of |-> 0] ELSE Up]
      OBVIOUS
    <2>2. PICK c \in [D -> Code] :
            key' = [d \in Device |-> IF d \in D THEN [code |-> c[d], of |-> 0] ELSE Up]
      BY <2>1
    <2>3. \A d \in D : [code |-> c[d], of |-> 0] \in Down
      BY <1>1 DEF Down
    <2> QED  BY <2>2, <2>3 DEF Up
  <1>3. pc = "idle" /\ pc' = "light" /\ presses' = 0 /\ lit' = lit /\ answers' = answers
        /\ UNCHANGED <<node, queue, pressed, expired>>
    BY DEF waitVars
  <1>4. lit = 0 /\ answers = <<>> /\ node = NoDevice /\ queue = <<>> /\ pressed = 0 /\ expired = FALSE
    BY <1>3 DEF Away, Earlier, Shut
  <1>5. GateTypeOK'
    BY <1>1, <1>2, <1>3 DEF GateTypeOK, kitVars
  <1> QED  BY <1>1, <1>2, <1>3, <1>4, <1>5 DEF Shut, Away, Begun, Later, K1Open, Earlier, LiveGesture

\* Steps at the gate that leave the keys and what was confirmed alone.
LEMMA WaitStep ==
  ASSUME GateInv, pc \in Waiting, pc' \in Waiting,
         pc' = "light" => pc = "light", UNCHANGED <<kind, keyVars, lit, answers, kitVars>>,
         queue' \in Seq(Event), \A i \in DOMAIN queue' : i \in DOMAIN queue /\ queue'[i] = queue[i],
         expired' \in BOOLEAN, pressed' \in Gesture, pressed' <= presses,
         pressed' # 0 => pressed' > lit,
         pc' \in Opened => node' \in Candidates,
         pc' \notin Opened => node' = NoDevice /\ queue' = <<>> /\ pressed' = 0 /\ expired' = FALSE,
         pc = "light" => pc' = "light"
  PROVE  GateInv'
  <1> USE DEF GateInv
  <1>1. MaxPress \in Nat  BY GateAssumption
  <1>2. /\ pc' \in Opened => node' \in Device
        /\ node' \in Candidates => node' \in Candidates'
    BY DEF Candidates, GateTypeOK, keyVars
  <1>3. GateTypeOK'
    BY <1>1, <1>2 DEF GateTypeOK, keyVars, kitVars
  <1>4. Shut' /\ Away' /\ K1Open' /\ LiveGesture'
    BY <1>2 DEF Shut, Away, K1Open, LiveGesture
  <1>5. Begun' /\ Later' /\ Earlier'
    BY <1>1 DEF Begun, Later, Earlier, keyVars, GateTypeOK
  <1> QED  BY <1>3, <1>4, <1>5

\* The steps of await_press that do not answer.
LEMMA GateStep == GateInv /\ (Light \/ Resolve \/ Open \/ Drain \/ Drained \/ NotHeld
                              \/ Expire \/ Select \/ Wake \/ Nap \/ ReadOther) => GateInv'
  <1> SUFFICES ASSUME GateInv,
                      \/ Light \/ Resolve \/ Open \/ Drain \/ Drained \/ NotHeld
                      \/ Expire \/ Select \/ Wake \/ Nap \/ ReadOther
               PROVE  GateInv'
    OBVIOUS
  <1> USE DEF GateInv
  <1>1. /\ MaxPress \in Nat /\ queue \in Seq(Event) /\ queue = queue /\ expired \in BOOLEAN
        /\ pressed \in Gesture /\ presses \in Gesture /\ lit \in Gesture
        /\ pressed <= presses /\ (pressed # 0 => pressed > lit)
    BY GateAssumption DEF GateTypeOK, Begun, Later
  <1>2. <<>> \in Seq(Event) /\ DOMAIN <<>> = {}
    OBVIOUS
  <1>3. CASE Light
    <2>1. pc = "light" /\ pc' = "resolve" /\ lit' = presses
          /\ UNCHANGED <<kind, keyVars, waitVars, answers, kitVars>>
      BY <1>3 DEF Light, Go
    <2>2. node = NoDevice /\ queue = <<>> /\ pressed = 0 /\ expired = FALSE
      BY <2>1 DEF Shut
    <2>3. GateTypeOK'
      BY <2>1 DEF GateTypeOK, keyVars, waitVars, kitVars
    <2>4. Shut' /\ Away' /\ K1Open' /\ LiveGesture'
      BY <2>1, <2>2 DEF Shut, Away, K1Open, LiveGesture, keyVars, waitVars
    <2>5. Begun' /\ Later' /\ Earlier'
      BY <1>1, <2>1, <2>2 DEF Begun, Later, Earlier, keyVars, waitVars
    <2> QED  BY <2>3, <2>4, <2>5
  <1>4. CASE Resolve
    BY <1>1, <1>4, WaitStep DEF Resolve, Go, waitVars, Shut
  <1>5. CASE Open
    BY <1>1, <1>2, <1>5, WaitStep DEF Open, Go, waitVars, Shut
  <1>6. pc \in Opened => node \in Candidates
    BY DEF Shut, K1Open
  <1>7. CASE Drain
    BY <1>1, <1>2, <1>6, <1>7, WaitStep DEF Drain, Go
  <1>8. CASE Drained
    BY <1>1, <1>6, <1>8, WaitStep DEF Drained, Go, waitVars
  <1>9. CASE NotHeld
    BY <1>1, <1>6, <1>9, WaitStep DEF NotHeld, Go, waitVars
  <1>10. CASE Expire
    BY <1>1, <1>6, <1>10, WaitStep DEF Expire
  <1>11. CASE Select
    BY <1>1, <1>6, <1>11, WaitStep DEF Select, Go, waitVars
  <1>12. CASE Wake
    BY <1>1, <1>6, <1>12, WaitStep DEF Wake, Go, waitVars
  <1>13. CASE Nap
    BY <1>1, <1>6, <1>13, WaitStep DEF Nap, Go, waitVars
  <1>14. CASE ReadOther
    <2>1. pressed' \in Gesture /\ pressed' <= presses /\ (pressed' # 0 => pressed' > lit)
      <3>1. ASSUME NEW i \in Presses PROVE queue[i].of \in Gesture /\ queue[i].of <= presses /\ queue[i].of > lit
        <4>1. queue[i] \in Event
          BY <1>1 DEF Presses
        <4> QED  BY <1>1, <4>1 DEF Presses, Is, Begun, Later, Event
      <3> QED  BY <1>1, <1>14, <3>1 DEF ReadOther
    <2> QED  BY <1>1, <1>2, <1>6, <1>14, <2>1, WaitStep DEF ReadOther, Go
  <1> QED
    BY <1>3, <1>4, <1>5, <1>7, <1>8, <1>9, <1>10, <1>11, <1>12, <1>13, <1>14

\* The gate answers no.
LEMMA RefusedStep == ASSUME GateInv, pc \in {"held", "wait"}, Refused PROVE GateInv'
  <1> USE DEF GateInv
  <1>1. pc' \in {"refused", "kit", "safe"} /\ answers' = answers
        /\ node' = NoDevice /\ queue' = <<>> /\ pressed' = 0 /\ expired' = FALSE
        /\ attached' = {} /\ key' = [d \in Device |-> Up] /\ presses' = 0 /\ lit' = 0
        /\ UNCHANGED <<kind, kitVars>>
    BY DEF Refused, Close, Rest
  <1>2. GateTypeOK'
    <2>1. presses' \in Gesture /\ pressed' \in Gesture /\ lit' \in Gesture
      BY <1>1, GateAssumption
    <2>2. queue' \in Seq(Event) /\ attached' \in SUBSET Device
          /\ key' \in [Device -> Down \cup {Up}] /\ node' \in Device \cup {NoDevice}
      BY <1>1
    <2> HIDE DEF Gesture
    <2> QED  BY <1>1, <2>1, <2>2 DEF GateTypeOK, kitVars
  <1>3. Shut' /\ Away' /\ K1Open' /\ LiveGesture' /\ Earlier'
    BY <1>1 DEF Shut, Away, K1Open, LiveGesture, Earlier
  <1>4. Begun' /\ Later'
    BY <1>1 DEF Begun, Later, Up
  <1> QED  BY <1>2, <1>3, <1>4

\* There is no K1.
LEMMA NotFoundStep == ASSUME GateInv, NotFound PROVE GateInv'
  <1> USE DEF GateInv
  <1>1. pc = "resolve" /\ pc' = "fault" /\ answers' = answers
        /\ node' = NoDevice /\ queue' = <<>> /\ pressed' = 0 /\ expired' = FALSE
        /\ attached' = {} /\ key' = [d \in Device |-> Up] /\ presses' = 0 /\ lit' = 0
        /\ UNCHANGED <<kind, kitVars>>
    BY DEF NotFound, Rest, Go, Shut, waitVars
  <1>2. GateTypeOK'
    <2>1. presses' \in Gesture /\ pressed' \in Gesture /\ lit' \in Gesture
      BY <1>1, GateAssumption
    <2>2. queue' \in Seq(Event) /\ attached' \in SUBSET Device
          /\ key' \in [Device -> Down \cup {Up}] /\ node' \in Device \cup {NoDevice}
      BY <1>1
    <2> HIDE DEF Gesture
    <2> QED  BY <1>1, <2>1, <2>2 DEF GateTypeOK, kitVars
  <1>3. Shut' /\ Away' /\ K1Open' /\ LiveGesture' /\ Earlier'
    BY <1>1 DEF Shut, Away, K1Open, LiveGesture, Earlier
  <1>4. Begun' /\ Later'
    BY <1>1 DEF Begun, Later, Up
  <1> QED  BY <1>2, <1>3, <1>4

\* A gesture that counts began after the LED asked, and after what counted before.
LEMMA GestureIsLive ==
  ASSUME GateInv, NEW g \in Gestures PROVE g \in Gesture /\ g > lit /\ g <= presses
  <1> USE DEF GateInv
  <1>1. MaxPress \in Nat /\ \A i \in DOMAIN queue : queue[i] \in Event
    BY GateAssumption DEF GateTypeOK
  <1> QED  BY <1>1 DEF Gestures, Presses, Is, Begun, Later

\* The gate answers yes, to a gesture later than lit.
LEMMA ConfirmedStep == ASSUME GateInv, pc = "read", NEW g \in Gestures, Confirmed(g) PROVE GateInv'
  <1> USE DEF GateInv
  <1> DEFINE a == [by |-> node, of |-> g, lit |-> lit]
  <1>1. /\ pc' \in {"run", "deliver", "kit", "light"}
        /\ answers' = Append(answers, a)
        /\ node' = NoDevice /\ queue' = <<>> /\ pressed' = 0 /\ expired' = FALSE
        /\ UNCHANGED <<kind, kitVars>>
    BY DEF Confirmed, Close
  <1>2. \/ pc' = "light" /\ UNCHANGED <<keyVars, lit>>
        \/ pc' # "light" /\ attached' = {} /\ key' = [d \in Device |-> Up] /\ presses' = 0 /\ lit' = 0
    BY <1>1 DEF Confirmed, Close, Rest
  <1>3. MaxPress \in Nat /\ presses \in Nat /\ lit \in Nat /\ lit <= presses
    BY GateAssumption DEF GateTypeOK, Begun
  <1>4. a \in Answer /\ a.of > lit /\ a.of <= presses /\ node \in Candidates
    BY GestureIsLive DEF K1Open, Candidates, GateTypeOK, Answer
  <1>5. answers \in Seq(Answer)
    BY DEF GateTypeOK
  <1>6. /\ Len(answers) \in Nat /\ DOMAIN answers = 1..Len(answers)
        /\ DOMAIN answers' = 1..Len(answers) + 1 /\ answers' \in Seq(Answer)
        /\ \A i \in 1..Len(answers) : answers'[i] = answers[i] /\ answers[i] \in Answer
        /\ answers'[Len(answers) + 1] = a
    BY <1>1, <1>4, <1>5
  <1>7. GateTypeOK'
    <2>1. attached' \in SUBSET Device /\ key' \in [Device -> Down \cup {Up}]
          /\ presses' \in Gesture /\ lit' \in Gesture
      BY <1>2, <1>3 DEF GateTypeOK, keyVars
    <2>2. queue' \in Seq(Event) /\ node' \in Device \cup {NoDevice} /\ pressed' \in Gesture
      BY <1>1, <1>3
    <2> HIDE DEF Gesture
    <2> QED  BY <1>1, <1>6, <2>1, <2>2 DEF GateTypeOK, kitVars
  <1>8. Shut' /\ Away' /\ K1Open'
    BY <1>1, <1>2 DEF Shut, Away, K1Open
  <1>9. Begun' /\ Later'
    BY <1>1, <1>2, <1>3 DEF Begun, Later, Up, keyVars
  <1>10. \A i \in 1..Len(answers) : answers[i].of <= lit /\ answers[i].of \in Nat
    <2>1. \A i \in DOMAIN answers : answers[i].of <= lit
      BY DEF Earlier
    <2>2. \A i \in 1..Len(answers) : answers[i].of \in Nat
      BY <1>3, <1>6, GateAssumption DEF Answer
    <2> QED  BY <1>6, <2>1, <2>2
  <1>11. LiveGesture'
    <2>1. \A i \in DOMAIN answers' : answers'[i].of > answers'[i].lit
          /\ NameOf[answers'[i].by] = K1Name /\ MaskCode \notin CodesOf[answers'[i].by]
      BY <1>4, <1>6 DEF LiveGesture, Candidates
    <2>2. ASSUME NEW i \in DOMAIN answers', NEW j \in DOMAIN answers', i < j
          PROVE  answers'[i].of < answers'[j].of
      <3>1. i \in 1..Len(answers)
        BY <1>6, <2>2
      <3>2. CASE j = Len(answers) + 1
        BY <1>3, <1>4, <1>6, <1>10, <3>1, <3>2 DEF Answer
      <3>3. CASE j # Len(answers) + 1
        BY <1>6, <2>2, <3>1, <3>3 DEF LiveGesture
      <3> QED  BY <3>2, <3>3
    <2> QED  BY <2>1, <2>2 DEF LiveGesture
  <1>12. Earlier'
    <2>1. \A i \in DOMAIN answers' : answers'[i].of <= presses
      BY <1>3, <1>4, <1>6, <1>10
    <2> QED  BY <1>1, <1>2, <2>1 DEF Earlier, keyVars
  <1> QED  BY <1>7, <1>8, <1>9, <1>11, <1>12

\* The kit's files keep their types.
LEMMA KitFilesType ==
  ASSUME GateTypeOK, Kit
  PROVE  /\ onBox' \subseteq File /\ dest' \in {"none", "dir", "other"}
         /\ kit' \in [File -> {"none", "old", "new", "torn"}]
         /\ copied' \in 0..Len(KitOrder)
  <1> USE DEF GateTypeOK, kitVars, Empty
  <1>1. CASE KitMount
    BY <1>1 DEF KitMount, Optional, File
  <1>2. CASE KitRefused \/ Assembled \/ KitFinish
    BY <1>2 DEF KitRefused, Assembled, KitFinish
  <1>3. CASE Prepare \/ PrepareFails
    <2>1. CASE Prepare  BY <2>1 DEF Prepare
    <2>2. CASE PrepareFails
      <3>1. kit' \in [File -> {"none", "old", "new", "torn"}]
        BY <2>2 DEF PrepareFails
      <3> QED  BY <2>2, <3>1 DEF PrepareFails
    <2> QED  BY <1>3, <2>1, <2>2
  <1>4. CASE Copy
    <2>1. copied < 4 /\ copied' = copied + 1 /\ UNCHANGED <<onBox, dest>>
          /\ (kit' = kit \/ kit' = [kit EXCEPT ![NextFile] = "new"])
      BY <1>4, KitLen DEF Copy
    <2>2. kit' \in [File -> {"none", "old", "new", "torn"}]
      BY <2>1
    <2> QED  BY <2>1, <2>2, KitLen
  <1>5. CASE CopyFails
    BY <1>5 DEF CopyFails
  <1> QED  BY <1>1, <1>2, <1>3, <1>4, <1>5 DEF Kit

\* Writing the kit is no business of the gate.
LEMMA KitStep == GateInv /\ Kit => GateInv'
  <1> SUFFICES ASSUME GateInv, Kit PROVE GateInv'
    OBVIOUS
  <1> USE DEF GateInv
  <1>1. /\ pc \in KitSteps /\ pc' \in KitSteps \cup {"safe", "failed"}
        /\ UNCHANGED <<kind, keyVars, waitVars, lit, answers>>
    BY DEF Kit, KitMount, KitRefused, Prepare, PrepareFails, Copy, CopyFails, Assembled,
           KitFinish, Go
  <1>2. GateTypeOK'
    BY <1>1, KitFilesType DEF GateTypeOK, keyVars, waitVars
  <1>3. Shut' /\ Away' /\ Begun' /\ Later' /\ K1Open' /\ Earlier' /\ LiveGesture'
    BY <1>1 DEF Shut, Away, Begun, Later, K1Open, Earlier, LiveGesture, keyVars, waitVars
  <1> QED  BY <1>2, <1>3

\* The visit is over.
LEMMA LeaveStep == GateInv /\ Leave => GateInv'
  <1> SUFFICES ASSUME GateInv, Leave PROVE GateInv'
    OBVIOUS
  <1> USE DEF GateInv
  <1>1. /\ pc \in Ended /\ pc' = "idle" /\ answers' = <<>>
        /\ onBox' = {} /\ dest' = "none" /\ kit' = Empty /\ copied' = 0
        /\ UNCHANGED <<kind, keyVars, waitVars, lit>>
    BY DEF Leave
  <1>2. GateTypeOK'
    <2>1. kit' \in [File -> {"none", "old", "new", "torn"}] /\ copied' \in 0..Len(KitOrder)
          /\ answers' \in Seq(Answer)
      BY <1>1, KitLen DEF Empty
    <2> QED  BY <1>1, <2>1 DEF GateTypeOK, keyVars, waitVars
  <1>3. Shut' /\ Away' /\ Begun' /\ Later' /\ K1Open' /\ Earlier' /\ LiveGesture'
    BY <1>1 DEF Shut, Away, Begun, Later, K1Open, Earlier, LiveGesture, keyVars, waitVars
  <1> QED  BY <1>2, <1>3

\* Every step keeps GateInv.
LEMMA GateInvStep == GateInv /\ [GateNext \/ Leave]_gateVars => GateInv'
  <1> SUFFICES ASSUME GateInv, [GateNext \/ Leave]_gateVars PROVE GateInv'
    OBVIOUS
  <1>1. CASE Arrive \/ Fingers \/ Kit \/ Leave
    BY <1>1, ArriveStep, FingersStep, KitStep, LeaveStep
  <1>2. CASE Expire
    BY <1>2, GateStep
  <1>3. CASE Gate
    <2>1. CASE HeldDown \/ TimeUp
      BY <2>1, RefusedStep DEF HeldDown, TimeUp
    <2>2. CASE NotFound
      BY <2>2, NotFoundStep
    <2>3. CASE ReadPress
      BY <2>3, ConfirmedStep DEF ReadPress
    <2> QED  BY <1>3, <2>1, <2>2, <2>3, GateStep DEF Gate
  <1>4. CASE UNCHANGED gateVars
    BY <1>4 DEF gateVars, keyVars, waitVars, kitVars, GateInv, GateTypeOK, Shut, Away, Begun,
                Later, K1Open, Earlier, LiveGesture, Candidates
  <1> QED  BY <1>1, <1>2, <1>3, <1>4 DEF GateNext

\* The inductive invariant of the gate: GateTypeOK and LiveGesture, and why.
THEOREM GateInvariant == GateSpec => []GateInv
  BY GateInvInit, GateInvStep, PTL DEF GateSpec

\* Type correctness of the gate and the kit (button.py, recovery.py).
THEOREM GateTypeCorrect == GateSpec => []GateTypeOK
  BY GateInvariant, PTL DEF GateInv

\* Only a press of K1 that came after the LED asked confirms anything, and no
\* press confirms twice (await_press, _recovery_branch).
THEOREM LiveGestureHolds == GateSpec => []LiveGesture
  BY GateInvariant, PTL DEF GateInv

-----------------------------------------------------------------------------
(* The kit.                                                                *)

\* How far the kit has got, and under which confirmations.
KitInv ==
    /\ kit \in [File -> {"none", "old", "new", "torn"}]
    /\ copied \in 0..4
    /\ answers \in Seq(Answer)
    /\ onBox \subseteq Optional
    /\ pc \in Waiting => Len(answers) <= 1 /\ (answers # <<>> => kind = "blank")
    /\ pc \in KitSteps => kind = "blank" /\ Len(answers) \in {1, 2}
    /\ pc \notin KitSteps \cup {"safe", "failed"} => kit = Empty
    /\ pc \notin {"copy", "sync", "safe", "failed"} => copied = 0
    /\ pc = "idle" => answers = <<>>
    /\ pc = "sync" => copied = 4
    /\ pc \in {"copy", "sync"} =>
          \A i \in 1..4 : kit[KitOrder[i]] =
              IF i <= copied /\ KitOrder[i] \in Due THEN "new" ELSE "none"
    /\ KitIsConfirmed

\* The parts of the kit and their places, one to one.
LEMMA KitOrderFiles ==
  /\ \A f \in File : \E i \in 1..4 : f = KitOrder[i]
  /\ \A i \in 1..4 : KitOrder[i] \in File
  /\ \A i, j \in 1..4 : KitOrder[i] = KitOrder[j] => i = j
  BY DEF KitOrder, File

\* No confirmations, no length.
LEMMA AnswersLen ==
  ASSUME answers \in Seq(Answer)
  PROVE  Len(answers) \in Nat /\ (answers = <<>> <=> Len(answers) = 0)
  OBVIOUS

\* No kit is being written at first.
LEMMA KitInvInit == GateInit => KitInv
  <1> SUFFICES ASSUME GateInit PROVE KitInv
    OBVIOUS
  <1>1. answers \in Seq(Answer) /\ Len(answers) = 0 /\ kit = Empty /\ pc = "idle" /\ copied = 0
        /\ onBox = {} /\ answers = <<>>
    BY DEF GateInit
  <1>2. KitIsConfirmed
    BY <1>1 DEF KitIsConfirmed, Empty
  <1> QED  BY <1>1, <1>2 DEF KitInv, Empty

\* Steps that leave the kit as it is, Empty.
LEMMA EmptyStep ==
  ASSUME KitInv, pc \notin KitSteps \cup {"safe", "failed"}, UNCHANGED kitVars,
         answers' \in Seq(Answer),
         pc' \in {"idle"} \cup Waiting \cup {"kit"} \cup Ended,
         pc' \in Waiting => Len(answers') <= 1 /\ (answers' # <<>> => kind' = "blank"),
         pc' = "kit" => kind' = "blank" /\ Len(answers') \in {1, 2},
         pc' \in {"idle", "safe"} => answers' = <<>>
  PROVE  KitInv'
  <1>1. kit' = Empty /\ copied' = 0 /\ onBox' = onBox
    BY DEF KitInv, kitVars
  <1>2. KitIsConfirmed'
    BY <1>1 DEF KitIsConfirmed, Empty
  <1> QED  BY <1>1, <1>2 DEF KitInv

\* At the gate nothing is written.
LEMMA AtGateKitStep == GateInv /\ KitInv /\ (Arrive \/ Fingers \/ Gate \/ Expire) => KitInv'
  <1> SUFFICES ASSUME GateInv, KitInv, Arrive \/ Fingers \/ Gate \/ Expire PROVE KitInv'
    OBVIOUS
  <1>1. /\ answers \in Seq(Answer) /\ Len(answers) \in Nat /\ (answers = <<>> <=> Len(answers) = 0)
        /\ pc = "idle" => answers = <<>>
        /\ pc \in Waiting => Len(answers) <= 1 /\ (answers # <<>> => kind = "blank")
    BY AnswersLen DEF KitInv
  <1>2. CASE Arrive
    <2>1. pc = "idle" /\ pc' = "light" /\ answers' = answers /\ UNCHANGED kitVars
      BY <1>2 DEF Arrive, Insert
    <2> QED  BY <1>1, <2>1, EmptyStep
  <1>3. CASE Fingers
    <2>1. pc \in Waiting /\ UNCHANGED <<kind, pc, answers, kitVars>>
      BY <1>3 DEF Fingers, Press, Release, Repeat, Keys
    <2> QED  BY <1>1, <2>1, EmptyStep
  <1>4. CASE Light \/ Resolve \/ Open \/ Drain \/ Drained \/ NotHeld
             \/ Expire \/ Select \/ Wake \/ Nap \/ ReadOther
    <2>1. pc \in Waiting /\ pc' \in Waiting /\ UNCHANGED <<kind, answers, kitVars>>
      BY <1>4 DEF Light, Resolve, Open, Drain, Drained, NotHeld, Expire, Select, Wake, Nap,
                  ReadOther, Go
    <2> QED  BY <1>1, <2>1, EmptyStep
  <1>5. CASE NotFound
    <2>1. pc \in Waiting /\ pc' = "fault" /\ UNCHANGED <<kind, answers, kitVars>>
      BY <1>5 DEF NotFound, Go
    <2> QED  BY <1>1, <2>1, EmptyStep
  <1>6. CASE HeldDown \/ TimeUp
    <2>1. /\ pc \in Waiting /\ UNCHANGED <<kind, answers, kitVars>>
          /\ \/ pc' = "refused"
             \/ pc' = "safe" /\ answers = <<>>
             \/ pc' = "kit" /\ kind = "blank" /\ answers # <<>>
      BY <1>6 DEF HeldDown, TimeUp, Refused, Close, SecondAsked
    <2>2. ASSUME pc' = "kit" PROVE Len(answers) = 1
      <3>1. Len(answers) # 0
        BY <1>1, <2>1, <2>2
      <3>2. Len(answers) <= 1 /\ Len(answers) \in Nat
        BY <1>1, <2>1
      <3>3. \A n \in Nat : n # 0 /\ n <= 1 => n = 1
        OBVIOUS
      <3> QED  BY <3>1, <3>2, <3>3
    <2>3. pc \notin KitSteps \cup {"safe", "failed"} /\ pc' \notin Waiting \cup {"idle"}
      BY <2>1
    <2> HIDE DEF Waiting, KitSteps
    <2> QED  BY <1>1, <2>1, <2>2, <2>3, EmptyStep
  <1>7. CASE ReadPress
    <2>1. PICK g \in Gestures : Confirmed(g)
      BY <1>7 DEF ReadPress
    <2>2. pc = "read" /\ UNCHANGED <<kind, kitVars>> /\ answers' \in Seq(Answer)
          /\ Len(answers') = Len(answers) + 1
      <3>1. answers' \in Seq(Answer)
        BY <2>1, <1>7, ConfirmedStep DEF ReadPress, GateInv, GateTypeOK
      <3> QED  BY <1>1, <1>7, <2>1, <3>1 DEF ReadPress, Confirmed, Close
    <2>3. \/ pc' \in {"run", "deliver"}
          \/ pc' = "kit" /\ kind \notin {"job", "replay"} /\ answers # <<>>
          \/ pc' = "light" /\ kind \notin {"job", "replay"} /\ answers = <<>>
      BY <2>1 DEF Confirmed, SecondAsked
    <2>4. kind \in {"job", "replay", "blank"}
      BY DEF GateInv, GateTypeOK
    <2> QED  BY <1>1, <2>2, <2>3, <2>4, EmptyStep
  <1> QED  BY <1>2, <1>3, <1>4, <1>5, <1>6, <1>7 DEF Gate

\* A part of the kit is written, skipped or left torn.
LEMMA KitKitStep == KitInv /\ Kit => KitInv'
  <1> SUFFICES ASSUME KitInv, Kit PROVE KitInv'
    OBVIOUS
  <1> USE DEF Go
  <1>1. /\ pc \in KitSteps /\ pc' \in KitSteps \cup {"safe", "failed"} /\ pc' # "kit"
        /\ UNCHANGED <<kind, answers>>
    BY DEF Kit, KitMount, KitRefused, Prepare, PrepareFails, Copy, CopyFails, Assembled, KitFinish
  <1>2. /\ kind = "blank" /\ Len(answers) \in {1, 2} /\ answers \in Seq(Answer)
        /\ kit \in [File -> {"none", "old", "new", "torn"}] /\ copied \in 0..4
        /\ onBox \subseteq Optional
        /\ \A f \in File : kit[f] \in {"new", "torn"} =>
              Len(answers) >= (IF f = "registry.json" THEN 2 ELSE 1)
    BY <1>1 DEF KitInv, KitIsConfirmed
  <1>3. answers # <<>>
    BY <1>2, AnswersLen
  <1>4. ASSUME NEW f \in Due PROVE Len(answers) >= (IF f = "registry.json" THEN 2 ELSE 1)
    BY <1>2, <1>4 DEF Due, Confirm2
  \* What is left to show of a step that does not end with a whole kit.
  <1>5. ASSUME /\ kit' \in [File -> {"none", "old", "new", "torn"}] /\ copied' \in 0..4
               /\ onBox' \subseteq Optional
               /\ \A f \in File : kit'[f] \in {"new", "torn"} => kit[f] = kit'[f] \/ f \in Due
               /\ pc' = "prepare" => copied' = 0
               /\ pc' = "sync" => copied' = 4
               /\ pc' \in {"copy", "sync"} =>
                    \A i \in 1..4 : kit'[KitOrder[i]] =
                        IF i <= copied' /\ KitOrder[i] \in Due' THEN "new" ELSE "none"
               /\ pc' = "safe" => \A f \in File : kit'[f] = IF f \in Due' THEN "new" ELSE "none"
        PROVE  KitInv'
    <2>1. KitIsConfirmed'
      BY <1>1, <1>2, <1>4, <1>5 DEF KitIsConfirmed
    <2> QED  BY <1>1, <1>2, <1>3, <1>5, <2>1 DEF KitInv
  <1>6. CASE KitMount
    <2>1. pc = "kit" /\ pc' = "prepare" /\ copied' = copied /\ onBox' \subseteq Optional
          /\ kit' \in [File -> {"none", "old", "new", "torn"}]
          /\ \A f \in File : kit'[f] \notin {"new", "torn"}
      BY <1>6 DEF KitMount
    <2>2. copied = 0
      BY <2>1 DEF KitInv
    <2> QED  BY <1>2, <1>5, <2>1, <2>2
  <1>7. CASE KitRefused
    BY <1>2, <1>5, <1>7 DEF KitRefused, kitVars
  <1>8. CASE Prepare
    <2>1. pc = "prepare" /\ pc' = "copy" /\ kit' = Empty /\ UNCHANGED <<onBox, copied>>
      BY <1>8 DEF Prepare
    <2>2. copied = 0
      BY <2>1 DEF KitInv
    <2> QED  BY <1>2, <1>5, <2>1, <2>2, KitOrderFiles DEF Empty
  <1>9. CASE PrepareFails
    <2>1. pc' = "failed" /\ UNCHANGED <<onBox, copied>>
          /\ kit' \in [File -> {"none", "old", "new", "torn"}]
          /\ \A f \in File : kit'[f] \in {"none", kit[f]}
      BY <1>2, <1>9 DEF PrepareFails, Empty
    <2> QED  BY <1>2, <1>5, <2>1
  <1>10. CASE Copy
    <2>1. pc = "copy" /\ pc' = "copy" /\ copied < 4 /\ copied' = copied + 1 /\ onBox' = onBox
          /\ kit' = IF NextFile \in Due THEN [kit EXCEPT ![NextFile] = "new"] ELSE kit
      BY <1>10, KitLen DEF Copy
    <2>2. Due' = Due
      BY <1>1, <2>1 DEF Due, Confirm2
    <2>3. \A i \in 1..4 : kit[KitOrder[i]] =
              IF i <= copied /\ KitOrder[i] \in Due THEN "new" ELSE "none"
      BY <2>1 DEF KitInv
    <2>4. copied + 1 \in 1..4 /\ NextFile = KitOrder[copied + 1] /\ NextFile \in File
      BY <1>2, <2>1, KitOrderFiles DEF NextFile
    <2>5. ASSUME NEW i \in 1..4
          PROVE  kit'[KitOrder[i]] =
                   IF i <= copied + 1 /\ KitOrder[i] \in Due THEN "new" ELSE "none"
      <3>1. KitOrder[i] \in File /\ (KitOrder[i] = NextFile <=> i = copied + 1)
        BY <2>4, KitOrderFiles
      <3>2. CASE i = copied + 1
        BY <1>2, <2>1, <2>3, <2>4, <3>1, <3>2
      <3>3. CASE i # copied + 1
        BY <1>2, <2>1, <2>3, <3>1, <3>3
      <3> QED  BY <3>2, <3>3
    <2>6. kit' \in [File -> {"none", "old", "new", "torn"}]
          /\ \A f \in File : kit'[f] \in {"new", "torn"} => kit[f] = kit'[f] \/ f \in Due
      BY <1>2, <2>1, <2>4
    <2> QED  BY <1>2, <1>5, <2>1, <2>2, <2>4, <2>5, <2>6
  <1>11. CASE CopyFails
    <2>1. pc' = "failed" /\ UNCHANGED <<onBox, copied>> /\ NextFile \in Due
          /\ kit' = [kit EXCEPT ![NextFile] = "torn"]
      BY <1>11 DEF CopyFails
    <2> QED  BY <1>2, <1>5, <2>1
  <1>12. CASE Assembled
    <2>1. pc = "copy" /\ pc' = "sync" /\ copied = 4 /\ UNCHANGED <<onBox, kit, copied>>
      BY <1>12, KitLen DEF Assembled, kitVars
    <2>2. Due' = Due
      BY <1>1, <2>1 DEF Due, Confirm2
    <2> QED  BY <1>2, <1>5, <2>1, <2>2 DEF KitInv
  <1>13. CASE KitFinish
    <2>1. pc = "sync" /\ pc' \in {"safe", "failed"} /\ UNCHANGED <<onBox, kit, copied>>
      BY <1>13 DEF KitFinish, kitVars
    <2>2. Due' = Due
      BY <1>1, <2>1 DEF Due, Confirm2
    <2>3. \A f \in File : kit[f] = IF f \in Due THEN "new" ELSE "none"
      <3>1. copied = 4 /\ \A i \in 1..4 : kit[KitOrder[i]] =
                  IF i <= copied /\ KitOrder[i] \in Due THEN "new" ELSE "none"
        BY <2>1 DEF KitInv
      <3> QED  BY <3>1, KitOrderFiles
    <2> QED  BY <1>2, <1>5, <2>1, <2>2, <2>3
  <1> QED  BY <1>6, <1>7, <1>8, <1>9, <1>10, <1>11, <1>12, <1>13 DEF Kit

\* Every step keeps KitInv.
LEMMA KitInvStep == GateInv /\ KitInv /\ [GateNext \/ Leave]_gateVars => KitInv'
  <1> SUFFICES ASSUME GateInv, KitInv, [GateNext \/ Leave]_gateVars PROVE KitInv'
    OBVIOUS
  <1>1. CASE Leave
    <2>1. pc' = "idle" /\ answers' = <<>> /\ kit' = Empty /\ copied' = 0 /\ onBox' = {}
      BY <1>1 DEF Leave
    <2>2. answers' \in Seq(Answer) /\ Len(answers') = 0
      BY <2>1
    <2>3. KitIsConfirmed'
      BY <2>1 DEF KitIsConfirmed, Empty
    <2> QED  BY <2>1, <2>2, <2>3 DEF KitInv, Empty
  <1>2. CASE UNCHANGED gateVars
    BY <1>2 DEF gateVars, kitVars, KitInv, KitIsConfirmed, Due, Confirm2
  <1> QED  BY <1>1, <1>2, AtGateKitStep, KitKitStep DEF GateNext

\* The kit that is left with SAFE_REMOVE is whole and has what was confirmed for
\* it, and nothing is ever written that was not (recovery.write).
THEOREM KitIsConfirmedHolds == GateSpec => []KitIsConfirmed
  <1>1. GateInv /\ KitInv /\ [GateNext \/ Leave]_gateVars => (GateInv /\ KitInv)'
    BY GateInvStep, KitInvStep
  <1>2. GateInit => GateInv /\ KitInv
    BY GateInvInit, KitInvInit
  <1>3. KitInv => KitIsConfirmed
    BY DEF KitInv
  <1> QED  BY <1>1, <1>2, <1>3, PTL DEF GateSpec
==============================================================================
