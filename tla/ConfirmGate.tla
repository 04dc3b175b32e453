----------------------------- MODULE ConfirmGate -----------------------------
(***************************************************************************)
(* The K1 gate (causb/button.py) and the three places where ca-usb-run     *)
(* waits at it: before a handler is executed, before a cached result is    *)
(* delivered again, and twice before the recovery kit is written           *)
(* (causb/recovery.py).  CaUsbRun has the gate as two outcomes; here are   *)
(* the key, the kernel's event queue of an open evdev file, and the steps  *)
(* of await_press() between which the key moves.                           *)
(*                                                                         *)
(* Gestures, one press and its release each, are numbered within a visit;  *)
(* a key that was down when the stick was inserted is in gesture 0.  The   *)
(* numbers are for the properties; the code sees codes and values.         *)
(***************************************************************************)
EXTENDS Naturals, Sequences, FiniteSets

CONSTANTS Device,    \* input devices of this and of other boards
          NameOf, CodesOf,  \* their name and key codes in /proc/bus/input/devices
          Attached,  \* the sets of devices to consider
          NoDevice,
          K1Name, K1Code, MaskCode,
          MaxPress   \* bound on the gestures of one visit

ASSUME GateAssumption ==
    /\ Attached \subseteq SUBSET Device /\ NoDevice \notin Device
    /\ DOMAIN NameOf = Device /\ DOMAIN CodesOf = Device
    /\ MaxPress \in Nat

Gesture == 0..MaxPress
Code == UNION {CodesOf[d] : d \in Device}
Up == [code |-> 0, of |-> 0]
Down == [code : Code, of : Gesture]
\* struct input_event; value 2 is the kernel's autorepeat.
Event == [code : Code, value : {0, 1, 2}, of : Gesture]
Answer == [by : Device, of : Gesture, lit : Gesture]

\* The kit in the order of _assemble_kit: templates and tools, which are always
\* there; the trust anchors and ca.crt; registry.json; box-info and tool-versions.
KitOrder == <<"tools", "public", "registry.json", "info">>
File == {"tools", "public", "registry.json", "info"}
Optional == {"public", "registry.json"}

VARIABLES
    kind,      \* what the stick brings: "job", "replay" or "blank" (the kit)
    pc,        \* where the run is
    attached,  \* the input devices of this box
    key,       \* key[d]: which key of d is down, since which gesture
    presses,   \* gestures begun in this visit
    node,      \* the device whose event file is open
    queue,     \* its events that are not read yet
    pressed,   \* _PressWaiter: the press that waits for its release, or 0
    expired,   \* the monotonic deadline has passed
    lit,       \* gestures begun when the LED asked for this confirmation
    answers,   \* the confirmations given
    onBox,     \* which of the optional files the box has
    dest,      \* <mp>/CA-RECOVERY: "none", "dir" or "other"
    kit,       \* its files: "none", "old" (of an earlier visit), "new", "torn"
    copied     \* files of KitOrder dealt with

keyVars == <<attached, key, presses>>
waitVars == <<node, queue, pressed, expired>>
kitVars == <<onBox, dest, kit, copied>>
gateVars == <<kind, pc, keyVars, waitVars, lit, answers, kitVars>>

Waiting == {"light", "resolve", "open", "drain", "held", "wait", "select", "read"}
KitSteps == {"kit", "prepare", "copy", "sync"}
\* "run": the handler is executed; "deliver": the cached result is delivered;
\* "refused": no confirmation; "fault": ButtonError; the others: _finish.
Ended == {"run", "deliver", "refused", "fault", "safe", "failed"}

GateTypeOK ==
    /\ kind \in {"job", "replay", "blank"}
    /\ pc \in {"idle"} \cup Waiting \cup KitSteps \cup Ended
    /\ attached \in SUBSET Device
    /\ key \in [Device -> Down \cup {Up}] /\ presses \in Gesture
    /\ node \in Device \cup {NoDevice} /\ queue \in Seq(Event)
    /\ pressed \in Gesture /\ expired \in BOOLEAN /\ lit \in Gesture
    /\ answers \in Seq(Answer)
    /\ onBox \subseteq File
    /\ dest \in {"none", "dir", "other"}
    /\ kit \in [File -> {"none", "old", "new", "torn"}]
    /\ copied \in 0..Len(KitOrder)

Empty == [f \in File |-> "none"]

GateInit ==
    /\ kind = "job" /\ pc = "idle"
    /\ attached = {} /\ key = [d \in Device |-> Up] /\ presses = 0
    /\ node = NoDevice /\ queue = <<>> /\ pressed = 0 /\ expired = FALSE
    /\ lit = 0 /\ answers = <<>>
    /\ onBox = {} /\ dest = "none" /\ kit = Empty /\ copied = 0

-----------------------------------------------------------------------------
(* The keys.  They are of interest while a run is at its gate; what went   *)
(* before it shows in the keys that are down when the visit begins.        *)

Keys(d, k, n) ==
    /\ pc \in Waiting /\ d \in attached
    /\ key' = [key EXCEPT ![d] = k] /\ presses' = n
    /\ UNCHANGED <<kind, pc, attached, node, pressed, expired, lit, answers, kitVars>>

\* Only the file that is open at the time gets the event.
Queued(d, e) == queue' = IF node = d THEN Append(queue, e) ELSE queue

Press(d, c) ==
    /\ key[d] = Up /\ presses < MaxPress /\ c \in CodesOf[d]
    /\ Keys(d, [code |-> c, of |-> presses + 1], presses + 1)
    /\ Queued(d, [code |-> c, value |-> 1, of |-> presses + 1])

Release(d) ==
    /\ key[d] # Up
    /\ Keys(d, Up, presses)
    /\ Queued(d, [code |-> key[d].code, value |-> 0, of |-> key[d].of])

\* Autorepeat of a key that is held, without end.
Repeat(d) ==
    /\ key[d] # Up /\ node = d
    /\ \A i \in DOMAIN queue : i = Len(queue) => queue[i].value # 2
    /\ Keys(d, key[d], presses)
    /\ Queued(d, [code |-> key[d].code, value |-> 2, of |-> key[d].of])

-----------------------------------------------------------------------------
(* A visit begins.                                                         *)

\* A stick is inserted that the checks let pass to the gate (CaUsbRun).
Insert(k, A) ==
    /\ pc = "idle" /\ pc' = "light" /\ kind' = k
    /\ attached' = A /\ presses' = 0
    /\ \E D \in SUBSET A : \E c \in [D -> Code] :
          /\ \A d \in D : c[d] \in CodesOf[d]
          /\ key' = [d \in Device |-> IF d \in D THEN [code |-> c[d], of |-> 0] ELSE Up]
    /\ UNCHANGED <<waitVars, lit, answers, kitVars>>

-----------------------------------------------------------------------------
(* await_press.                                                            *)

Go(from, to) == pc = from /\ pc' = to

\* The keys are looked at no more.
Rest ==
    IF pc' \in Waiting THEN UNCHANGED <<keyVars, lit>>
    ELSE /\ attached' = {} /\ key' = [d \in Device |-> Up]
         /\ presses' = 0 /\ lit' = 0

\* The LED says READY, RECOVERY_OFFER or RECOVERY_CONFIRM2.
Light ==
    /\ Go("light", "resolve") /\ lit' = presses
    /\ UNCHANGED <<kind, keyVars, waitVars, answers, kitVars>>

Candidates ==
    {d \in attached : /\ K1Code \in CodesOf[d] /\ MaskCode \notin CodesOf[d]
                      /\ NameOf[d] = K1Name}

Resolve ==
    /\ Go("resolve", "open") /\ Cardinality(Candidates) = 1
    /\ UNCHANGED <<kind, keyVars, waitVars, lit, answers, kitVars>>
\* ButtonError("device_not_found").
NotFound ==
    /\ Go("resolve", "fault") /\ Cardinality(Candidates) # 1
    /\ Rest
    /\ UNCHANGED <<kind, waitVars, answers, kitVars>>

\* A file opened anew has no events.
Open ==
    /\ Go("open", "drain") /\ node' \in Candidates /\ queue' = <<>>
    /\ UNCHANGED <<kind, keyVars, pressed, expired, lit, answers, kitVars>>

\* _drain_nonblocking: read until EAGAIN ...
Drain ==
    /\ Go("drain", "drain") /\ queue # <<>> /\ queue' = <<>>
    /\ UNCHANGED <<kind, keyVars, node, pressed, expired, lit, answers, kitVars>>
\* ... which is not to say that nothing comes right after.
Drained ==
    /\ Go("drain", "held") /\ queue = <<>>
    /\ UNCHANGED <<kind, keyVars, waitVars, lit, answers, kitVars>>

\* The gate answers; the file is closed.  What comes next is up to the caller.
Close ==
    /\ node' = NoDevice /\ queue' = <<>> /\ pressed' = 0 /\ expired' = FALSE
    /\ Rest
    /\ UNCHANGED <<kind, kitVars>>
SecondAsked == answers # <<>>
Confirmed(g) ==
    /\ pc' = CASE kind = "job" -> "run"
               [] kind = "replay" -> "deliver"
               [] OTHER -> IF SecondAsked THEN "kit" ELSE "light"
    /\ answers' = Append(answers, [by |-> node, of |-> g, lit |-> lit])
    /\ Close
Refused ==
    /\ pc' = IF kind = "blank" THEN IF SecondAsked THEN "kit" ELSE "safe" ELSE "refused"
    /\ UNCHANGED answers
    /\ Close

\* EVIOCGKEY says that K1 is down: no waiting at all.
HeldDown ==
    /\ pc = "held" /\ key[node] # Up /\ key[node].code = K1Code
    /\ Refused
NotHeld ==
    /\ Go("held", "wait") /\ (key[node] = Up \/ key[node].code # K1Code)
    /\ UNCHANGED <<kind, keyVars, waitVars, lit, answers, kitVars>>

\* The clock, which runs from the check on.
Expire ==
    /\ pc \in {"wait", "select", "read"} /\ ~expired /\ expired' = TRUE
    /\ UNCHANGED <<kind, pc, keyVars, node, queue, pressed, lit, answers, kitVars>>

\* The head of the loop ...
TimeUp == pc = "wait" /\ expired /\ Refused

\* Mutant of Select.
NoDeadlineMutant ==
    /\ Go("wait", "select") /\ (expired => queue # <<>>)
    /\ UNCHANGED <<kind, keyVars, waitVars, lit, answers, kitVars>>

Select ==
    /\ Go("wait", "select") /\ ~expired
    /\ UNCHANGED <<kind, keyVars, waitVars, lit, answers, kitVars>>
\* ... select() returns with events, or with none at the deadline ...
Wake ==
    /\ Go("select", "read") /\ queue # <<>>
    /\ UNCHANGED <<kind, keyVars, waitVars, lit, answers, kitVars>>
Nap ==
    /\ Go("select", "wait") /\ queue = <<>> /\ expired
    /\ UNCHANGED <<kind, keyVars, waitVars, lit, answers, kitVars>>

\* ... and _PressWaiter is fed what has come: other codes and autorepeat are
\* passed over, a release counts after a press only.
Is(e, v) == e.code = K1Code /\ e.value = v
Presses == {i \in DOMAIN queue : Is(queue[i], 1)}
Releases == {i \in DOMAIN queue : Is(queue[i], 0)}

\* Mutant of Gestures.
ReleaseOnlyMutant ==
    {queue[j].of : j \in Releases}

\* The gestures that are complete.
Gestures ==
    {g \in Gesture : \E j \in Releases :
        \/ g = pressed /\ g # 0
        \/ \E i \in Presses : i < j /\ g = queue[i].of}

ReadPress ==
    /\ pc = "read"
    /\ \E g \in Gestures : (\A h \in Gestures : g <= h) /\ Confirmed(g)
ReadOther ==
    /\ Go("read", "wait") /\ Gestures = {} /\ queue' = <<>>
    /\ \/ Presses = {} /\ pressed' = pressed
       \/ \E i \in Presses : (\A j \in Presses : j <= i) /\ pressed' = queue[i].of
    /\ UNCHANGED <<kind, keyVars, node, expired, lit, answers, kitVars>>

Gate == \/ Light \/ Resolve \/ NotFound \/ Open \/ Drain \/ Drained
        \/ HeldDown \/ NotHeld \/ TimeUp \/ Select \/ Wake \/ Nap
        \/ ReadPress \/ ReadOther

-----------------------------------------------------------------------------
(* recovery.write, once the offer is accepted.                             *)

\* confirm2 of write().
Confirm2 == Len(answers) = 2

\* What the kit is to have: ca.key is in no case among it, registry.json only
\* with the second confirmation.
Due == {"tools", "info"} \cup {f \in onBox : f = "registry.json" => Confirm2}

\* The stick is remounted, the staged sources are complete.  The stick has no
\* kit, or an earlier visit's, whole or in part, or something else in its place.
KitMount ==
    /\ Go("kit", "prepare")
    /\ onBox' \in SUBSET Optional /\ dest' \in {"none", "dir", "other"}
    /\ \E F \in IF dest' = "dir" THEN SUBSET File ELSE {{}} :
          kit' = [f \in File |-> IF f \in F THEN "old" ELSE "none"]
    /\ UNCHANGED <<kind, keyVars, waitVars, lit, answers, copied>>
\* The remount fails, a staged file is missing, or the stick has something
\* else than a directory in the kit's place: it stays as it is.
KitRefused ==
    /\ \/ Go("kit", "failed")
       \/ Go("prepare", "failed") /\ dest = "other"
    /\ UNCHANGED <<kind, keyVars, waitVars, lit, answers, kitVars>>

\* Mutant of Prepare.
MergeMutant ==
    /\ Go("prepare", "copy") /\ dest # "other" /\ dest' = "dir"
    /\ UNCHANGED <<kind, keyVars, waitVars, lit, answers, onBox, kit, copied>>

\* _prepare_dest: an earlier kit is removed first ...
Prepare ==
    /\ Go("prepare", "copy") /\ dest # "other"
    /\ dest' = "dir" /\ kit' = Empty
    /\ UNCHANGED <<kind, keyVars, waitVars, lit, answers, onBox, copied>>
\* ... of which a failure leaves a part.
PrepareFails ==
    /\ Go("prepare", "failed") /\ dest # "other"
    /\ \/ /\ \E F \in SUBSET File : kit' = [f \in File |-> IF f \in F THEN kit[f] ELSE "none"]
          /\ dest' = dest
       \/ dest' = "none" /\ kit' = Empty
    /\ UNCHANGED <<kind, keyVars, waitVars, lit, answers, onBox, copied>>

\* _assemble_kit: the files, one after the other.
NextFile == KitOrder[copied + 1]
Copy ==
    /\ Go("copy", "copy") /\ copied < Len(KitOrder) /\ copied' = copied + 1
    /\ kit' = IF NextFile \in Due THEN [kit EXCEPT ![NextFile] = "new"] ELSE kit
    /\ UNCHANGED <<kind, keyVars, waitVars, lit, answers, onBox, dest>>
CopyFails ==
    /\ Go("copy", "failed") /\ copied < Len(KitOrder) /\ NextFile \in Due
    /\ kit' = [kit EXCEPT ![NextFile] = "torn"]
    /\ UNCHANGED <<kind, keyVars, waitVars, lit, answers, onBox, dest, copied>>
Assembled ==
    /\ Go("copy", "sync") /\ copied = Len(KitOrder)
    /\ UNCHANGED <<kind, keyVars, waitVars, lit, answers, kitVars>>
\* os.sync(), umount and SAFE_REMOVE, or a dirty umount.
KitFinish ==
    /\ Go("sync", "safe") \/ Go("sync", "failed")
    /\ UNCHANGED <<kind, keyVars, waitVars, lit, answers, kitVars>>

Kit == \/ KitMount \/ KitRefused \/ Prepare \/ PrepareFails
       \/ Copy \/ CopyFails \/ Assembled \/ KitFinish

-----------------------------------------------------------------------------

\* The visit is over, the stick is pulled.
Leave ==
    /\ pc \in Ended /\ pc' = "idle"
    /\ answers' = <<>>
    /\ onBox' = {} /\ dest' = "none" /\ kit' = Empty /\ copied' = 0
    /\ UNCHANGED <<kind, keyVars, waitVars, lit>>

Fingers == \E d \in Device : \/ Release(d) \/ Repeat(d)
                             \/ \E c \in Code : Press(d, c)
Arrive == \E k \in {"job", "replay", "blank"}, A \in Attached : Insert(k, A)

GateNext == Arrive \/ Fingers \/ Gate \/ Expire \/ Kit

GateSpec == GateInit /\ [][GateNext \/ Leave]_gateVars

\* The process is scheduled, and reads faster than a key repeats; the
\* monotonic clock runs; nobody need press.
GateFair == WF_gateVars(Gate) /\ SF_gateVars(Drained) /\ WF_gateVars(Expire)

-----------------------------------------------------------------------------
(* Properties.                                                             *)

\* Whatever is confirmed was confirmed by a live gesture: K1 was pressed after
\* the LED had asked, whatever was held, repeated, queued or pressed on other
\* devices before or meanwhile; and the two confirmations of registry.json are
\* two gestures (await_press and _recovery_branch).
LiveGesture ==
    /\ \A i \in DOMAIN answers :
          /\ answers[i].of > answers[i].lit
          /\ NameOf[answers[i].by] = K1Name /\ MaskCode \notin CodesOf[answers[i].by]
    /\ \A i, j \in DOMAIN answers : i < j => answers[i].of < answers[j].of

\* A stick has files of the kit only if the offer was confirmed, registry.json
\* only if it was confirmed twice, whatever fails on the way; and when
\* SAFE_REMOVE follows a confirmed offer the kit is complete and has nothing of
\* an earlier one, written when more had been confirmed (recovery.write).
KitIsConfirmed ==
    /\ \A f \in File : kit[f] \in {"new", "torn"} =>
          kind = "blank" /\ Len(answers) >= (IF f = "registry.json" THEN 2 ELSE 1)
    /\ pc = "safe" /\ answers # <<>> =>
          \A f \in File : kit[f] = IF f \in Due THEN "new" ELSE "none"

\* The gate always answers, even if K1 is held and repeats for ever.
GateEnds == pc \in Waiting ~> pc \notin Waiting
==============================================================================
