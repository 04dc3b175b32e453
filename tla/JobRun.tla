------------------------------- MODULE JobRun -------------------------------
(***************************************************************************)
(* One job from its archive to its status: extract.py, dispatch.py,        *)
(* collect.py and the code of ca-usb-run around them, and the processes of *)
(* the job, which run at the same time.  A run-script job is               *)
(*     unshare ("leader") > sh ("main"), init of a PID namespace > Kid     *)
(* and a vetted handler is the leader itself, which waits for its          *)
(* children.  The kernel, unshare and setpriv are external: they are       *)
(* modelled by what dispatch.py counts on, and by pdeathsig being cleared  *)
(* when setpriv changes the uid, so that only a privileged script's main   *)
(* process dies of its leader's death.                                     *)
(***************************************************************************)
EXTENDS Extract

CONSTANTS Kid,      \* processes the job may start
          Order,    \* names of output files, in the order they are walked
          Flat, Deep,  \* names without a slash that are not reserved; names beyond the cap
          OutFiles, \* the cap on the number of outputs (CAPS["tar_files"])
          Tars      \* archives to consider

Name == {Order[i] : i \in DOMAIN Order}
Proc == {"leader", "main"} \cup Kid

ASSUME TarsAssumption == Tars \subseteq Archive
ASSUME JobAssumption ==
    /\ Flat \subseteq Name /\ Deep \subseteq Name /\ OutFiles \in Nat
    /\ Kid \cap {"leader", "main"} = {}

\* A file of the job's own; "foreign": a link to a file of somebody else, or
\* an entry that is no file.
Content == {"none", "own", "foreign"}
Bare == [n \in Name |-> "none"]

VARIABLES
    phase,     \* where the harness is
    unpacked,  \* [tar, result of Extracted], until the manifest is parsed
    op,        \* "script", "privileged" (a script run by root) or "vetted"
    state,     \* of the processes: "none", "run", "kill" (SIGKILL is pending),
               \* "zap" (init is dying and waits for its namespace) or "dead"
    code,      \* exit codes of main and leader
    group,     \* processes in the leader's process group
    pipe,      \* processes that have stdout or stderr of the job open
    out,       \* the output directory
    late,      \* the timeout of communicate() has passed
    rc,        \* what _exec returned
    todo,      \* collect: entries listed and not looked at
    fd,        \* the entry that is open: its name and what it was when opened
    got,       \* the collected copies
    status     \* status.json's status, or how the job was refused

procVars == <<op, state, code, group, pipe, out>>
collectVars == <<todo, fd, got>>
jobVars == <<phase, unpacked, procVars, late, rc, collectVars, status>>

Alive(p) == state[p] \in {"run", "kill"}
AllDead == \A p \in Proc : state[p] \in {"none", "dead"}
Closed == [name |-> "none", was |-> "none"]
NoTar == [tar |-> [members |-> <<>>, ends |-> "marker"], result |-> Nothing]

JobTypeOK ==
    /\ phase \in {"idle", "unpacked", "ready", "audit", "spawn", "wait", "killing",
                  "drain", "list", "collect", "shape", "done"}
    /\ op \in {"script", "privileged", "vetted"}
    /\ state \in [Proc -> {"none", "run", "kill", "zap", "dead"}]
    /\ code \in [{"leader", "main"} -> {0, 1}]
    /\ group \subseteq Proc /\ pipe \subseteq Proc
    /\ out \in [Name -> Content] /\ late \in BOOLEAN
    /\ rc \in {0, 1, 124}
    /\ todo \subseteq Name
    /\ fd \in [name : Name \cup {"none"}, was : Content]
    /\ got \in [Name -> Content]
    /\ status \in {"none", "ok", "error", "aborted", "refused", "fault"}

Still ==
    /\ unpacked = NoTar /\ op = "script"
    /\ state = [p \in Proc |-> "none"] /\ code = [p \in {"leader", "main"} |-> 0]
    /\ group = {} /\ pipe = {} /\ out = Bare
    /\ late = FALSE /\ rc = 0
    /\ todo = {} /\ fd = Closed /\ got = Bare /\ status = "none"

JobInit == phase = "idle" /\ Still

-----------------------------------------------------------------------------
(* The harness, up to the start of the job.                                *)

Step(from, to) == phase = from /\ phase' = to

\* A refusal ends the run; nothing has been executed.
Refuse(as) == phase' = "done" /\ status' = as

\* _process_mounted, step 5: extract ...
Unpack ==
    /\ Step("idle", "unpacked")
    /\ \E tar \in Tars : unpacked' = [tar |-> tar, result |-> Extracted(tar)]
    /\ UNCHANGED <<procVars, late, rc, collectVars, status>>
\* ... and manifest.parse, which refuses what else is wrong with it.
BadTar ==
    /\ phase = "unpacked" /\ unpacked' = NoTar
    /\ Refuse("refused")
    /\ UNCHANGED <<procVars, late, rc, collectVars>>
GoodTar ==
    /\ Step("unpacked", "ready") /\ unpacked' = NoTar
    /\ unpacked.result.reason = "none"
    /\ Manifest \in DOMAIN unpacked.result.tree
    /\ UNCHANGED <<procVars, late, rc, collectVars, status>>

\* dispatch.run, after K1: the job's operation, with a fresh output directory.
\* A script that is to run as root is written to the audit log first.
Dispatch ==
    /\ phase = "ready"
    /\ op' \in {"script", "privileged", "vetted"}
    /\ phase' = IF op' = "privileged" THEN "audit" ELSE "spawn"
    /\ UNCHANGED <<unpacked, state, code, group, pipe, out, late, rc, collectVars, status>>
\* DispatchError: no entrypoint, no co-signature, no handler.
DispatchRefused ==
    /\ phase = "ready" /\ Refuse("refused")
    /\ UNCHANGED <<unpacked, procVars, late, rc, collectVars>>
Audit ==
    /\ Step("audit", "spawn")
    /\ UNCHANGED <<unpacked, procVars, late, rc, collectVars, status>>
AuditFails ==
    /\ phase = "audit" /\ Refuse("fault")
    /\ UNCHANGED <<unpacked, procVars, late, rc, collectVars>>

\* _exec: Popen with a session of its own and two pipes.
First == IF op = "vetted" THEN {"leader"} ELSE {"leader", "main"}
Spawn ==
    /\ Step("spawn", "wait")
    /\ state' = [p \in Proc |-> IF p \in First THEN "run" ELSE "none"]
    /\ group' = First /\ pipe' = First
    /\ UNCHANGED <<unpacked, op, code, out, late, rc, collectVars, status>>
SpawnFails ==
    /\ phase = "spawn" /\ Refuse(IF op = "vetted" THEN "refused" ELSE "fault")
    /\ UNCHANGED <<unpacked, procVars, late, rc, collectVars>>

-----------------------------------------------------------------------------
(* The job's processes.                                                    *)

harnessVars == <<phase, unpacked, op, late, rc, collectVars, status>>
Coder == IF op = "vetted" THEN {"leader"} \cup Kid ELSE {"main"} \cup Kid

\* Any process of the job does with the output directory as it likes, one that
\* has its SIGKILL pending included.  Handlers leave files of their own only.
Write(n) ==
    /\ \E p \in Coder : Alive(p)
    /\ \E c \in IF op = "vetted" THEN {"none", "own"} ELSE Content :
          c # out[n] /\ out' = [out EXCEPT ![n] = c]
    /\ UNCHANGED <<harnessVars, state, code, group, pipe>>

\* A child is in its parent's group and has its pipes open, unless it was
\* started otherwise; a handler's children stay in its group.
Fork(p, k) ==
    /\ p \in Coder /\ state[p] = "run" /\ state[k] = "none"
    /\ state' = [state EXCEPT ![k] = "run"]
    /\ group' \in {group} \cup {group \cup {k}} /\ (op = "vetted" => k \in group')
    /\ k \in group' => p \in group
    /\ pipe' \in {pipe} \cup {pipe \cup {k}} /\ (k \in pipe' => p \in pipe)
    /\ UNCHANGED <<harnessVars, code, out>>

\* A process of a script leaves the group (setsid) or closes its pipes.
Detach(p) ==
    /\ op # "vetted" /\ p \in Coder \cap group /\ state[p] = "run"
    /\ group' = group \ {p}
    /\ UNCHANGED <<harnessVars, state, code, pipe, out>>
ClosePipes(p) ==
    /\ p \in Coder \cap pipe /\ state[p] = "run"
    /\ pipe' = pipe \ {p}
    /\ UNCHANGED <<harnessVars, state, code, group, out>>

\* A process exits, or the kernel lets it die of its SIGKILL.
Gone(p) ==
    /\ state' = [state EXCEPT ![p] = "dead"]
    /\ group' = group \ {p} /\ pipe' = pipe \ {p}
KidExits(k) ==
    /\ Alive(k) /\ Gone(k)
    /\ UNCHANGED <<harnessVars, code, out>>

\* Mutant of Zapped.
NoNamespaceMutant == [state EXCEPT !["main"] = "dead"]

\* The init of a namespace takes all of it along: the others get SIGKILL once
\* it has closed its files.
Zapped == [p \in Proc |-> CASE p = "main" -> "zap"
                            [] p \in Kid /\ state[p] = "run" -> "kill"
                            [] OTHER -> state[p]]
MainExits(c) ==
    /\ Alive("main") /\ (state["main"] = "kill" => c = 1)
    /\ code' = [code EXCEPT !["main"] = c]
    /\ state' = Zapped
    /\ group' = group \ {"main"} /\ pipe' = pipe \ {"main"}
    /\ UNCHANGED <<harnessVars, out>>
\* ... and is gone, to its parent, when they are.
MainGone ==
    /\ state["main"] = "zap" /\ \A k \in Kid : state[k] \in {"none", "dead"}
    /\ state' = [state EXCEPT !["main"] = "dead"]
    /\ UNCHANGED <<harnessVars, code, group, pipe, out>>

\* unshare exits with its child's code, a handler when its children have exited.
LeaderExits(c) ==
    /\ state["leader"] = "run" /\ Gone("leader")
    /\ IF op = "vetted" THEN \A k \in Kid : state[k] \in {"none", "dead"}
                        ELSE state["main"] = "dead" /\ c = code["main"]
    /\ code' = [code EXCEPT !["leader"] = c]
    /\ UNCHANGED <<harnessVars, out>>
\* It is killed: a main process that runs as root gets SIGKILL (--kill-child).
LeaderDies ==
    /\ state["leader"] = "kill"
    /\ state' = [state EXCEPT !["leader"] = "dead",
                              !["main"] = IF op = "privileged" /\ @ = "run" THEN "kill" ELSE @]
    /\ code' = [code EXCEPT !["leader"] = 1]
    /\ group' = group \ {"leader"} /\ pipe' = pipe \ {"leader"}
    /\ UNCHANGED <<harnessVars, out>>

-----------------------------------------------------------------------------
(* _exec: communicate(), which returns when the leader has exited and      *)
(* nobody has the pipes open.                                              *)

Communicated == state["leader"] = "dead" /\ pipe = {}

Timer ==
    /\ phase = "wait" /\ ~late /\ late' = TRUE
    /\ UNCHANGED <<phase, unpacked, procVars, rc, collectVars, status>>
Return ==
    /\ Step("wait", "list") /\ Communicated
    /\ rc' = code["leader"] /\ late' = FALSE
    /\ UNCHANGED <<unpacked, procVars, collectVars, status>>
\* TimeoutExpired; the job may just have ended all the same.
Expired ==
    /\ Step("wait", "killing") /\ late /\ late' = FALSE
    /\ UNCHANGED <<unpacked, procVars, rc, collectVars, status>>

\* Mutant of Killed.
LeaderOnlyMutant == {"leader"}

\* killpg.
Killed == group
KillGroup ==
    /\ Step("killing", "drain") /\ rc' = 124
    /\ state' = [p \in Proc |-> IF p \in Killed /\ state[p] = "run" THEN "kill" ELSE state[p]]
    /\ UNCHANGED <<unpacked, op, code, group, pipe, out, late, collectVars, status>>
\* The second communicate(), without a timeout.
Reaped ==
    /\ Step("drain", "list") /\ Communicated
    /\ UNCHANGED <<unpacked, procVars, late, rc, collectVars, status>>

-----------------------------------------------------------------------------
(* _collect_outputs and collect.                                           *)

List ==
    /\ Step("list", "collect") /\ todo' = {n \in Name : out[n] # "none"}
    /\ UNCHANGED <<unpacked, procVars, late, rc, fd, got, status>>

\* The next entry of the walk.
IsNext(n) ==
    \E i \in DOMAIN Order : /\ Order[i] = n /\ n \in todo
                            /\ \A j \in 1..i - 1 : Order[j] \notin todo
Count == Cardinality({n \in Name : got[n] # "none"})

\* An entry is opened relative to its directory without following a link, and
\* looked at through its descriptor.
OpenEntry(n) ==
    /\ phase = "collect" /\ fd = Closed /\ IsNext(n)
    /\ Count < OutFiles /\ n \notin Deep /\ out[n] = "own"
    /\ fd' = [name |-> n, was |-> out[n]] /\ todo' = todo \ {n}
    /\ UNCHANGED <<phase, unpacked, procVars, late, rc, got, status>>

\* Mutant of Source.
ByNameMutant == out[fd.name]

\* The bytes come from the descriptor.
Source == fd.was
CopyEntry ==
    /\ phase = "collect" /\ fd # Closed
    /\ got' = [got EXCEPT ![fd.name] = Source] /\ fd' = Closed
    /\ UNCHANGED <<phase, unpacked, procVars, late, rc, todo, status>>

\* CollectError: the copies are of no use.
Abandon(as) ==
    /\ phase' = "done" /\ status' = as
    /\ got' = Bare /\ todo' = {} /\ fd' = Closed
    /\ UNCHANGED <<unpacked, procVars, late, rc>>
\* cap_exceeded, path_traversal.
EntryRefused(n) ==
    /\ phase = "collect" /\ fd = Closed /\ IsNext(n)
    /\ (Count >= OutFiles \/ n \in Deep \/ out[n] = "foreign")
    /\ Abandon("aborted")
\* bad_output: listed, and gone since.
EntryGone(n) ==
    /\ phase = "collect" /\ fd = Closed /\ IsNext(n)
    /\ Count < OutFiles /\ n \notin Deep /\ out[n] = "none"
    /\ Abandon("error")
\* The tmpfs is full (cap_exceeded), or there is another error (bad_output).
CopyStops ==
    /\ phase = "collect" /\ fd # Closed
    /\ Abandon("aborted") \/ Abandon("error")
Collected ==
    /\ Step("collect", "shape") /\ todo = {} /\ fd = Closed
    /\ UNCHANGED <<unpacked, procVars, late, rc, collectVars, status>>

\* What commit() could not take is an error; the exit code decides otherwise.
ShapeRefused ==
    /\ phase = "shape" /\ \E n \in Name \ Flat : got[n] # "none"
    /\ Abandon("error")
Shape ==
    /\ Step("shape", "done") /\ \A n \in Name \ Flat : got[n] = "none"
    /\ status' = IF rc = 0 THEN "ok" ELSE "error"
    /\ UNCHANGED <<unpacked, procVars, late, rc, collectVars>>

-----------------------------------------------------------------------------

Before == Unpack \/ BadTar \/ GoodTar
Harness == \/ Dispatch \/ DispatchRefused \/ Audit \/ AuditFails \/ Spawn \/ SpawnFails
           \/ Return \/ Expired \/ KillGroup \/ Reaped
           \/ List \/ Collected \/ CopyEntry \/ CopyStops \/ ShapeRefused \/ Shape
           \/ \E n \in Name : OpenEntry(n) \/ EntryRefused(n) \/ EntryGone(n)
\* What the job does of its own accord ...
Job == \/ \E n \in Name : Write(n)
       \/ \E p \in Proc : \/ \E k \in Kid : Fork(p, k)
                          \/ Detach(p) \/ ClosePipes(p)
       \/ \E k \in Kid : state[k] = "run" /\ KidExits(k)
       \/ \E c \in {0, 1} : \/ state["main"] = "run" /\ MainExits(c)
                            \/ op = "vetted" /\ LeaderExits(c)
\* ... and what the kernel and unshare do.
Kernel == \/ \E k \in Kid : state[k] = "kill" /\ KidExits(k)
          \/ state["main"] = "kill" /\ MainExits(1)
          \/ MainGone \/ LeaderDies
          \/ \E c \in {0, 1} : op # "vetted" /\ LeaderExits(c)

JobNext == Before \/ Harness \/ Job \/ Kernel \/ Timer

\* The visit is over; what is left of the job goes with the service's cgroup.
Over == /\ phase' = "idle" /\ unpacked' = NoTar /\ op' = "script"
        /\ state' = [p \in Proc |-> "none"] /\ code' = [p \in {"leader", "main"} |-> 0]
        /\ group' = {} /\ pipe' = {} /\ out' = Bare /\ late' = FALSE /\ rc' = 0
        /\ todo' = {} /\ fd' = Closed /\ got' = Bare /\ status' = "none"

JobEnds == phase = "done" /\ Over

JobSpec == JobInit /\ [][JobNext \/ JobEnds]_jobVars

\* The harness and the kernel are scheduled and the timer runs; the job need
\* not do anything, and may do anything for ever.
JobFair == WF_jobVars(Harness) /\ WF_jobVars(Kernel) /\ WF_jobVars(Timer)

-----------------------------------------------------------------------------
(* Properties.                                                             *)

\* An archive is unpacked exactly or refused for its first offence.  Unpacked:
\* each member is a regular file with a safe name, within the caps, no name is a
\* directory of another, each file has the contents of its last member, and all
\* its data are there.  Refused: the members before the first one that is not
\* acceptable after them are in the tree, under safe names and within the caps,
\* or all of them, when it is the archive that breaks off.  What follows the
\* first broken header is not part of the archive (_extract_into).
PayloadExact == phase = "unpacked" => Exactly(unpacked.tar, unpacked.result)

\* A job that is reported ok has ended by itself with 0, no process of it is
\* left, and what is committed is all that it left, under names that can be
\* delivered; one whose outputs were refused delivers none (_exec, collect,
\* _collect_outputs).
OkMeansComplete ==
    /\ status = "ok" =>
          /\ code["leader"] = 0 /\ AllDead
          /\ got = out /\ \A n \in Name \ Flat : out[n] = "none"
    /\ status \in {"aborted", "refused", "fault"} => got = Bare

\* What is collected are the job's own files, whatever processes that have
\* outlived the timeout do to the directory meanwhile (_open_source_nofollow).
OwnBytesOnly == \A n \in Name : got[n] # "foreign"

\* A job that does not end is ended: the harness comes to a status and no
\* process is left, unless the first process of a confined script has left the
\* group before killpg and stays (_exec).
Strayed == op = "script" /\ Alive("main") /\ "main" \notin group
TimeoutEnds == phase = "wait" ~> (phase \in {"done", "idle"} /\ AllDead) \/ []Strayed
==============================================================================
