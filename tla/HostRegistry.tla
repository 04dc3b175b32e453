---------------------------- MODULE HostRegistry ----------------------------
(***************************************************************************)
(* Which host has which overlay address: registry.json (registry.py), the  *)
(* two handlers that sign certificates (box/handlers/sign-hosts and        *)
(* rotate-ca) and the boot pass that rebuilds registry.json from the       *)
(* allocation records of the committed jobs (ca-usb-run --reconcile).      *)
(*                                                                         *)
(* A job signs its hosts one by one against a registry in memory, saves    *)
(* that registry once, and returns; the harness then commits whatever the  *)
(* handler left, one alloc-<name>.json for each host signed, whether it    *)
(* succeeded or not.  Committing is one step here (CommitLog has the       *)
(* detail).  A certificate is represented by its allocation record.        *)
(***************************************************************************)
EXTENDS Naturals

CONSTANTS Name,       (* host names, as numbers: their sorted order        *)
          Ip,         (* the allocatable addresses, as numbers             *)
          PubKey,     (* nebula public keys                                *)
          NoKey,      (* "not in the job"                                  *)
          NoHost,     (* "not in the registry"                             *)
          SeqNo,      (* sequence numbers of jobs                          *)
          Multiplier  (* room for the hosts of a job between two of them   *)

ASSUME NumbersAssumption ==
    Name \subseteq Nat /\ Ip \subseteq Nat /\ SeqNo \subseteq Nat \ {0}
ASSUME MultiplierAssumption == Multiplier \in Nat \ {0}
\* "comfortably larger than [...] any realistic fleet size" (rotate-ca), so that
\* the numbers of a job stay below those of the next.
ASSUME NamesAssumption == Name \subseteq 1..Multiplier

Host == [ip : Ip, key : PubKey]
ASSUME NullAssumption == NoKey \notin PubKey /\ NoHost \notin Host

Registry == [Name -> Host \cup {NoHost}]
AllocRecord == [name : Name, ip : Ip, key : PubKey, seq : Nat]

\* A handler at work: the keys it has to sign, by host, those left to do, the
\* registry in memory and the records in out_dir.
Job == [seq : SeqNo, want : [Name -> PubKey \cup {NoKey}], todo : SUBSET Name,
        index : Nat, reg : Registry, made : SUBSET AllocRecord]
NoJob == NoHost

VARIABLES
    hosts,     \* registry.json
    records,   \* results/*/alloc-*.json of the committed jobs
    last,      \* the highest committed seq
    pc, job,   \* the handler at work
    salvaged,  \* history: names a failed job committed a record of although
               \* registry.json does not have them
    clean      \* history: since the last rebuild every job that changed the
               \* registry or committed records did both

vars == <<hosts, records, last, pc, job, salvaged, clean>>

TypeOK ==
    /\ hosts \in Registry
    /\ records \subseteq AllocRecord
    /\ last \in SeqNo \cup {0}
    /\ pc \in {"off", "idle", "sign", "save", "commit"}
    /\ pc \in {"sign", "save", "commit"} => job \in Job
    /\ salvaged \subseteq Name /\ clean \in BOOLEAN

Unregistered == [n \in Name |-> NoHost]

\* A box whose CA has just been made.
Init ==
    /\ hosts = Unregistered /\ records = {} /\ last = 0
    /\ pc = "idle" /\ job = NoJob
    /\ salvaged = {} /\ clean = TRUE

-----------------------------------------------------------------------------
(* A fresh job reaches its handler.                                        *)

Begin(s, want) ==
    /\ pc = "idle" /\ s > last
    /\ pc' = "sign"
    /\ job' = [seq |-> s, want |-> want, todo |-> {n \in Name : want[n] # NoKey},
               index |-> 0, reg |-> hosts, made |-> {}]
    /\ UNCHANGED <<hosts, records, last, salvaged, clean>>

\* sign-hosts: the hosts of the manifest, with the keys on the stick.
SignHosts(s, want) == want # [n \in Name |-> NoKey] /\ Begin(s, want)

\* rotate-ca: every host of the registry, with the key stored for it.
Stored == [n \in Name |-> IF hosts[n] = NoHost THEN NoKey ELSE hosts[n].key]
RotateCa(s) == Begin(s, Stored)

-----------------------------------------------------------------------------
(* allocate, nebula-cert sign, record, for one host after the other.       *)

Assigned == {job.reg[m].ip : m \in {n \in Name : job.reg[n] # NoHost}}

\* Mutant of Free.
FreeMutant == Ip \ {hosts[m].ip : m \in {n \in Name : hosts[n] # NoHost}}

\* _next_free_ip looks at the registry in memory.
Free == Ip \ Assigned
LowestFree == {a \in Free : \A b \in Free : a <= b}

\* Another name is bound to the key.
Conflict(n) == \E m \in Name : job.reg[m] # NoHost /\ job.reg[m].key = job.want[n]

\* Mutant of Allocate.
ReallocateMutant(n) == IF Conflict(n) THEN {} ELSE LowestFree

\* The address allocate() returns, if any: a name keeps its own, whatever key
\* it comes with now; a new name gets the lowest free one.
Allocate(n) ==
    IF job.reg[n] # NoHost THEN {job.reg[n].ip}
    ELSE IF Conflict(n) THEN {} ELSE LowestFree

AllocSeq == job.seq * Multiplier + job.index

SignNext(n) ==
    /\ pc = "sign" /\ n \in job.todo /\ \A m \in job.todo : n <= m
    /\ \E a \in Allocate(n) :
         job' = [job EXCEPT
                   !.todo = @ \ {n},
                   !.index = @ + 1,
                   !.reg[n] = [ip |-> a, key |-> job.want[n]],
                   !.made = @ \cup {[name |-> n, ip |-> a, key |-> job.want[n],
                                     seq |-> AllocSeq]}]
    /\ UNCHANGED <<hosts, records, last, pc, salvaged, clean>>

\* All are signed (rotate-ca: and the new CA is in place).
AllSigned ==
    /\ pc = "sign" /\ job.todo = {}
    /\ pc' = "save"
    /\ UNCHANGED <<hosts, records, last, job, salvaged, clean>>

\* name_conflict, pool_exhausted, a nonzero nebula-cert, an OSError, the
\* dispatcher's timeout: the handler fails, what is in out_dir stays there.
HandlerFails ==
    /\ pc = "sign"
    /\ pc' = "commit"
    /\ UNCHANGED <<hosts, records, last, job, salvaged, clean>>

\* registry.save, once; it may raise before its rename or after it.
Save ==
    /\ pc = "save" /\ pc' = "commit"
    /\ hosts' = job.reg
    /\ UNCHANGED <<records, last, job, salvaged, clean>>
SaveFails ==
    /\ pc = "save" /\ pc' = "commit"
    /\ UNCHANGED <<hosts, records, last, job, salvaged, clean>>

-----------------------------------------------------------------------------
(* The harness, after the handler and at boot.                             *)

\* The job is committed with its outputs, or with none when they cannot be
\* collected (cap_exceeded, bad_output).
Commit ==
    /\ pc = "commit" /\ pc' = "idle" /\ job' = NoJob
    /\ last' = job.seq
    /\ \E kept \in {job.made, {}} :
         /\ records' = records \cup kept
         /\ salvaged' = salvaged \cup {r.name : r \in {k \in kept : hosts[k.name] = NoHost}}
         /\ clean' = (clean /\ hosts = job.reg /\ kept = job.made)
    /\ UNCHANGED hosts

Unsettled == clean' = (clean /\ (pc = "commit" => hosts = job.reg /\ job.made = {}))

\* The job ends before DONE: the stick is pulled, or commit raises.
Abort ==
    /\ pc \in {"sign", "save", "commit"} /\ pc' = "idle" /\ job' = NoJob
    /\ Unsettled
    /\ UNCHANGED <<hosts, records, last, salvaged>>
PowerCut ==
    /\ pc # "off" /\ pc' = "off" /\ job' = NoJob
    /\ Unsettled
    /\ UNCHANGED <<hosts, records, last, salvaged>>

Of(n) == {r \in records : r.name = n}

\* Mutant of Rebuilt.
FirstKeyMutant ==
    [n \in Name |->
        IF Of(n) = {} THEN NoHost
        ELSE LET first == CHOOSE r \in Of(n) : \A q \in Of(n) : r.seq <= q.seq
             IN [ip |-> first.ip, key |-> first.key]]

\* registry.reconcile, over the records in the order of their seq: the first
\* record of a name settles its address, the last one everything else.
Rebuilt ==
    [n \in Name |->
        IF Of(n) = {} THEN NoHost
        ELSE LET first == CHOOSE r \in Of(n) : \A q \in Of(n) : r.seq <= q.seq
                 newest == CHOOSE r \in Of(n) : \A q \in Of(n) : q.seq <= r.seq
             IN [ip |-> first.ip, key |-> newest.key]]

Rebuild ==
    /\ pc = "off" /\ pc' = "idle"
    /\ hosts' = Rebuilt /\ clean' = TRUE
    /\ UNCHANGED <<records, last, job, salvaged>>

\* The rebuild is not fatal: if it fails, registry.json stays as it is.
SkipRebuild ==
    /\ pc = "off" /\ pc' = "idle"
    /\ UNCHANGED <<hosts, records, last, job, salvaged, clean>>

Next ==
    \/ \E s \in SeqNo : \/ \E want \in [Name -> PubKey \cup {NoKey}] : SignHosts(s, want)
                        \/ RotateCa(s)
    \/ \E n \in Name : SignNext(n)
    \/ AllSigned \/ HandlerFails \/ Save \/ SaveFails
    \/ Commit \/ Abort \/ PowerCut \/ Rebuild \/ SkipRebuild

Spec == Init /\ [][Next]_vars

-----------------------------------------------------------------------------
(* Properties.                                                             *)

\* Two hosts never share an address, in registry.json or in the certificates
\* of a job at work, as long as no failed job has committed a certificate of a
\* name the registry does not know: not across re-keys, rotations, failed
\* saves, lost jobs, rebuilds or rebuilds that failed.
DistinctIps ==
    salvaged = {} =>
        \A m, n \in Name :
            hosts[m] # NoHost /\ hosts[n] # NoHost /\ hosts[m].ip = hosts[n].ip => m = n

\* Under the same proviso, every committed certificate has the address
\* registry.json has for the name: none is ever orphaned by a later job, by a
\* rebuild, or by losing the registry's update and keeping the record.
CertsMatch ==
    salvaged = {} =>
        \A r \in records : hosts[r.name] # NoHost /\ hosts[r.name].ip = r.ip

\* registry.json is a rebuildable cache: on a box whose jobs ran to their end
\* since the last rebuild, a rebuild from the records changes nothing.
CacheIsRebuildable == clean /\ pc \in {"off", "idle", "sign", "save"} => hosts = Rebuilt

\* "If a registry.json rebuild ever handed an already-used name a DIFFERENT IP,
\* every cert issued against the old address would silently stop matching"
\* (registry.py): a name whose newest certificate matches the registry keeps
\* that address in the next registry, whatever became of the jobs before.
Newest(r) == \A q \in Of(r.name) : q.seq <= r.seq
IpStable ==
    [][\A r \in records :
          Newest(r) /\ hosts[r.name] # NoHost /\ hosts[r.name].ip = r.ip =>
              hosts'[r.name] # NoHost /\ hosts'[r.name].ip = r.ip]_vars
==============================================================================
