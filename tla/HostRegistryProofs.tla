-------------------------- MODULE HostRegistryProofs --------------------------
(***************************************************************************)
(* Proofs about HostRegistry, for every set of names, addresses, keys and  *)
(* sequence numbers.                                                       *)
(*                                                                         *)
(* Addresses stay distinct through a rebuild because, as long as nothing   *)
(* has been salvaged, every record has the address registry.json has for   *)
(* its name: whichever of a name's records the rebuild takes, the address  *)
(* is the same.  That a record can be taken at all rests on the sequence   *)
(* numbers, which have a smallest and, being bounded, a greatest.          *)
(* The rebuild gives the same keys because each job numbers its records    *)
(* above those of all jobs before it, and no number twice (Numbered).      *)
(***************************************************************************)
EXTENDS HostRegistry, TLAPS, WellFoundedInduction

AtWork == {"sign", "save", "commit"}

\* Two names of a registry never have one address.
Distinct(reg) ==
    \A m, n \in Name : reg[m] # NoHost /\ reg[n] # NoHost /\ reg[m].ip = reg[n].ip => m = n
\* A registry has the certificate's name, under the certificate's address.
Fits(r, reg) == reg[r.name] # NoHost /\ reg[r.name].ip = r.ip
\* A registry has what another has, under the same addresses.
Extends(reg, old) ==
    \A n \in Name : old[n] # NoHost => reg[n] # NoHost /\ reg[n].ip = old[n].ip

\* The sequence numbers of the records are bounded.
Bounded(S) == \E b \in Nat : \A r \in S : r.seq <= b
RecordsBounded == Bounded(records) /\ (pc \in AtWork => Bounded(job.made))

\* The registry in memory extends registry.json by distinct addresses, and the
\* records of the job are in it.
MemoryFits ==
    pc \in AtWork =>
        /\ Extends(job.reg, hosts)
        /\ \A r \in job.made : Fits(r, job.reg)
        /\ salvaged = {} => Distinct(job.reg)
RegistryFits == salvaged = {} => Distinct(hosts) /\ \A r \in records : Fits(r, hosts)

\* What is to be signed has a key.
Wanted == pc \in AtWork => \A n \in job.todo : job.want[n] # NoKey

RegInv == TypeOK /\ RecordsBounded /\ MemoryFits /\ Wanted /\ RegistryFits

\* The entry reconcile makes for a name out of records with numbers of their own.
Entry(S, n, h) ==
    LET of == {r \in S : r.name = n} IN
    /\ of = {} => h = NoHost
    /\ of # {} => \E first, newest \in of :
                    /\ \A q \in of : first.seq <= q.seq /\ q.seq <= newest.seq
                    /\ h = [ip |-> first.ip, key |-> newest.key]
Gives(S, reg) == \A n \in Name : Entry(S, n, reg[n])

\* No two records of a name have one number.
Ordered(S) == \A r, q \in S : r.name = q.name /\ r.seq = q.seq => r = q

\* Every job numbers its records above those of the jobs committed before.
Numbered ==
    /\ Ordered(records) /\ \A r \in records : r.seq < (last + 1) * Multiplier
    /\ pc \in AtWork =>
         /\ job.seq > last
         /\ \A n \in job.todo : job.index < n
         /\ \A r \in job.made : /\ r.name \notin job.todo
                                /\ job.seq * Multiplier <= r.seq
                                /\ r.seq < (job.seq + 1) * Multiplier
         /\ \A r, q \in job.made : r.name = q.name => r = q

\* The registry, and the one in memory, are what the records say.
Cached ==
    clean => /\ pc \in {"off", "idle", "sign", "save"} => Gives(records, hosts)
             /\ pc \in AtWork => Gives(records \cup job.made, job.reg)

CacheInv == RegInv /\ Numbered /\ Cached

\* What the assumptions say of the constants.
LEMMA Numbers == /\ Name \subseteq Nat /\ Ip \subseteq Nat /\ SeqNo \subseteq Nat
                 /\ Multiplier \in Nat /\ NoKey \notin PubKey /\ NoHost \notin Host
  BY NumbersAssumption, MultiplierAssumption, NullAssumption

-----------------------------------------------------------------------------
(* The rebuild.                                                            *)

\* A set of numbers with a member has a least one.
LEMMA LeastNumber ==
  ASSUME NEW N \in SUBSET Nat, N # {} PROVE \E n \in N : \A m \in N : n <= m
  <1> DEFINE Less == OpToRel(<, Nat)
  <1>1. IsWellFoundedOn(Less, Nat)
    BY NatLessThanWellFounded
  <1>2. \A x, y \in Nat : x < y => <<x, y>> \in Less
    BY DEF OpToRel
  <1> HIDE DEF Less
  <1>3. \E n \in N : \A m \in N : ~(<<m, n>> \in Less)
    BY <1>1, WFMin
  <1>4. \A x, y \in Nat : ~(x < y) => y <= x
    OBVIOUS
  <1>5. \A x, y \in Nat : ~(<<x, y>> \in Less) => y <= x
    BY <1>2, <1>4, Zenon
  <1> QED  BY <1>3, <1>5, Zenon

\* Among some records there is a first one.
LEMMA FirstOf ==
  ASSUME NEW S \in SUBSET AllocRecord, S # {}
  PROVE  \E r \in S : \A q \in S : r.seq <= q.seq
  <1> DEFINE N == {r.seq : r \in S}
  <1>1. N \in SUBSET Nat /\ N # {}
    BY DEF AllocRecord
  <1>2. \E n \in N : \A m \in N : n <= m
    <2> HIDE DEF N
    <2> QED  BY <1>1, LeastNumber
  <1> QED  BY <1>2

\* Among some records with bounded numbers there is a newest one.
LEMMA NewestOf ==
  ASSUME NEW S \in SUBSET AllocRecord, S # {}, Bounded(S)
  PROVE  \E r \in S : \A q \in S : q.seq <= r.seq
  <1>1. PICK b \in Nat : \A r \in S : r.seq <= b
    BY DEF Bounded
  <1> DEFINE N == {b - r.seq : r \in S}
  <1>2. \A r \in S : r.seq \in Nat
    BY DEF AllocRecord
  <1>3. N \in SUBSET Nat /\ N # {}
    BY <1>1, <1>2
  <1>4. \E n \in N : \A m \in N : n <= m
    <2> HIDE DEF N
    <2> QED  BY <1>3, LeastNumber
  <1>5. PICK r \in S : \A q \in S : b - r.seq <= b - q.seq
    BY <1>4
  <1> QED  BY <1>1, <1>2, <1>5

\* What reconcile makes of the records: a name has a host if it has a record,
\* and the host has the address of one of them and the key of one of them.
LEMMA RebuiltHost ==
  ASSUME RegInv, NEW n \in Name
  PROVE  /\ Of(n) = {} => Rebuilt[n] = NoHost
         /\ Of(n) # {} => \E r, q \in Of(n) : Rebuilt[n] = [ip |-> r.ip, key |-> q.key]
  <1>1. Of(n) \in SUBSET AllocRecord /\ Bounded(Of(n))
    BY DEF RegInv, TypeOK, RecordsBounded, Of, Bounded
  <1>2. CASE Of(n) = {}
    BY <1>2 DEF Rebuilt
  <1>3. CASE Of(n) # {}
    <2> DEFINE first == CHOOSE r \in Of(n) : \A q \in Of(n) : r.seq <= q.seq
               newest == CHOOSE r \in Of(n) : \A q \in Of(n) : q.seq <= r.seq
    <2>1. first \in Of(n)
      BY <1>1, <1>3, FirstOf
    <2>2. newest \in Of(n)
      BY <1>1, <1>3, NewestOf
    <2>3. Rebuilt[n] = [ip |-> first.ip, key |-> newest.key]
      BY <1>3 DEF Rebuilt
    <2> HIDE DEF first, newest
    <2> QED  BY <1>3, <2>1, <2>2, <2>3
  <1> QED  BY <1>2, <1>3

\* A rebuild yields a registry.
LEMMA RebuiltType == RegInv => Rebuilt \in Registry
  <1> SUFFICES ASSUME RegInv, NEW n \in Name PROVE Rebuilt[n] \in Host \cup {NoHost}
    BY DEF Registry, Rebuilt
  <1>1. \A r \in Of(n) : r.ip \in Ip /\ r.key \in PubKey
    BY DEF RegInv, TypeOK, Of, AllocRecord
  <1>2. CASE Of(n) = {}
    BY <1>2, RebuiltHost
  <1>3. CASE Of(n) # {}
    <2>1. PICK r \in Of(n), q \in Of(n) : Rebuilt[n] = [ip |-> r.ip, key |-> q.key]
      BY <1>3, RebuiltHost
    <2> QED  BY <1>1, <2>1 DEF Host
  <1> QED  BY <1>2, <1>3

\* The boot pass rebuilds registry.json.
LEMMA RebuildStep == RegInv /\ Rebuild => RegInv'
  <1> SUFFICES ASSUME RegInv, Rebuild PROVE RegInv'
    OBVIOUS
  <1>1. /\ pc' = "idle" /\ hosts' = Rebuilt /\ clean' = TRUE
        /\ UNCHANGED <<records, last, job, salvaged>>
    BY DEF Rebuild
  <1>2. TypeOK'
    BY <1>1, RebuiltType DEF RegInv, TypeOK
  <1>3. RecordsBounded' /\ MemoryFits' /\ Wanted'
    BY <1>1 DEF RegInv, RecordsBounded, Bounded, MemoryFits, Wanted, AtWork
  <1>4. ASSUME salvaged = {}
        PROVE  Distinct(Rebuilt) /\ \A r \in records : Fits(r, Rebuilt)
    <2>1. Distinct(hosts) /\ \A r \in records : Fits(r, hosts)
      BY <1>4 DEF RegInv, RegistryFits
    <2>2. ASSUME NEW n \in Name, Of(n) # {}
          PROVE  Rebuilt[n] # NoHost /\ hosts[n] # NoHost /\ Rebuilt[n].ip = hosts[n].ip
      <3>1. PICK r \in Of(n), q \in Of(n) : Rebuilt[n] = [ip |-> r.ip, key |-> q.key]
        BY <2>2, RebuiltHost
      <3>2. hosts[n] # NoHost /\ hosts[n].ip = r.ip
        BY <2>1 DEF Of, Fits
      <3>3. [ip |-> r.ip, key |-> q.key] \in Host
        BY DEF RegInv, TypeOK, Of, AllocRecord, Host
      <3> QED  BY <3>1, <3>2, <3>3, Numbers
    <2>3. Distinct(Rebuilt)
      BY <2>1, <2>2, RebuiltHost DEF Distinct
    <2>4. ASSUME NEW r \in records PROVE Fits(r, Rebuilt)
      <3>1. r.name \in Name /\ r \in Of(r.name)
        BY DEF RegInv, TypeOK, AllocRecord, Of
      <3> QED  BY <2>1, <2>2, <3>1 DEF Fits
    <2> QED  BY <2>3, <2>4
  <1>5. RegistryFits'
    BY <1>1, <1>4 DEF RegistryFits, Distinct, Fits
  <1> QED  BY <1>2, <1>3, <1>5 DEF RegInv

-----------------------------------------------------------------------------
(* The handler and the harness.                                            *)

\* No host, no record.
LEMMA RegInvInit == Init => RegInv
  <1> SUFFICES ASSUME Init PROVE RegInv
    OBVIOUS
  <1> USE DEF Init
  <1>1. TypeOK
    BY DEF TypeOK, Unregistered, Registry
  <1>2. RecordsBounded /\ MemoryFits /\ Wanted /\ RegistryFits
    BY DEF RecordsBounded, Bounded, MemoryFits, Wanted, RegistryFits, AtWork, Unregistered,
           Distinct
  <1> QED  BY <1>1, <1>2 DEF RegInv

\* A handler begins with a copy of registry.json.
LEMMA BeginStep ==
  ASSUME RegInv, NEW s \in SeqNo, NEW want \in [Name -> PubKey \cup {NoKey}], Begin(s, want)
  PROVE  RegInv'
  <1>1. /\ pc' = "sign" /\ UNCHANGED <<hosts, records, last, salvaged, clean>>
        /\ job' = [seq |-> s, want |-> want, todo |-> {n \in Name : want[n] # NoKey},
                   index |-> 0, reg |-> hosts, made |-> {}]
    BY DEF Begin
  <1>2. job' \in Job /\ job'.reg = hosts /\ job'.made = {} /\ job'.want = want
        /\ job'.todo = {n \in Name : want[n] # NoKey}
    BY <1>1 DEF Job, RegInv, TypeOK
  <1>3. TypeOK'
    BY <1>1, <1>2 DEF RegInv, TypeOK
  <1>4. RecordsBounded'
    BY <1>1, <1>2 DEF RegInv, RecordsBounded, Bounded
  <1>5. MemoryFits' /\ RegistryFits' /\ Wanted'
    BY <1>1, <1>2 DEF RegInv, MemoryFits, RegistryFits, Extends, Fits, Distinct, Wanted
  <1> QED  BY <1>3, <1>4, <1>5 DEF RegInv

\* Signing a host leaves every other host alone, and gives a new one an address
\* that none has.
LEMMA SignStep == ASSUME RegInv, NEW n \in Name, SignNext(n) PROVE RegInv'
  <1>1. /\ pc = "sign" /\ n \in job.todo /\ pc' = "sign"
        /\ UNCHANGED <<hosts, records, last, salvaged, clean>>
    BY DEF SignNext
  <1>2. job \in Job /\ job.want[n] \in PubKey
    BY <1>1 DEF RegInv, TypeOK, Wanted, AtWork, Job
  <1>3. PICK a \in Allocate(n) :
          job' = [job EXCEPT
                    !.todo = @ \ {n},
                    !.index = @ + 1,
                    !.reg[n] = [ip |-> a, key |-> job.want[n]],
                    !.made = @ \cup {[name |-> n, ip |-> a, key |-> job.want[n],
                                      seq |-> AllocSeq]}]
    BY DEF SignNext
  <1> DEFINE h == [ip |-> a, key |-> job.want[n]]
             r == [name |-> n, ip |-> a, key |-> job.want[n], seq |-> AllocSeq]
  <1>4. /\ job'.reg = [job.reg EXCEPT ![n] = h] /\ job'.made = job.made \cup {r}
        /\ job'.todo = job.todo \ {n} /\ job'.index = job.index + 1
        /\ job'.want = job.want /\ job'.seq = job.seq
    BY <1>2, <1>3 DEF Job
  <1>5. /\ job.reg \in [Name -> Host \cup {NoHost}]
        /\ job.reg[n] # NoHost => a = job.reg[n].ip
        /\ job.reg[n] = NoHost => a \in Ip /\ a \notin Assigned
    BY <1>2, <1>3 DEF Allocate, LowestFree, Free, Job, Registry
  <1>6. a \in Ip /\ h \in Host /\ h # NoHost /\ h.ip = a
    BY <1>2, <1>5, Numbers DEF Host
  <1>7. AllocSeq \in Nat
    <2>1. job.seq \in Nat /\ job.index \in Nat /\ Multiplier \in Nat
      BY <1>2, Numbers DEF Job
    <2>2. \A x, y, z \in Nat : x * y + z \in Nat
      OBVIOUS
    <2> QED  BY <2>1, <2>2, ZenonT(20) DEF AllocSeq
  <1>8. r \in AllocRecord
    BY <1>2, <1>6, <1>7 DEF AllocRecord
  <1>9. job' \in Job
    <2>1. job'.reg \in Registry
      BY <1>4, <1>5, <1>6 DEF Registry
    <2>2. job'.made \subseteq AllocRecord
      BY <1>2, <1>4, <1>8 DEF Job
    <2>3. job' = [seq |-> job'.seq, want |-> job'.want, todo |-> job'.todo,
                  index |-> job'.index, reg |-> job'.reg, made |-> job'.made]
      BY <1>2, <1>3 DEF Job
    <2> QED  BY <1>2, <1>4, <2>1, <2>2, <2>3 DEF Job
  <1>10. TypeOK' /\ Wanted'
    BY <1>1, <1>4, <1>9 DEF RegInv, TypeOK, Wanted, AtWork
  <1>11. RecordsBounded'
    <2>1. PICK b \in Nat : \A q \in job.made : q.seq <= b
      BY <1>1 DEF RegInv, RecordsBounded, Bounded, AtWork
    <2>2. PICK c \in Nat : b <= c /\ AllocSeq <= c
      BY <1>7
    <2>3. \A q \in job'.made : q.seq <= c
      <3>1. \A q \in job.made : q.seq \in Nat
        BY <1>2 DEF Job, AllocRecord
      <3> QED  BY <1>4, <1>7, <2>1, <2>2, <3>1
    <2> QED  BY <1>1, <2>3 DEF RegInv, RecordsBounded, Bounded
  <1>12. /\ Extends(job.reg, hosts) /\ \A q \in job.made : Fits(q, job.reg)
         /\ salvaged = {} => Distinct(job.reg)
    BY <1>1 DEF RegInv, MemoryFits, AtWork
  <1>13. \A m \in Name : /\ m # n => job'.reg[m] = job.reg[m]
                         /\ m = n => job'.reg[m] = h
    BY <1>4, <1>5
  <1>14. Extends(job'.reg, job.reg)
    BY <1>5, <1>6, <1>13 DEF Extends
  <1>15. MemoryFits'
    <2>1. Extends(job'.reg, hosts)
      BY <1>12, <1>14 DEF Extends
    <2>2. \A q \in job'.made : Fits(q, job'.reg)
      <3>1. \A q \in job.made : q.name \in Name
        BY <1>2 DEF Job, AllocRecord
      <3>2. \A q \in job.made : Fits(q, job'.reg)
        BY <1>12, <1>14, <3>1 DEF Fits, Extends
      <3>3. Fits(r, job'.reg)
        BY <1>6, <1>13 DEF Fits
      <3> QED  BY <1>4, <3>2, <3>3
    <2>3. ASSUME Distinct(job.reg) PROVE Distinct(job'.reg)
      <3>1. \A m \in Name : job.reg[m] # NoHost /\ m # n => job.reg[m].ip # a
        BY <1>5, <2>3 DEF Distinct, Assigned
      <3> QED  BY <1>6, <1>13, <2>3, <3>1 DEF Distinct
    <2> QED  BY <1>1, <1>12, <2>1, <2>2, <2>3 DEF MemoryFits
  <1>16. RegistryFits'
    BY <1>1 DEF RegInv, RegistryFits
  <1> QED  BY <1>10, <1>11, <1>15, <1>16 DEF RegInv

\* The registry in memory becomes registry.json.
LEMMA SaveStep == RegInv /\ Save => RegInv'
  <1> SUFFICES ASSUME RegInv, Save PROVE RegInv'
    OBVIOUS
  <1>1. /\ pc = "save" /\ pc' = "commit" /\ hosts' = job.reg
        /\ UNCHANGED <<records, last, job, salvaged, clean>>
    BY DEF Save
  <1>2. job \in Job /\ Extends(job.reg, hosts) /\ \A r \in job.made : Fits(r, job.reg)
    BY <1>1 DEF RegInv, TypeOK, MemoryFits, AtWork
  <1>3. TypeOK' /\ Wanted' /\ RecordsBounded'
    BY <1>1, <1>2 DEF RegInv, TypeOK, Job, Wanted, RecordsBounded, Bounded, AtWork
  <1>4. MemoryFits'
    BY <1>1, <1>2 DEF RegInv, MemoryFits, AtWork, Extends
  <1>5. RegistryFits'
    <2>1. \A r \in records : r.name \in Name
      BY DEF RegInv, TypeOK, AllocRecord
    <2> QED
      BY <1>1, <1>2, <2>1 DEF RegInv, RegistryFits, MemoryFits, AtWork, Extends, Fits
  <1> QED  BY <1>3, <1>4, <1>5 DEF RegInv

\* The records of a job are committed, its registry saved or not.
LEMMA CommitStep == RegInv /\ Commit => RegInv'
  <1> SUFFICES ASSUME RegInv, Commit PROVE RegInv'
    OBVIOUS
  <1>1. PICK kept \in {job.made, {}} :
          /\ records' = records \cup kept
          /\ salvaged' = salvaged \cup {r.name : r \in {k \in kept : hosts[k.name] = NoHost}}
          /\ clean' = (clean /\ hosts = job.reg /\ kept = job.made)
    BY DEF Commit
  <1>2. pc = "commit" /\ pc' = "idle" /\ last' = job.seq /\ hosts' = hosts
    BY DEF Commit
  <1>3. job \in Job /\ kept \subseteq AllocRecord
    BY <1>1, <1>2 DEF RegInv, TypeOK, Job
  <1>4. TypeOK'
    <2>1. clean' \in BOOLEAN
      BY <1>1
    <2> QED  BY <1>1, <1>2, <1>3, <2>1 DEF RegInv, TypeOK, Job, AllocRecord
  <1>5. RecordsBounded'
    <2>1. PICK b \in Nat : \A r \in records : r.seq <= b
      BY DEF RegInv, RecordsBounded, Bounded
    <2>2. PICK c \in Nat : \A r \in kept : r.seq <= c
      BY <1>1, <1>2 DEF RegInv, RecordsBounded, Bounded, AtWork
    <2>3. \A r \in records \cup kept : r.seq \in Nat
      BY <1>3 DEF RegInv, TypeOK, AllocRecord
    <2>4. PICK d \in Nat : b <= d /\ c <= d
      OBVIOUS
    <2>5. \A r \in records' : r.seq <= d
      BY <1>1, <2>1, <2>2, <2>3, <2>4
    <2> QED  BY <1>2, <2>5 DEF RecordsBounded, Bounded, AtWork
  <1>6. MemoryFits' /\ Wanted'
    BY <1>2 DEF MemoryFits, Wanted, AtWork
  <1>7. ASSUME salvaged' = {} PROVE Distinct(hosts) /\ \A r \in records' : Fits(r, hosts)
    <2>1. salvaged = {} /\ \A r \in kept : hosts[r.name] # NoHost
      BY <1>1, <1>7
    <2>2. ASSUME NEW r \in kept PROVE Fits(r, hosts)
      <3>1. r.name \in Name /\ Fits(r, job.reg) /\ Extends(job.reg, hosts)
        BY <1>1, <1>2, <1>3 DEF RegInv, MemoryFits, AtWork, AllocRecord
      <3> QED  BY <2>1, <3>1 DEF Fits, Extends
    <2> QED  BY <1>1, <2>1, <2>2 DEF RegInv, RegistryFits
  <1>8. RegistryFits'
    BY <1>2, <1>7 DEF RegistryFits, Distinct, Fits
  <1> QED  BY <1>4, <1>5, <1>6, <1>8 DEF RegInv

\* Steps that change none of registry.json, the records and the memory.
LEMMA OtherStep ==
  RegInv /\ (\/ AllSigned \/ HandlerFails \/ SaveFails \/ Abort \/ PowerCut \/ SkipRebuild
             \/ UNCHANGED vars) => RegInv'
  <1> SUFFICES ASSUME RegInv, \/ AllSigned \/ HandlerFails \/ SaveFails \/ Abort \/ PowerCut
                              \/ SkipRebuild \/ UNCHANGED vars
               PROVE  RegInv'
    OBVIOUS
  <1>1. /\ UNCHANGED <<hosts, records, last, salvaged>> /\ clean' \in BOOLEAN
        /\ pc' \in {"off", "idle", "sign", "save", "commit"}
        /\ pc' \in AtWork => pc \in AtWork /\ job' = job
    BY DEF AllSigned, HandlerFails, SaveFails, Abort, PowerCut, SkipRebuild, vars, Unsettled,
           AtWork, RegInv, TypeOK
  <1>2. TypeOK' /\ Wanted'
    BY <1>1 DEF RegInv, TypeOK, Wanted, AtWork
  <1>3. RecordsBounded'
    BY <1>1 DEF RegInv, RecordsBounded, Bounded
  <1>4. MemoryFits' /\ RegistryFits'
    BY <1>1 DEF RegInv, MemoryFits, RegistryFits, Extends, Fits, Distinct
  <1> QED  BY <1>2, <1>3, <1>4 DEF RegInv

\* Every step keeps RegInv.
LEMMA RegInvStep == RegInv /\ [Next]_vars => RegInv'
  <1> SUFFICES ASSUME RegInv, [Next]_vars PROVE RegInv'
    OBVIOUS
  <1>1. ASSUME NEW s \in SeqNo, NEW want \in [Name -> PubKey \cup {NoKey}], SignHosts(s, want)
        PROVE  RegInv'
    BY <1>1, BeginStep DEF SignHosts
  <1>2. ASSUME NEW s \in SeqNo, RotateCa(s) PROVE RegInv'
    <2>1. Stored \in [Name -> PubKey \cup {NoKey}]
      BY DEF RegInv, TypeOK, Stored, Registry, Host
    <2> QED  BY <1>2, <2>1, BeginStep DEF RotateCa
  <1> QED  BY <1>1, <1>2, SignStep, SaveStep, CommitStep, RebuildStep, OtherStep DEF Next

\* The inductive invariant of the registry.
THEOREM RegistryInvariant == Spec => []RegInv
  BY RegInvInit, RegInvStep, PTL DEF Spec

\* Type correctness of the registry (registry.py, sign-hosts).
THEOREM RegistryTypeCorrect == Spec => []TypeOK
  BY RegistryInvariant, PTL DEF RegInv

\* Until a failed job has committed a record of an unknown name, no two hosts of
\* registry.json have one address (allocate, save, reconcile).
THEOREM DistinctIpsHolds == Spec => []DistinctIps
  <1>1. RegInv => DistinctIps
    BY DEF RegInv, RegistryFits, DistinctIps, Distinct
  <1> QED  BY <1>1, RegistryInvariant, PTL

\* Under the same proviso every committed certificate has its address in
\* registry.json (record, save, reconcile).
THEOREM CertsMatchHolds == Spec => []CertsMatch
  <1>1. RegInv => CertsMatch
    BY DEF RegInv, RegistryFits, CertsMatch, Fits
  <1> QED  BY <1>1, RegistryInvariant, PTL

\* What holds of IpStable (registry.py): as long as no failed job has committed a
\* record of an unknown name, whoever has a certificate has its address in
\* registry.json, before and after every step.
AddressesStay ==
    [][salvaged' = {} => \A r \in records : Fits(r, hosts) /\ Fits(r, hosts')]_vars

\* No record is ever lost, and a salvaged name is never forgotten.
LEMMA RecordsGrow ==
  Next => records \subseteq records' /\ salvaged \subseteq salvaged'
  BY DEF Next, SignHosts, RotateCa, Begin, SignNext, AllSigned, HandlerFails, Save, SaveFails,
         Commit, Abort, PowerCut, Rebuild, SkipRebuild

\* Jobs that fail, are lost or repeated, and rebuilds that fail, do not move a host,
\* but for those that leave records of an unknown name (allocate, save, reconcile).
THEOREM AddressesStayHolds == Spec => AddressesStay
  <1>1. ASSUME RegInv, RegInv', Next, salvaged' = {}, NEW r \in records
        PROVE  Fits(r, hosts) /\ Fits(r, hosts')
    <2>1. r \in records' /\ salvaged = {}
      BY <1>1, RecordsGrow
    <2> QED  BY <1>1, <2>1 DEF RegInv, RegistryFits, Fits
  <1>2. RegInv /\ RegInv' /\ [Next]_vars =>
          [salvaged' = {} => \A r \in records : Fits(r, hosts) /\ Fits(r, hosts')]_vars
    BY <1>1
  <1> QED  BY <1>2, RegistryInvariant, PTL DEF Spec, AddressesStay

-----------------------------------------------------------------------------
(* registry.json as a cache of the records.                                *)

\* Another name's record says nothing of a host.
LEMMA EntryOthers ==
  ASSUME NEW S, NEW r, NEW n, NEW h, r.name # n
  PROVE  Entry(S \cup {r}, n, h) <=> Entry(S, n, h)
  <1>1. {q \in S \cup {r} : q.name = n} = {q \in S : q.name = n}
    OBVIOUS
  <1> QED  BY <1>1 DEF Entry

\* A newer record changes a host's key, not its address; the first one sets both.
LEMMA EntryNewer ==
  ASSUME NEW S \in SUBSET AllocRecord, NEW r \in AllocRecord, NEW h \in Host \cup {NoHost},
         Entry(S, r.name, h), \A q \in S : q.name = r.name => q.seq < r.seq,
         NEW g, g = [ip |-> r.ip, key |-> r.key], h # NoHost => h.ip = r.ip
  PROVE  Entry(S \cup {r}, r.name, g)
  <1> DEFINE n == r.name
             of == {q \in S : q.name = n}
             nu == {q \in S \cup {r} : q.name = n}
  <1>1. nu = of \cup {r} /\ \A q \in of : q.seq < r.seq
    OBVIOUS
  <1>2. \A q \in of \cup {r} : q.seq \in Nat
    BY DEF AllocRecord
  <1>3. CASE of = {}
    <2>1. nu = {r}
      BY <1>1, <1>3
    <2>2. \A q \in nu : r.seq <= q.seq /\ q.seq <= r.seq
      BY <1>2, <2>1
    <2> QED  BY <2>1, <2>2 DEF Entry
  <1>4. CASE of # {}
    <2>1. PICK f \in of, l \in of :
            /\ \A q \in of : f.seq <= q.seq /\ q.seq <= l.seq
            /\ h = [ip |-> f.ip, key |-> l.key]
      BY <1>4 DEF Entry
    <2>2. h # NoHost /\ h.ip = f.ip
      <3>1. f \in AllocRecord /\ l \in AllocRecord
        OBVIOUS
      <3>2. h \in Host
        BY <2>1, <3>1 DEF AllocRecord, Host
      <3> QED  BY <2>1, <3>2, Numbers
    <2>3. g = [ip |-> f.ip, key |-> r.key]
      BY <2>2
    <2>4. \A q \in nu : f.seq <= q.seq /\ q.seq <= r.seq
      BY <1>1, <1>2, <2>1
    <2>5. f \in nu /\ r \in nu
      BY <1>1
    <2> QED  BY <2>3, <2>4, <2>5 DEF Entry
  <1> QED  BY <1>3, <1>4

\* Records with numbers of their own leave no choice.
LEMMA EntryUnique ==
  ASSUME NEW S \in SUBSET AllocRecord, Ordered(S), NEW n, NEW g, NEW h,
         Entry(S, n, g), Entry(S, n, h)
  PROVE  g = h
  <1> DEFINE of == {r \in S : r.name = n}
  <1>1. CASE of = {}
    BY <1>1 DEF Entry
  <1>2. CASE of # {}
    <2>1. PICK f \in of, l \in of :
            /\ \A q \in of : f.seq <= q.seq /\ q.seq <= l.seq
            /\ g = [ip |-> f.ip, key |-> l.key]
      BY <1>2 DEF Entry
    <2>2. PICK d \in of, m \in of :
            /\ \A q \in of : d.seq <= q.seq /\ q.seq <= m.seq
            /\ h = [ip |-> d.ip, key |-> m.key]
      BY <1>2 DEF Entry
    <2>3. \A q \in of : q.seq \in Nat
      BY DEF AllocRecord
    <2>4. f.seq = d.seq /\ l.seq = m.seq
      BY <2>1, <2>2, <2>3
    <2>5. f = d /\ l = m
      BY <2>4 DEF Ordered
    <2> QED  BY <2>1, <2>2, <2>5
  <1> QED  BY <1>1, <1>2

\* reconcile makes that entry.
LEMMA RebuiltEntry ==
  ASSUME RegInv
  PROVE  Gives(records, Rebuilt)
  <1> SUFFICES ASSUME NEW n \in Name PROVE Entry(records, n, Rebuilt[n])
    BY DEF Gives
  <1>1. Of(n) \in SUBSET AllocRecord /\ Bounded(Of(n))
    BY DEF RegInv, TypeOK, RecordsBounded, Of, Bounded
  <1>2. CASE Of(n) = {}
    BY <1>2 DEF Rebuilt, Entry, Of
  <1>3. CASE Of(n) # {}
    <2> DEFINE first == CHOOSE r \in Of(n) : \A q \in Of(n) : r.seq <= q.seq
               newest == CHOOSE r \in Of(n) : \A q \in Of(n) : q.seq <= r.seq
    <2>1. first \in Of(n) /\ \A q \in Of(n) : first.seq <= q.seq
      BY <1>1, <1>3, FirstOf
    <2>2. newest \in Of(n) /\ \A q \in Of(n) : q.seq <= newest.seq
      BY <1>1, <1>3, NewestOf
    <2>3. Rebuilt[n] = [ip |-> first.ip, key |-> newest.key]
      BY <1>3 DEF Rebuilt
    <2> HIDE DEF first, newest
    <2> QED  BY <1>3, <2>1, <2>2, <2>3 DEF Entry, Of
  <1> QED  BY <1>2, <1>3

\* A registry that is what the records say is what reconcile makes of them.
LEMMA GivesRebuilt ==
  ASSUME RegInv, Ordered(records), Gives(records, hosts)
  PROVE  hosts = Rebuilt
  <1>1. records \in SUBSET AllocRecord
    BY DEF RegInv, TypeOK
  <1>2. \A n \in Name : hosts[n] = Rebuilt[n]
    BY <1>1, RebuiltEntry, EntryUnique DEF Gives
  <1> QED  BY <1>2 DEF RegInv, TypeOK, Registry, Rebuilt

\* Room for the hosts of a job between the numbers of two jobs.
LEMMA Blocks ==
  /\ \A s, t \in Nat : s < t => (s + 1) * Multiplier <= t * Multiplier
  /\ \A s \in Nat : (s + 1) * Multiplier = s * Multiplier + Multiplier
                    /\ s * Multiplier \in Nat /\ (s + 1) * Multiplier \in Nat
  <1>1. Multiplier \in Nat
    BY Numbers
  <1>2. \A s, t, m \in Nat : s <= t => s * m <= t * m
    <2> SUFFICES ASSUME NEW s \in Nat, NEW t \in Nat, NEW m \in Nat, s <= t PROVE s * m <= t * m
      OBVIOUS
    <2>1. PICK d \in Nat : t = s + d
      <3>1. t - s \in Nat /\ t = s + (t - s)
        OBVIOUS
      <3> QED  BY <3>1
    <2>2. t * m = s * m + d * m
      BY <2>1
    <2>3. d * m \in Nat /\ s * m \in Nat
      OBVIOUS
    <2> QED  BY <2>2, <2>3
  <1>3. \A s, m \in Nat : (s + 1) * m = s * m + m /\ s * m \in Nat /\ (s + 1) * m \in Nat
    OBVIOUS
  <1> QED
    <2>1. \A s, t \in Nat : s < t => s + 1 <= t /\ s + 1 \in Nat
      OBVIOUS
    <2> QED  BY <1>1, <1>2, <1>3, <2>1

\* A signed host's record is newer than the others of its name.
LEMMA SignNumbered ==
  ASSUME CacheInv, NEW n \in Name, SignNext(n)
  PROVE  /\ Numbered' /\ UNCHANGED <<records, hosts, clean>> /\ pc = "sign" /\ pc' = "sign"
         /\ \E r \in AllocRecord :
              /\ r.name = n /\ job'.made = job.made \cup {r}
              /\ job'.reg = [job.reg EXCEPT ![n] = [ip |-> r.ip, key |-> r.key]]
              /\ job.reg[n] # NoHost => job.reg[n].ip = r.ip
              /\ \A q \in records \cup job.made : q.name = n => q.seq < r.seq
  <1>1. /\ RegInv /\ pc = "sign" /\ n \in job.todo /\ \A m \in job.todo : n <= m
        /\ pc' = "sign" /\ UNCHANGED <<hosts, records, last, salvaged, clean>>
    BY DEF SignNext, CacheInv
  <1>2. job \in Job /\ job.want[n] \in PubKey /\ last \in Nat
    BY <1>1, Numbers DEF RegInv, TypeOK, Wanted, AtWork, Job
  <1>3. PICK a \in Allocate(n) :
          job' = [job EXCEPT
                    !.todo = @ \ {n},
                    !.index = @ + 1,
                    !.reg[n] = [ip |-> a, key |-> job.want[n]],
                    !.made = @ \cup {[name |-> n, ip |-> a, key |-> job.want[n],
                                      seq |-> AllocSeq]}]
    BY DEF SignNext
  <1> DEFINE r == [name |-> n, ip |-> a, key |-> job.want[n], seq |-> AllocSeq]
  <1>4. /\ job'.reg = [job.reg EXCEPT ![n] = [ip |-> r.ip, key |-> r.key]]
        /\ job'.made = job.made \cup {r} /\ job'.todo = job.todo \ {n}
        /\ job'.index = job.index + 1 /\ job'.seq = job.seq
    BY <1>2, <1>3 DEF Job
  <1>5. /\ job.reg[n] # NoHost => job.reg[n].ip = a
        /\ a \in Ip
    <2>1. job.reg[n] \in Host \cup {NoHost}
      BY <1>2 DEF Job, Registry
    <2> QED  BY <1>2, <1>3, <2>1 DEF Allocate, LowestFree, Free, Host
  <1>6. /\ job.seq > last /\ \A m \in job.todo : job.index < m
        /\ \A q \in job.made : /\ q.name \notin job.todo
                               /\ job.seq * Multiplier <= q.seq
                               /\ q.seq < (job.seq + 1) * Multiplier
        /\ \A q, p \in job.made : q.name = p.name => q = p
        /\ \A q \in records : q.seq < (last + 1) * Multiplier
    BY <1>1 DEF CacheInv, Numbered, AtWork
  <1>7. /\ job.seq \in Nat /\ job.index \in Nat /\ Multiplier \in Nat
        /\ job.todo \subseteq Name /\ Name \subseteq Nat
    BY <1>2, Numbers DEF Job
  <1>8. job.index < n /\ n <= Multiplier
    BY <1>6, <1>1, NamesAssumption, Numbers
  <1> DEFINE low == job.seq * Multiplier
             up == (job.seq + 1) * Multiplier
             old == (last + 1) * Multiplier
  <1>9. low \in Nat /\ up = low + Multiplier /\ old <= low /\ old \in Nat
    BY <1>2, <1>6, <1>7, Blocks
  <1>10. AllocSeq = low + job.index
    BY DEF AllocSeq
  <1>11. \A q \in records \cup job.made : q.seq \in Nat
    BY <1>1, <1>2 DEF RegInv, TypeOK, Job, AllocRecord
  <1>12. low <= AllocSeq /\ AllocSeq < up /\ AllocSeq \in Nat
    <2> HIDE DEF low, up
    <2> QED  BY <1>7, <1>8, <1>9, <1>10
  <1>13. r \in AllocRecord
    BY <1>2, <1>5, <1>12 DEF AllocRecord
  <1>14. \A q \in records \cup job.made : q.name = n => q.seq < r.seq
    <2>1. \A q \in records : q.seq < old
      BY <1>6
    <2> HIDE DEF low, old, up
    <2> QED  BY <1>1, <1>6, <1>9, <1>11, <1>12, <2>1
  <1>15. Numbered'
    <2>1. \A m \in job'.todo : job'.index < m
      <3>1. \A m \in job'.todo : n <= m /\ m # n /\ m \in Nat
        BY <1>1, <1>4, <1>7
      <3> QED  BY <1>4, <1>7, <1>8, <3>1, Numbers
    <2>2. \A q \in job'.made : /\ q.name \notin job'.todo
                               /\ job'.seq * Multiplier <= q.seq
                               /\ q.seq < (job'.seq + 1) * Multiplier
      BY <1>4, <1>6, <1>12
    <2>3. \A q, p \in job'.made : q.name = p.name => q = p
      BY <1>1, <1>4, <1>6
    <2>4. job'.seq > last
      BY <1>4, <1>6
    <2> QED  BY <1>1, <2>1, <2>2, <2>3, <2>4 DEF CacheInv, Numbered, Ordered
  <1> HIDE DEF r
  <1>16. r.name = n /\ r.ip = a
    BY DEF r
  <1> QED  BY <1>1, <1>4, <1>5, <1>13, <1>14, <1>15, <1>16

\* It is what the records and the job's own say then of the host.
LEMMA SignCached ==
  ASSUME CacheInv, NEW n \in Name, SignNext(n)
  PROVE  Cached'
  <1>1. /\ UNCHANGED <<records, hosts, clean>> /\ pc = "sign" /\ pc' = "sign"
    BY SignNumbered
  <1>2. PICK r \in AllocRecord :
              /\ r.name = n /\ job'.made = job.made \cup {r}
              /\ job'.reg = [job.reg EXCEPT ![n] = [ip |-> r.ip, key |-> r.key]]
              /\ job.reg[n] # NoHost => job.reg[n].ip = r.ip
              /\ \A q \in records \cup job.made : q.name = n => q.seq < r.seq
    BY SignNumbered
  <1> DEFINE S == records \cup job.made
  <1>3. S \in SUBSET AllocRecord /\ job.reg \in [Name -> Host \cup {NoHost}]
    BY <1>1 DEF CacheInv, RegInv, TypeOK, Job, Registry
  <1>4. ASSUME clean PROVE Gives(S \cup {r}, job'.reg)
    <2> SUFFICES ASSUME NEW m \in Name PROVE Entry(S \cup {r}, m, job'.reg[m])
      BY DEF Gives
    <2>1. Entry(S, m, job.reg[m])
      BY <1>1, <1>4 DEF CacheInv, Cached, Gives, AtWork
    <2>2. CASE m # n
      <3>1. job'.reg[m] = job.reg[m]
        BY <1>2, <1>3, <2>2
      <3> HIDE DEF S
      <3> QED  BY <1>2, <2>1, <2>2, <3>1, EntryOthers
    <2>3. CASE m = n
      <3>1. job'.reg[m] = [ip |-> r.ip, key |-> r.key]
        BY <1>2, <1>3, <2>3
      <3>2. job.reg[m] \in Host \cup {NoHost}
        BY <1>3
      <3> HIDE DEF S
      <3> QED  BY <1>2, <1>3, <2>1, <2>3, <3>1, <3>2, EntryNewer DEF S
    <2> QED  BY <2>2, <2>3
  <1>5. records' \cup job'.made = S \cup {r}
    BY <1>1, <1>2
  <1>6. clean => Gives(records, hosts)
    BY <1>1 DEF CacheInv, Cached
  <1> HIDE DEF S
  <1> QED  BY <1>1, <1>4, <1>5, <1>6 DEF Cached

\* A job begins with the registry of registry.json and no records.
LEMMA BeginCached ==
  ASSUME CacheInv, NEW s \in SeqNo, NEW want, Begin(s, want)
  PROVE  Numbered' /\ Cached'
  <1>1. /\ pc = "idle" /\ pc' = "sign" /\ s > last
        /\ UNCHANGED <<hosts, records, last, salvaged, clean>>
        /\ job'.seq = s /\ job'.reg = hosts /\ job'.made = {} /\ job'.index = 0
        /\ job'.todo \subseteq Name
    BY DEF Begin
  <1>2. \A n \in Name : 0 < n
    BY NamesAssumption, Numbers
  <1>3. Numbered'
    BY <1>1, <1>2 DEF CacheInv, Numbered, AtWork, Ordered
  <1>4. records' \cup job'.made = records
    BY <1>1
  <1>5. Cached'
    BY <1>1, <1>4 DEF CacheInv, Cached
  <1> QED  BY <1>3, <1>5

\* A committed job's records are the newest.
LEMMA CommitCached ==
  ASSUME CacheInv, Commit
  PROVE  Numbered' /\ Cached'
  <1>1. PICK kept \in {job.made, {}} :
          /\ records' = records \cup kept
          /\ clean' = (clean /\ hosts = job.reg /\ kept = job.made)
    BY DEF Commit
  <1>2. /\ pc = "commit" /\ pc' = "idle" /\ last' = job.seq /\ hosts' = hosts
        /\ job \in Job /\ last \in Nat /\ job.seq \in Nat /\ job.seq > last
    <2>1. pc = "commit" /\ pc' = "idle" /\ last' = job.seq /\ hosts' = hosts
      BY DEF Commit
    <2>2. job \in Job /\ last \in SeqNo \cup {0}
      BY <2>1 DEF CacheInv, RegInv, TypeOK
    <2>3. job.seq \in SeqNo
      BY <2>2 DEF Job
    <2>4. job.seq > last
      BY <2>1 DEF CacheInv, Numbered, AtWork
    <2>5. job.seq \in Nat
      BY <2>3, Numbers
    <2>6. last \in Nat
      BY <2>2, Numbers
    <2> QED  BY <2>1, <2>2, <2>4, <2>5, <2>6
  <1> DEFINE low == job.seq * Multiplier
             up == (job.seq + 1) * Multiplier
             old == (last + 1) * Multiplier
  <1>3. old \in Nat /\ low \in Nat /\ up \in Nat /\ old <= low /\ low <= up
    BY <1>2, Blocks, Numbers
  <1>4. /\ Ordered(records) /\ \A r \in records : r.seq < old
        /\ \A r \in job.made : low <= r.seq /\ r.seq < up
        /\ \A r, q \in job.made : r.name = q.name => r = q
    BY <1>2 DEF CacheInv, Numbered, AtWork
  <1>5. \A r \in records \cup job.made : r.seq \in Nat
    BY <1>2 DEF CacheInv, RegInv, TypeOK, Job, AllocRecord
  <1> HIDE DEF low, old, up
  <1>6. \A r \in records' : r.seq < up
    BY <1>1, <1>3, <1>4, <1>5
  <1>7. Ordered(records')
    <2> SUFFICES ASSUME NEW r \in records', NEW q \in records', r.name = q.name, r.seq = q.seq
                 PROVE  r = q
      BY DEF Ordered
    <2>1. CASE r \in records /\ q \in records
      BY <1>4, <2>1 DEF Ordered
    <2>2. CASE r \in job.made /\ q \in job.made
      BY <1>4, <2>2
    <2>3. CASE \/ r \in records /\ q \in job.made
               \/ q \in records /\ r \in job.made
      BY <1>3, <1>4, <1>5, <2>3
    <2>4. r \in records \cup job.made /\ q \in records \cup job.made
      BY <1>1
    <2> QED  BY <2>1, <2>2, <2>3, <2>4
  <1>8. Numbered'
    BY <1>2, <1>6, <1>7 DEF Numbered, AtWork, Ordered, up
  <1>9. Cached'
    BY <1>1, <1>2 DEF CacheInv, Cached, AtWork
  <1> QED  BY <1>8, <1>9

\* The boot pass; steps that leave the records and the memory alone.
LEMMA RestCached ==
  ASSUME CacheInv, \/ AllSigned \/ HandlerFails \/ Save \/ SaveFails \/ Abort \/ PowerCut
                   \/ Rebuild \/ SkipRebuild \/ UNCHANGED vars
  PROVE  Numbered' /\ Cached'
  <1>1. UNCHANGED <<records, last>> /\ (pc' \in AtWork => pc \in AtWork /\ job' = job)
    BY DEF AllSigned, HandlerFails, Save, SaveFails, Abort, PowerCut, Rebuild, SkipRebuild,
           vars, AtWork
  <1>2. Numbered'
    BY <1>1 DEF CacheInv, Numbered, Ordered
  <1> SUFFICES Cached'
    BY <1>2
  <1>3. CASE Rebuild
    BY <1>1, <1>3, RebuiltEntry DEF Rebuild, CacheInv, Cached, Gives, AtWork
  <1>4. CASE Abort \/ PowerCut
    <2>1. CASE pc = "commit"
      <3>1. hosts' = hosts /\ pc' \in {"off", "idle"}
            /\ (clean' => clean /\ hosts = job.reg /\ job.made = {})
        BY <1>4, <2>1 DEF Abort, PowerCut, Unsettled
      <3>2. job.made = {} => records \cup job.made = records
        OBVIOUS
      <3> QED  BY <1>1, <2>1, <3>1, <3>2 DEF CacheInv, Cached, Gives, AtWork
    <2>2. CASE pc # "commit"
      <3>1. hosts' = hosts /\ pc' \in {"off", "idle"} /\ (clean' => clean)
            /\ pc \in {"off", "idle", "sign", "save"}
        BY <1>4, <2>2 DEF Abort, PowerCut, Unsettled, CacheInv, RegInv, TypeOK
      <3> QED  BY <1>1, <3>1 DEF CacheInv, Cached, Gives, AtWork
    <2> QED  BY <2>1, <2>2
  <1>5. CASE AllSigned \/ HandlerFails \/ Save \/ SaveFails \/ SkipRebuild \/ UNCHANGED vars
    BY <1>1, <1>5
       DEF AllSigned, HandlerFails, Save, SaveFails, SkipRebuild, vars, CacheInv, Cached, Gives,
           AtWork
  <1> QED  BY <1>2, <1>3, <1>4, <1>5

\* The invariant of the cache.
THEOREM CacheInvariant == Spec => []CacheInv
  <1>1. Init => CacheInv
    <2> SUFFICES ASSUME Init PROVE Numbered /\ Cached
      BY RegInvInit DEF CacheInv
    <2> QED  BY DEF Init, Numbered, Cached, AtWork, Ordered, Gives, Entry, Unregistered
  <1>2. CacheInv /\ [Next]_vars => CacheInv'
    <2> SUFFICES ASSUME CacheInv, [Next]_vars PROVE CacheInv'
      OBVIOUS
    <2>1. RegInv'
      BY RegInvStep DEF CacheInv
    <2>2. Numbered' /\ Cached'
      <3>1. CASE \E s \in SeqNo :
                   \/ \E want \in [Name -> PubKey \cup {NoKey}] : SignHosts(s, want)
                   \/ RotateCa(s)
        BY <3>1, BeginCached DEF SignHosts, RotateCa
      <3>2. CASE \E n \in Name : SignNext(n)
        BY <3>2, SignNumbered, SignCached
      <3> QED  BY <3>1, <3>2, CommitCached, RestCached DEF Next
    <2> QED  BY <2>1, <2>2 DEF CacheInv
  <1> QED  BY <1>1, <1>2, PTL DEF Spec

\* On a box whose jobs ran to their end since the last rebuild, a rebuild from
\* the records changes nothing (reconcile, allocation_record).
THEOREM CacheIsRebuildableHolds == Spec => []CacheIsRebuildable
  <1>1. CacheInv => CacheIsRebuildable
    BY GivesRebuilt DEF CacheInv, Numbered, Cached, CacheIsRebuildable
  <1> QED  BY <1>1, CacheInvariant, PTL
==============================================================================
