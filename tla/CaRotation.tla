----------------------------- MODULE CaRotation -----------------------------
(***************************************************************************)
(* The CA's own key pair, ca.crt and ca.key: how ca-bootstrap makes it and *)
(* rotate-ca replaces it, file by file, and what a job that ends halfway   *)
(* leaves to the next one.                                                 *)
(*                                                                         *)
(* A CA is a name; a certificate is the CA that signed it and what tells   *)
(* it from all others, which is what a block list names it by.  live      *)
(* is what processes see, onDisk the pairs a power cut may leave (both     *)
(* files are in one directory, so renames reach the disk in their order).  *)
(* sign-hosts is here with the points at which it may end; addresses and   *)
(* the replay of records are in HostRegistry, the commit in CommitLog.     *)
(***************************************************************************)
EXTENDS Naturals

CONSTANTS Ca,    (* the CAs nebula-cert may make                           *)
          NoCa,  (* no file                                                *)
          Id,    (* what tells the certificates of sign-hosts apart        *)
          NoId,  (* a rotation's certificates: the only ones of their CA   *)
          Host,  (* the hosts of the mesh                                  *)
          Skipped,  (* those rotate-ca leaves out: a name it reserves, or  *)
                    (* no usable public key in the registry                *)
          SeqNo  (* sequence numbers of jobs                               *)

ASSUME NoCaAssumption == NoCa \notin Ca
ASSUME NoIdAssumption == NoId \notin Id
ASSUME SeqNoAssumption == SeqNo \subseteq Nat \ {0}

MaybeCa == Ca \cup {NoCa}
Pair == [crt : MaybeCa, key : MaybeCa]
Cert == [ca : MaybeCa, id : Id \cup {NoId}]
NoCert == [ca |-> NoCa, id |-> NoId]
Certs == [Host -> Cert]

\* A handler at work.  old and retired are the certificate and the key that it
\* replaces; new is the CA that it makes, or that sign-hosts signs with; block is
\* the block list (the registry's certificates before any is renewed); signed are
\* the hosts whose certificates and allocation records are in out_dir.
Job == [op : {"bootstrap", "rotate", "sign"}, seq : SeqNo, old : MaybeCa,
        retired : MaybeCa, new : MaybeCa, id : Id \cup {NoId}, block : Certs,
        signed : SUBSET Host, ok : BOOLEAN]

VARIABLES
    live,      \* ca.crt and ca.key, as processes see them
    onDisk,    \* the pairs a power cut may leave
    remains,   \* CAs whose private key is on the disk outside ca.key
    minted,    \* CAs that exist
    archive,   \* archive/ca-<seq>.crt
    registry,  \* registry.json: each host's certificate
    records,   \* each host's newest committed alloc-<name>.json
    fleet,     \* the certificates of the last successful results: the hosts'
    last,      \* the highest committed seq
    pc, job,   \* the handler at work
    born,      \* history: a bootstrap or a rotation has reported success
    torn,      \* history: a rotation ended between its first rename and a
               \* successful commit, and how; or a bootstrap was undone so late
    stray      \* history: hosts whose certificate in registry.json, and in
               \* the records, comes from a job that was lost or failed

vars == <<live, onDisk, remains, minted, archive, registry, records, fleet,
          last, pc, job, born, torn, stray>>
files == <<live, onDisk, remains, minted, archive>>
books == <<registry, records, fleet, last>>
history == <<born, torn, stray>>

Busy == {"issue", "mint", "sign", "archive", "prepare", "swapCrt", "swapKey", "sync", "shred",
         "save", "receipt", "undoCrt", "undoKey", "commit"}

TypeOK ==
    /\ live \in Pair /\ onDisk \in SUBSET Pair
    /\ remains \subseteq Ca /\ minted \subseteq Ca
    /\ archive \in [SeqNo -> MaybeCa]
    /\ registry \in Certs /\ records \in Certs /\ fleet \in Certs
    /\ last \in SeqNo \cup {0}
    /\ pc \in {"idle", "off"} \cup Busy
    /\ pc \in Busy => job \in Job
    /\ pc \in Busy \ {"mint", "commit"} => job.new \in minted
    /\ born \in BOOLEAN /\ torn \in {"no", "failed", "aborted"}
    /\ stray \in [registry : SUBSET Host, records : SUBSET Host]

Unsigned == [h \in Host |-> NoCert]
NoJob == NoCa

\* A box without a CA.
Init ==
    /\ live = [crt |-> NoCa, key |-> NoCa] /\ onDisk = {live}
    /\ remains = {} /\ minted = {}
    /\ archive = [s \in SeqNo |-> NoCa]
    /\ registry = Unsigned /\ records = Unsigned /\ fleet = Unsigned
    /\ last = 0 /\ pc = "idle" /\ job = NoJob
    /\ born = FALSE /\ torn = "no" /\ stray = [registry |-> {}, records |-> {}]

-----------------------------------------------------------------------------
(* A fresh job reaches its handler.  A job that was not committed may come *)
(* again under its seq.                                                    *)

Fresh(s) == pc = "idle" /\ s > last

Begin(op, s) ==
    /\ Fresh(s)
    /\ pc' = "mint"
    /\ job' = [op |-> op, seq |-> s, old |-> live.crt, retired |-> live.key,
               new |-> NoCa, id |-> NoId, block |-> registry, signed |-> {},
               ok |-> FALSE]
    /\ UNCHANGED <<files, books, history>>

\* Mutant of Bootstrap.
AgainMutant(s) == Begin("bootstrap", s)

\* already_bootstrapped and not_bootstrapped are the handlers' first checks.
Bootstrap(s) == live.key = NoCa /\ Begin("bootstrap", s)
Rotate(s) == live.key # NoCa /\ live.crt # NoCa /\ Begin("rotate", s)

\* The handler refuses the job (those two, bad_manifest, a corrupt registry).
Refuse(s) ==
    /\ Fresh(s) /\ last' = s
    /\ UNCHANGED <<files, registry, records, fleet, pc, job, history>>

-----------------------------------------------------------------------------
(* sign-hosts: certificates for some hosts, all saved in one go.           *)

Step(from, to) == pc = from /\ pc' = to

\* The certificate a job gives to a host.
Certificate == [ca |-> job.new, id |-> job.id]

Renewed(certs, hosts) == [h \in Host |-> IF h \in hosts THEN Certificate ELSE certs[h]]

\* not_bootstrapped is the first check; the certificates will be told from all
\* that are on the books.
SignHosts(s, i) ==
    /\ Fresh(s) /\ live.key # NoCa /\ live.crt # NoCa
    /\ pc' = "issue"
    /\ job' = [op |-> "sign", seq |-> s, old |-> NoCa, retired |-> NoCa,
               new |-> live.key, id |-> i, block |-> Unsigned, signed |-> {},
               ok |-> FALSE]
    /\ \A h \in Host : i \notin {registry[h].id, records[h].id, fleet[h].id}
    /\ UNCHANGED <<files, books, history>>

\* The hosts are signed one by one (SoFar has what there is if the handler ends
\* among them), then registry.save, once, which syncs ca_dir; after it registry.json
\* is copied to out_dir.  nebula-cert does not sign with the certificate and the key
\* of two CAs.
Issue(hosts) ==
    /\ Step("issue", "receipt") /\ live.crt = live.key
    /\ job' = [job EXCEPT !.signed = hosts]
    /\ registry' = Renewed(registry, hosts)
    /\ onDisk' = {live}
    /\ UNCHANGED <<live, remains, minted, archive, records, fleet, last, history>>

-----------------------------------------------------------------------------
(* Everything is built beside the live pair ...                            *)

\* nebula-cert makes the pair, under temporary names in ca_dir.
Mint(c) ==
    /\ Step("mint", IF job.op = "rotate" THEN "sign" ELSE "prepare")
    /\ c \notin minted
    /\ minted' = minted \cup {c} /\ remains' = remains \cup {c}
    /\ job' = [job EXCEPT !.new = c]
    /\ UNCHANGED <<live, onDisk, archive, books, history>>

Renewable == {h \in Host \ Skipped : registry[h] # NoCert}

\* Mutant of Sign.
LateBlockMutant ==
    /\ Step("sign", "archive")
    /\ job' = [job EXCEPT !.signed = Renewable, !.block = Renewed(registry, Renewable)]
    /\ UNCHANGED <<files, books, history>>

\* rotate-ca renews the certificate of every host of the registry that it can.
Sign ==
    /\ Step("sign", "archive")
    /\ job' = [job EXCEPT !.signed = Renewable]
    /\ UNCHANGED <<files, books, history>>

\* ca-bootstrap: an empty registry.json, saved; the public files to out_dir.
Prepare ==
    /\ Step("prepare", "swapCrt")
    /\ registry' = Unsigned /\ onDisk' = {live}
    /\ UNCHANGED <<live, remains, minted, archive, records, fleet, last, job, history>>

\* Mutants of ArchiveOld.
ShredFirstMutant ==
    /\ Step("archive", "swapCrt")
    /\ archive' = [archive EXCEPT ![job.seq] = job.old]
    /\ live' = [live EXCEPT !.key = NoCa] /\ onDisk' = onDisk \cup {live'}
    /\ UNCHANGED <<remains, minted, books, job, history>>
OneArchiveMutant ==
    /\ Step("archive", "swapCrt")
    /\ archive' = [s \in SeqNo |-> job.old]
    /\ UNCHANGED <<live, onDisk, remains, minted, books, job, history>>

\* rotate-ca keeps the old certificate and opens the old key.
ArchiveOld ==
    /\ Step("archive", "swapCrt")
    /\ archive' = [archive EXCEPT ![job.seq] = job.old]
    /\ UNCHANGED <<live, onDisk, remains, minted, books, job, history>>

-----------------------------------------------------------------------------
(* ... and swapped in last: the certificate, then the key.                 *)

SwapCrt ==
    /\ Step("swapCrt", "swapKey")
    /\ live' = [live EXCEPT !.crt = job.new] /\ onDisk' = onDisk \cup {live'}
    /\ UNCHANGED <<remains, minted, archive, books, job, history>>

\* The old key's inode lives on, unlinked and open.
SwapKey ==
    /\ Step("swapKey", "sync")
    /\ live' = [live EXCEPT !.key = job.new] /\ onDisk' = onDisk \cup {live'}
    /\ remains' = (remains \ {job.new}) \cup ({job.retired} \ {NoCa})
    /\ UNCHANGED <<minted, archive, books, job, history>>

\* Mutant of Sync.
NoSyncMutant ==
    /\ Step("sync", IF job.op = "rotate" THEN "shred" ELSE "receipt")
    /\ UNCHANGED <<files, books, job, history>>

\* fsync of ca_dir.
Sync ==
    /\ Step("sync", IF job.op = "rotate" THEN "shred" ELSE "receipt")
    /\ onDisk' = {live}
    /\ UNCHANGED <<live, remains, minted, archive, books, job, history>>

\* The retired key is overwritten through the open descriptor.
Shred ==
    /\ Step("shred", "save")
    /\ remains' = remains \ {job.retired}
    /\ UNCHANGED <<live, onDisk, minted, archive, books, job, history>>

\* registry.save, once, then ca-bundle.crt and the receipt.
Save ==
    /\ Step("save", "receipt")
    /\ registry' = Renewed(registry, job.signed)
    /\ UNCHANGED <<files, records, fleet, last, job, history>>

Return ==
    /\ Step("receipt", "commit")
    /\ job' = [job EXCEPT !.ok = TRUE] /\ born' = TRUE
    /\ UNCHANGED <<files, books, torn, stray>>

-----------------------------------------------------------------------------
(* Failures of the handler.                                                *)

\* A rotation has touched the live pair.
Swapped == job.op = "rotate" /\ job.new # NoCa /\ live.crt = job.new

Fails == torn' = IF Swapped /\ torn = "no" THEN "failed" ELSE torn

\* The certificates in out_dir when the handler ends here: hosts are signed one
\* by one.
SoFar ==
    CASE pc = "sign" -> SUBSET Renewable
      [] pc = "issue" /\ live.crt = live.key -> SUBSET Host
      [] OTHER -> {job.signed}

EndsWith(some) == job' = [job EXCEPT !.signed = some]

\* sign-hosts: NebulaError, OSError or RegistryError at any step.
SignFails ==
    /\ pc \in {"issue", "receipt"} /\ job.op = "sign"
    /\ pc' = "commit"
    /\ \E some \in SoFar : EndsWith(some)
    /\ UNCHANGED <<files, books, history>>

\* rotate-ca: NebulaError or OSError at any step.  The temporary key is
\* overwritten.
RotateFails ==
    /\ pc \in Busy \ {"commit"} /\ job.op = "rotate"
    /\ pc' = "commit"
    /\ remains' = remains \ {job.new}
    /\ \E some \in SoFar : EndsWith(some)
    /\ Fails
    /\ UNCHANGED <<live, onDisk, minted, archive, books, born, stray>>

\* ca-bootstrap: nebula-cert fails ...
MintFails ==
    /\ Step("mint", "commit") /\ job.op = "bootstrap"
    /\ UNCHANGED <<files, books, job, history>>

\* ... or an OSError, at any step after it, and every file is removed,
\* the certificate before the key.
BootstrapFails ==
    /\ pc \in {"prepare", "swapCrt", "swapKey", "sync"} /\ job.op = "bootstrap"
    /\ pc' = "undoCrt"
    /\ UNCHANGED <<files, books, job, history>>

UndoCrt ==
    /\ Step("undoCrt", "undoKey")
    /\ live' = [live EXCEPT !.crt = NoCa] /\ onDisk' = onDisk \cup {live'}
    /\ torn' = IF \E d \in onDisk : d.key # NoCa THEN "aborted" ELSE torn
    /\ UNCHANGED <<remains, minted, archive, books, job, born, stray>>

\* Removed, not overwritten.
UndoKey ==
    /\ Step("undoKey", "commit")
    /\ live' = [live EXCEPT !.key = NoCa] /\ onDisk' = onDisk \cup {live'}
    /\ remains' = remains \cup ({live.key} \ {NoCa})
    /\ UNCHANGED <<minted, archive, books, job, history>>

\* The dispatcher kills a handler that takes too long; nothing is cleaned up.
Timeout ==
    /\ pc \in Busy \ {"commit"} /\ pc' = "commit"
    /\ \E some \in SoFar : EndsWith(some)
    /\ Fails
    /\ UNCHANGED <<files, books, born, stray>>

-----------------------------------------------------------------------------
(* The harness.                                                            *)

\* The hosts for which the job at work has saved a certificate in registry.json.
Entered == {h \in job.signed : registry[h] = Certificate}

\* The job is committed with what is in out_dir, whether it failed or not; the
\* operator installs the certificates of a successful result.
Commit ==
    /\ Step("commit", "idle") /\ job' = NoJob
    /\ last' = job.seq
    /\ records' = Renewed(records, job.signed)
    /\ fleet' = IF job.ok THEN Renewed(fleet, job.signed) ELSE fleet
    /\ stray' = IF job.ok THEN [registry |-> stray.registry \ job.signed,
                                 records |-> stray.records \ job.signed]
                ELSE [registry |-> stray.registry \cup Entered,
                      records |-> stray.records \cup job.signed]
    /\ UNCHANGED <<files, registry, born, torn>>

\* What a job without a result leaves in registry.json.
Leaves == stray' = IF pc \in Busy THEN [stray EXCEPT !.registry = @ \cup Entered] ELSE stray

\* The outputs cannot be collected: an error, committed without them.
CommitEmpty ==
    /\ Step("commit", "idle") /\ job' = NoJob
    /\ last' = job.seq /\ Fails /\ Leaves
    /\ UNCHANGED <<files, registry, records, fleet, born>>

Aborts == torn' = IF pc \in Busy /\ Swapped THEN "aborted" ELSE torn

\* The job ends before DONE: the stick is pulled, or commit raises.
Abort ==
    /\ pc \in Busy /\ pc' = "idle" /\ job' = NoJob
    /\ Aborts /\ Leaves
    /\ UNCHANGED <<files, books, born>>

PowerCut ==
    /\ pc # "off" /\ pc' = "off" /\ job' = NoJob
    /\ Aborts /\ Leaves
    /\ live' \in onDisk /\ onDisk' = {live'}
    /\ remains' = (remains \cup {d.key : d \in onDisk}) \ {NoCa, live'.key}
    /\ UNCHANGED <<minted, archive, books, born>>

\* registry.json is rebuilt from the committed records, or it is not.
Boot ==
    /\ Step("off", "idle")
    /\ \/ registry' = records /\ stray' = [stray EXCEPT !.registry = stray.records]
       \/ UNCHANGED <<registry, stray>>
    /\ UNCHANGED <<files, records, fleet, last, job, born, torn>>

Next ==
    \/ \E s \in SeqNo : Bootstrap(s) \/ Rotate(s) \/ Refuse(s)
    \/ \E s \in SeqNo, i \in Id : SignHosts(s, i)
    \/ \E hosts \in SUBSET Host \ {{}} : Issue(hosts)
    \/ SignFails
    \/ \E c \in Ca : Mint(c)
    \/ Sign \/ Prepare \/ ArchiveOld \/ SwapCrt \/ SwapKey \/ Sync \/ Shred \/ Save
    \/ Return \/ RotateFails \/ MintFails \/ BootstrapFails \/ UndoCrt \/ UndoKey
    \/ Timeout \/ Commit \/ CommitEmpty \/ Abort \/ PowerCut \/ Boot

Spec == Init /\ [][Next]_vars

-----------------------------------------------------------------------------
(* Properties.                                                             *)

Succeeded == pc = "receipt" \/ (pc = "commit" /\ job.ok)

\* SECURITY.md: "rotate-ca that never leaves the box keyless".  Once a CA has
\* been reported, the box has a key and a certificate, whatever fails and
\* wherever power is cut.
NeverKeyless == born => \A d \in onDisk : d.key # NoCa /\ d.crt # NoCa

\* A receipt means that the new pair is the only one a power cut can leave and
\* that the key it retired is nowhere on the disk; certificates are handed out
\* only of a CA that is the only one a power cut can leave.
ReceiptMeansReplaced ==
    Succeeded => /\ onDisk = {[crt |-> job.new, key |-> job.new]}
                 /\ job.new # job.retired /\ job.retired \notin remains

\* Between jobs ca.key belongs to ca.crt, as long as no rotation ended between
\* its renames and no bootstrap was undone after its own.
PairMatches ==
    torn = "no" /\ pc = "idle" => \A d \in onDisk : d.key \in {NoCa, d.crt}

\* The certificate of every CA the hosts still depend on is on the box, so
\* that a transition bundle can be made, even after a rotation that failed
\* between its renames; not after one that was lost there and may come again.
FleetCaKept ==
    torn # "aborted" =>
        \A h \in Host : fleet[h].ca \in {NoCa, live.crt} \cup {archive[s] : s \in SeqNo}

\* Mutant of Bundle.
BundleMutant == {live.crt, job.new}

\* ca-bundle.crt: the old certificate and the new one.
Bundle == {job.old, job.new}

Published == pc = "commit" /\ job.op = "rotate" /\ job.ok

\* "the transition pki.ca that trusts both during rollout" (rotate-ca): hosts
\* that install the bundle of a successful rotation still trust every host that
\* has not installed its new certificate.  A skipped host (it is in the receipt)
\* has to be signed anew by hand before the next rotation.
TransitionTrusts ==
    Published => \A h \in Host \ Skipped : fleet[h].ca \in Bundle \cup {NoCa}

\* The same, as long as no rotation ended halfway.
BundleTrustsFleet == torn = "no" => TransitionTrusts

\* The block list of a successful rotation has the certificate that each host
\* uses, whatever ended before, except of hosts for which registry.json had a
\* certificate of a job that was lost or failed.
BlocklistCovers ==
    Published => \A h \in Host \ stray.registry : fleet[h] \in {NoCert, job.block[h]}
==============================================================================
