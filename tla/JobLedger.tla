------------------------------ MODULE JobLedger ------------------------------
(***************************************************************************)
(* What the results store promises its callers, without saying how: a      *)
(* ledger with at most one result per job.  A recorded result is never     *)
(* changed and never lost (commitlog.py's docstring: "once a job is        *)
(* committed, EVERY later reference to that job_id must replay the         *)
(* ORIGINAL bytes").  OrderedSpec adds the anti-rollback promise: results  *)
(* are recorded one at a time and under strictly increasing sequence       *)
(* numbers.                                                                *)
(***************************************************************************)
EXTENDS Naturals

CONSTANTS Job,      (* job ids                                             *)
          Run,      (* results: one value per execution of a handler       *)
          NoRun,    (* "no result recorded"                                *)
          SeqNo     (* sequence numbers a manifest may carry               *)

VARIABLES ledger,   (* ledger[j]: the result recorded for job j            *)
          high      (* the highest sequence number recorded                *)

vars == <<ledger, high>>

Init == /\ ledger = [j \in Job |-> NoRun]
        /\ high = 0

\* Any number of empty entries are filled; no filled entry changes.
Fill == /\ ledger' \in [Job -> Run \cup {NoRun}]
        /\ \A j \in Job : ledger[j] # NoRun => ledger'[j] = ledger[j]

\* One result is recorded, under a sequence number above every earlier one.
Record(j, s, r) ==
    /\ ledger[j] = NoRun
    /\ s > high
    /\ ledger' = [ledger EXCEPT ![j] = r]
    /\ high' = s

WriteOnceSpec == ledger = [j \in Job |-> NoRun] /\ [][Fill]_ledger

OrderedSpec ==
    Init /\ [][\E j \in Job, s \in SeqNo, r \in Run : Record(j, s, r)]_vars
==============================================================================
