----------------------------- MODULE MCCommitLog -----------------------------
(* Small instances of CommitLog for TLC. *)
EXTENDS CommitLog, TLC

CONSTANTS r1, r2, a

\* r1 left an output file and r2 none: a wipe that is forgotten shows.
MCOutputsOf == r1 :> {a} @@ r2 :> {}

Jobs == Permutations(Job)
==============================================================================
