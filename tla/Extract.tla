------------------------------- MODULE Extract -------------------------------
(***************************************************************************)
(* causb/extract.py: an archive, whose signature has been checked already, *)
(* is unpacked member by member until one is refused or tarfile has no     *)
(* further one.  A name is the sequence of its components ("" before the   *)
(* slash of an absolute one); a tree is a function from the names of its   *)
(* files to their contents.                                                *)
(***************************************************************************)
EXTENDS Integers, SequencesExt

CONSTANTS TarFiles, TarBytes, Depth  \* CAPS of config.py

ASSUME CapsAssumption == TarFiles \in Nat /\ TarBytes \in Nat /\ Depth \in Nat \ {0}

Manifest == <<"manifest.json">>
Beneath(p, q) == IsStrictPrefix(p, q)

\* Mutant of SafeName.
NoDotDotMutant(name) ==
    /\ Len(name) <= Depth /\ name[1] # ""
    /\ (name = Manifest \/ Beneath(<<"payload">>, name))

\* _safe_name.
SafeName(name) ==
    /\ Len(name) <= Depth
    /\ \A i \in DOMAIN name : name[i] \notin {"", ".."}
    /\ (name = Manifest \/ Beneath(<<"payload">>, name))

\* What a member is refused for after those of s, the checks in their order.
TooMany(s) == s.files + 1 > TarFiles
TooLarge(s, m) == s.bytes + m.size > TarBytes
\* mkdirat and openat2 meet a file where the name has a directory, or a
\* directory at the name itself.
Conflicts(s, m) == \E f \in DOMAIN s.tree : Beneath(f, m.name) \/ Beneath(m.name, f)

Checks(s, m) ==
    << [fails |-> TooMany(s),                as |-> "cap_exceeded"],
       [fails |-> m.size < 0,                as |-> "bad_tar"],
       [fails |-> TooLarge(s, m),            as |-> "cap_exceeded"],
       [fails |-> ~SafeName(m.name),         as |-> "path_traversal"],
       [fails |-> ~m.reg,                    as |-> "path_traversal"],
       [fails |-> m.body = "missing",        as |-> "bad_tar"],
       [fails |-> Conflicts(s, m),           as |-> "bad_tar"] >>
Refusal(s, m) ==
    LET first == SelectInSeq(Checks(s, m), LAMBDA c : c.fails)
    IN  IF first = 0 THEN "none" ELSE Checks(s, m)[first].as

\* O_CREAT and O_TRUNC: of two members of one name the later one stays.
Put(tree, m) ==
    [f \in DOMAIN tree \cup {m.name} |-> IF f = m.name THEN m.data ELSE tree[f]]

\* A round of _extract_into's loop, which the first refusal leaves.
Member(s, m) ==
    IF s.reason # "none" \/ Refusal(s, m) # "none"
    THEN [s EXCEPT !.reason = IF s.reason # "none" THEN s.reason ELSE Refusal(s, m)]
    ELSE [reason |-> "none", files |-> s.files + 1, bytes |-> s.bytes + m.size,
          tree |-> Put(s.tree, m)]

Nothing == [reason |-> "none", files |-> 0, bytes |-> 0, tree |-> <<>>]

Unpacked(tar) ==
    LET after[n \in 0..Len(tar)] ==
            IF n = 0 THEN Nothing ELSE Member(after[n - 1], tar[n])
    IN  after[Len(tar)]

\* After the last member, tarfile finds the end and does not raise.  next()
\* raises when data it has read part of are not there to their last block,
\* or an extended header has no member; a header that is missing, cut off or
\* invalid raises in open(), where it is the first one, and is the end later.
AtEnd(a) ==
    /\ \A i \in DOMAIN a.members : a.members[i].body # "short"
    /\ a.ends = "marker" \/ (a.ends = "header" /\ a.members # <<>>)

\* extract.
Extracted(a) ==
    LET s == Unpacked(a.members)
    IN  IF s.reason = "none" /\ ~AtEnd(a) THEN [s EXCEPT !.reason = "bad_tar"] ELSE s

-----------------------------------------------------------------------------
(* What an archive stands for, of which unpacking makes a tree or a        *)
(* refusal.                                                                *)

\* body: whether the data, rounded up to a block, are in the archive, and
\* data what there is of them.
Entry == [name : Seq(STRING), size : Int, reg : BOOLEAN,
          body : {"whole", "short", "missing"}, data : STRING]
\* ends: what is where the next header would be.  Only the last member may
\* be cut off, and then there is nothing after it.
Archive ==
    {a \in [members : Seq(Entry), ends : {"marker", "header", "extended"}] :
        \A i \in DOMAIN a.members :
            a.members[i].body # "whole" => i = Len(a.members) /\ a.ends = "header"}

\* A regular file with a safe name, of whose data there is something.
Good(m) ==
    /\ m.body # "missing" /\ m.reg /\ m.size >= 0
    /\ m.name = Manifest \/ (m.name[1] = "payload" /\ Len(m.name) \in 2..Depth)
    /\ {"", ".."} \cap {m.name[c] : c \in DOMAIN m.name} = {}

Named(tar, n) == {tar[j].name : j \in 1..n}
\* No file is where another one has a directory.
Apart(tar, n) == \A a, b \in Named(tar, n) : ~Beneath(a, b)
Bytes(tar) ==
    LET bytes[n \in 0..Len(tar)] == IF n = 0 THEN 0 ELSE bytes[n - 1] + tar[n].size
    IN  bytes

\* The first n members are acceptable ...
Fine(tar, n) ==
    /\ n <= TarFiles /\ Bytes(tar)[n] <= TarBytes
    /\ \A i \in 1..n : Good(tar[i])
    /\ Apart(tar, n)
\* ... and these are their files: of two members of one name, the later one.
Exact(tar, tree, n) ==
    /\ DOMAIN tree = Named(tar, n)
    /\ \A i \in 1..n : (\A j \in i + 1..n : tar[j].name # tar[i].name)
                          => tree[tar[i].name] = tar[i].data

\* An archive that is cut off between two of its members, or whose headers are
\* broken from the second one on, cannot be told from a shorter one.
Whole(a) ==
    /\ a.members = <<>> => a.ends = "marker"
    /\ a.ends # "extended"
    /\ \A i \in DOMAIN a.members : a.members[i].body = "whole"

Exactly(a, result) ==
    LET all == Len(a.members) IN
    IF Fine(a.members, all) /\ Whole(a)
    THEN result.reason = "none" /\ Exact(a.members, result.tree, all)
    ELSE /\ result.reason # "none"
         /\ \E n \in 0..all :
              /\ Fine(a.members, n) /\ Exact(a.members, result.tree, n)
              /\ n = all \/ ~Fine(a.members, n + 1)
==============================================================================
