----------------------------- MODULE VisitProofs -----------------------------
(***************************************************************************)
(* Proofs about a job (JobRun), for every set of processes, names and      *)
(* archives, and about the visits it is part of.                           *)
(*                                                                         *)
(* Archives.  By induction over the members: as long as none is refused    *)
(* they are acceptable and the tree holds their files, and a refusal       *)
(* leaves the tree of the members before it (Unpacks); then it depends on  *)
(* how the archive ends (AtEndWhole).  Induction is that a set of numbers  *)
(* has a least member (SetInduction).                                      *)
(*                                                                         *)
(* Jobs.  An exit code of 0 says that nothing of the job is left: the      *)
(* leader only exits with 0 by itself, after the init of its namespace,    *)
(* which does not go before the rest is dead (ZeroMeansDead, NoOrphans).   *)
(* From then on the output directory stands still, and the copies agree    *)
(* with it entry by entry (CopiesAgree).                                   *)
(*                                                                         *)
(* What is proved of the gate (ConfirmGateProofs) and of a job alone holds *)
(* of the visits that put them together: every step of a visit is one of   *)
(* each, or leaves it as it is.                                            *)
(***************************************************************************)
EXTENDS Visit, ConfirmGateProofs, TLAPS, WellFoundedInduction, SequenceTheorems

-----------------------------------------------------------------------------
(* Archives: what extract makes of one, by induction over its members.    *)

\* A set of numbers with a member has a least one.
LEMMA LeastMember ==
  ASSUME NEW N \in SUBSET Nat, N # {} PROVE \E n \in N : \A m \in N : n <= m
  <1> DEFINE Less == OpToRel(<, Nat)
  <1>1. IsWellFoundedOn(Less, Nat)
    BY NatLessThanWellFounded
  <1>2. \A x, y \in Nat : x < y => <<x, y>> \in Less
    BY DEF OpToRel
  <1> HIDE DEF Less
  <1>3. \E n \in N : \A m \in N : ~(<<m, n>> \in Less)
    BY <1>1, WFMin
  <1>4. \A x, y \in Nat : ~(<<x, y>> \in Less) => y <= x
    <2>1. \A x, y \in Nat : ~(x < y) => y <= x
      OBVIOUS
    <2> QED  BY <1>2, <2>1, Zenon
  <1> QED  BY <1>3, <1>4, Zenon

\* Induction: what holds of 0 and passes on holds of every number.
LEMMA SetInduction ==
  ASSUME NEW S, 0 \in S, \A n \in Nat : n \in S => n + 1 \in S
  PROVE  Nat \subseteq S
  <1> DEFINE N == Nat \ S
  <1> SUFFICES ASSUME N # {} PROVE FALSE
    OBVIOUS
  <1>1. N \in SUBSET Nat
    OBVIOUS
  <1>2. PICK n \in N : \A m \in N : n <= m
    <2> HIDE DEF N
    <2> QED  BY <1>1, LeastMember
  <1>3. n \in Nat /\ n \notin S /\ n # 0
    OBVIOUS
  <1>4. n - 1 \in Nat /\ ~(n <= n - 1) /\ (n - 1) + 1 = n
    BY <1>3
  <1>5. n - 1 \in S
    BY <1>2, <1>4
  <1> QED  BY <1>3, <1>4, <1>5

\* The members of an archive, one after the other.
After(tar) ==
    LET after[n \in 0..Len(tar)] ==
            IF n = 0 THEN Nothing ELSE Member(after[n - 1], tar[n])
    IN  after

\* after is what its definition says.
LEMMA AfterDef ==
  ASSUME NEW tar, Len(tar) \in Nat
  PROVE  After(tar) = [n \in 0..Len(tar) |->
                        IF n = 0 THEN Nothing ELSE Member(After(tar)[n - 1], tar[n])]
  <1> DEFINE Chain(k, f) ==
                 f = [n \in 0..k |-> IF n = 0 THEN Nothing ELSE Member(f[n - 1], tar[n])]
             S == {k \in Nat : \E f : Chain(k, f)}
  <1>1. 0 \in S
    <2>1. \A n \in 0..0 : n = 0
      OBVIOUS
    <2>2. Chain(0, [n \in 0..0 |-> Nothing])
      BY <2>1
    <2> QED  BY <2>2
  <1>2. ASSUME NEW k \in Nat, k \in S PROVE k + 1 \in S
    <2>1. PICK f : Chain(k, f)
      BY <1>2
    <2> DEFINE g == [n \in 0..k + 1 |-> IF n = k + 1 THEN Member(f[k], tar[k + 1]) ELSE f[n]]
    <2>2. ASSUME NEW n \in 0..k + 1
          PROVE  g[n] = IF n = 0 THEN Nothing ELSE Member(g[n - 1], tar[n])
      <3>1. CASE n = k + 1
        <4>1. n # 0 /\ n - 1 = k /\ k \in 0..k + 1 /\ k # k + 1
          BY <3>1
        <4> QED  BY <3>1, <4>1
      <3>2. CASE n # k + 1
        <4>1. n \in 0..k /\ g[n] = f[n]
          BY <3>2
        <4>2. n # 0 => n - 1 \in 0..k + 1 /\ n - 1 # k + 1
          BY <4>1
        <4> QED  BY <2>1, <4>1, <4>2
      <3> QED  BY <3>1, <3>2
    <2>3. Chain(k + 1, g)
      BY <2>2
    <2>4. k + 1 \in Nat
      OBVIOUS
    <2> HIDE DEF Chain, g
    <2> QED  BY <2>3, <2>4
  <1>3. \E f : Chain(Len(tar), f)
    <2> HIDE DEF Chain
    <2>1. Nat \subseteq S
      <3> HIDE DEF S
      <3> QED  BY <1>1, <1>2, SetInduction
    <2> QED  BY <2>1
  <1>4. After(tar) = CHOOSE f : Chain(Len(tar), f)
    BY DEF After
  <1> HIDE DEF Chain
  <1>5. Chain(Len(tar), After(tar))
    BY <1>3, <1>4
  <1> QED  BY <1>5 DEF Chain

\* So is bytes.
LEMMA BytesDef ==
  ASSUME NEW tar, Len(tar) \in Nat
  PROVE  Bytes(tar) = [n \in 0..Len(tar) |->
                        IF n = 0 THEN 0 ELSE Bytes(tar)[n - 1] + tar[n].size]
  <1> DEFINE Chain(k, f) == f = [n \in 0..k |-> IF n = 0 THEN 0 ELSE f[n - 1] + tar[n].size]
             S == {k \in Nat : \E f : Chain(k, f)}
  <1>1. 0 \in S
    <2>1. \A n \in 0..0 : n = 0
      OBVIOUS
    <2>2. Chain(0, [n \in 0..0 |-> 0])
      BY <2>1
    <2> QED  BY <2>2
  <1>2. ASSUME NEW k \in Nat, k \in S PROVE k + 1 \in S
    <2>1. PICK f : Chain(k, f)
      BY <1>2
    <2> DEFINE g == [n \in 0..k + 1 |-> IF n = k + 1 THEN f[k] + tar[k + 1].size ELSE f[n]]
    <2>2. ASSUME NEW n \in 0..k + 1
          PROVE  g[n] = IF n = 0 THEN 0 ELSE g[n - 1] + tar[n].size
      <3>1. CASE n = k + 1
        <4>1. n # 0 /\ n - 1 = k /\ k \in 0..k + 1 /\ k # k + 1
          BY <3>1
        <4> QED  BY <3>1, <4>1
      <3>2. CASE n # k + 1
        <4>1. n \in 0..k /\ g[n] = f[n]
          BY <3>2
        <4>2. n # 0 => n - 1 \in 0..k + 1 /\ n - 1 # k + 1
          BY <4>1
        <4> QED  BY <2>1, <4>1, <4>2
      <3> QED  BY <3>1, <3>2
    <2>3. Chain(k + 1, g)
      BY <2>2
    <2>4. k + 1 \in Nat
      OBVIOUS
    <2> HIDE DEF Chain, g
    <2> QED  BY <2>3, <2>4
  <1>3. \E f : Chain(Len(tar), f)
    <2> HIDE DEF Chain
    <2>1. Nat \subseteq S
      <3> HIDE DEF S
      <3> QED  BY <1>1, <1>2, SetInduction
    <2> QED  BY <2>1
  <1>4. Bytes(tar) = CHOOSE f : Chain(Len(tar), f)
    BY DEF Bytes
  <1> HIDE DEF Chain
  <1>5. Chain(Len(tar), Bytes(tar))
    BY <1>3, <1>4
  <1> QED  BY <1>5 DEF Chain

\* A member after the state of those before it.
LEMMA MemberAfter ==
  ASSUME NEW tar \in Seq(Entry)
  PROVE  /\ After(tar)[0] = Nothing /\ Bytes(tar)[0] = 0 /\ Len(tar) \in Nat
         /\ \A i \in 0..Len(tar) - 1 :
              /\ tar[i + 1] \in Entry
              /\ After(tar)[i + 1] = Member(After(tar)[i], tar[i + 1])
              /\ Bytes(tar)[i + 1] = Bytes(tar)[i] + tar[i + 1].size
         /\ Unpacked(tar) = After(tar)[Len(tar)]
  <1>1. Len(tar) \in Nat
    OBVIOUS
  <1>2. 0 \in 0..Len(tar)
    BY <1>1
  <1>3. After(tar)[0] = Nothing
    BY <1>1, <1>2, AfterDef
  <1>4. Bytes(tar)[0] = 0
    BY <1>1, <1>2, BytesDef
  <1>5. ASSUME NEW i \in 0..Len(tar) - 1
        PROVE  /\ tar[i + 1] \in Entry
               /\ After(tar)[i + 1] = Member(After(tar)[i], tar[i + 1])
               /\ Bytes(tar)[i + 1] = Bytes(tar)[i] + tar[i + 1].size
    <2>1. i + 1 \in 0..Len(tar) /\ i + 1 # 0 /\ (i + 1) - 1 = i /\ i + 1 \in 1..Len(tar)
      BY <1>1
    <2>2. tar[i + 1] \in Entry
      BY <2>1
    <2>3. After(tar)[i + 1] = Member(After(tar)[(i + 1) - 1], tar[i + 1])
      BY <1>1, <2>1, AfterDef
    <2>4. Bytes(tar)[i + 1] = Bytes(tar)[(i + 1) - 1] + tar[i + 1].size
      BY <1>1, <2>1, BytesDef
    <2> QED  BY <2>1, <2>2, <2>3, <2>4
  <1>6. Unpacked(tar) = After(tar)[Len(tar)]
    BY DEF Unpacked, After
  <1> QED  BY <1>1, <1>3, <1>4, <1>5, <1>6

\* A member is accepted if there is nothing to refuse it for.
LEMMA RefusalNone ==
  ASSUME NEW s, NEW m
  PROVE  Refusal(s, m) = "none" <=>
           /\ ~TooMany(s) /\ ~(m.size < 0) /\ ~TooLarge(s, m)
           /\ SafeName(m.name) /\ m.reg /\ m.body # "missing" /\ ~Conflicts(s, m)
  <1> DEFINE c == Checks(s, m)
             I == {i \in 1..Len(c) : c[i].fails}
  <1>1. /\ Len(c) = 7 /\ \A i \in 1..7 : c[i].as \in {"bad_tar", "cap_exceeded", "path_traversal"}
    BY DEF Checks
  <1>2. /\ c[1].fails <=> TooMany(s)
        /\ c[2].fails <=> m.size < 0
        /\ c[3].fails <=> TooLarge(s, m)
        /\ c[4].fails <=> ~SafeName(m.name)
        /\ c[5].fails <=> ~m.reg
        /\ c[6].fails <=> m.body = "missing"
        /\ c[7].fails <=> Conflicts(s, m)
    BY DEF Checks
  <1>3. I = {} <=> \A i \in 1..7 : ~c[i].fails
    BY <1>1
  <1>4. \A i \in 1..7 : i = 1 \/ i = 2 \/ i = 3 \/ i = 4 \/ i = 5 \/ i = 6 \/ i = 7
    OBVIOUS
  <1>5. /\ 1 \in 1..7 /\ 2 \in 1..7 /\ 3 \in 1..7 /\ 4 \in 1..7 /\ 5 \in 1..7 /\ 6 \in 1..7
        /\ 7 \in 1..7
    OBVIOUS
  <1>6. (\A i \in 1..7 : ~c[i].fails) <=>
           /\ ~TooMany(s) /\ ~(m.size < 0) /\ ~TooLarge(s, m)
           /\ SafeName(m.name) /\ m.reg /\ m.body # "missing" /\ ~Conflicts(s, m)
    <2> HIDE DEF c
    <2> QED  BY <1>2, <1>4, <1>5, Zenon
  <1>7. Refusal(s, m) = IF I # {} THEN c[Min(I)].as ELSE "none"
    <2>1. SelectInSeq(c, LAMBDA d : d.fails) = IF I # {} THEN Min(I) ELSE 0
      BY DEF SelectInSeq
    <2>2. CASE I # {}
      <3>1. Min(I) \in I
        <4>1. I \subseteq Nat
          OBVIOUS
        <4> HIDE DEF I
        <4>2. \E i \in I : \A j \in I : i <= j
          BY <2>2, <4>1, LeastMember
        <4> QED  BY <4>2 DEF Min
      <3>2. Min(I) # 0
        BY <3>1
      <3> HIDE DEF c, I
      <3> QED  BY <2>1, <2>2, <3>2 DEF Refusal, c
    <2>3. CASE I = {}
      <3> HIDE DEF I
      <3> QED  BY <2>1, <2>3 DEF Refusal
    <2> QED  BY <2>2, <2>3
  <1>8. I # {} => c[Min(I)].as # "none"
    <2> SUFFICES ASSUME I # {} PROVE c[Min(I)].as # "none"
      OBVIOUS
    <2>1. I \subseteq Nat
      OBVIOUS
    <2>2. Min(I) \in I
      <3> HIDE DEF I
      <3>1. \E i \in I : \A j \in I : i <= j
        BY <2>1, LeastMember
      <3> QED  BY <3>1 DEF Min
    <2>3. Min(I) \in 1..7
      BY <1>1, <2>2
    <2> HIDE DEF I, c
    <2> QED  BY <1>1, <2>3
  <1> HIDE DEF I, c
  <1> QED  BY <1>3, <1>6, <1>7, <1>8

\* A safe name is the manifest's or one under payload/.
LEMMA SafeNames ==
  ASSUME NEW name \in Seq(STRING)
  PROVE  SafeName(name) <=>
           /\ name = Manifest \/ (name[1] = "payload" /\ Len(name) \in 2..Depth)
           /\ {"", ".."} \cap {name[c] : c \in DOMAIN name} = {}
  <1>1. Beneath(<<"payload">>, name) <=> Len(name) >= 2 /\ name[1] = "payload"
    <2> DEFINE S == STRING \cup {"payload"}
    <2>1. <<"payload">> \in Seq(S) /\ name \in Seq(S)
      <3>1. name \in Seq(S)
        <4>1. STRING \subseteq S
          OBVIOUS
        <4> HIDE DEF S
        <4> QED  BY <4>1, SeqMonotonic
      <3>2. "payload" \in S
        OBVIOUS
      <3> HIDE DEF S
      <3> QED  BY <3>1, <3>2
    <2> HIDE DEF S
    <2>2. Len(<<"payload">>) = 1 /\ <<"payload">>[1] = "payload"
      OBVIOUS
    <2>3. SubSeq(<<"payload">>, 1, 1) = <<"payload">>
      BY <2>1, <2>2, SubSeqFull
    <2>4. Beneath(<<"payload">>, name) <=>
             1 <= Len(name) /\ <<"payload">> = SubSeq(name, 1, 1) /\ <<"payload">> # name
      BY <2>2, <2>3 DEF Beneath, IsStrictPrefix, IsPrefix
    <2>5. Len(name) \in Nat
      OBVIOUS
    <2>6. ASSUME 1 <= Len(name) PROVE <<"payload">> = SubSeq(name, 1, 1) <=> name[1] = "payload"
      <3>1. /\ SubSeq(name, 1, 1) \in Seq(S) /\ Len(SubSeq(name, 1, 1)) = 1
            /\ SubSeq(name, 1, 1)[1] = name[1]
        BY <2>1, <2>5, <2>6, SubSeqProperties
      <3>2. <<"payload">> = SubSeq(name, 1, 1) <=> SubSeq(name, 1, 1)[1] = "payload"
        BY <2>1, <2>2, <3>1, SeqEqual
      <3> QED  BY <3>1, <3>2
    <2>7. name[1] = "payload" => (<<"payload">> = name <=> Len(name) = 1)
      BY <2>1, <2>2, SeqEqual
    <2>8. CASE Len(name) >= 2
      BY <2>4, <2>5, <2>6, <2>7, <2>8
    <2>9. CASE Len(name) = 1
      BY <2>4, <2>6, <2>7, <2>9
    <2>10. CASE Len(name) = 0
      BY <2>4, <2>10
    <2> QED  BY <2>5, <2>8, <2>9, <2>10
  <1>2. Len(Manifest) = 1 /\ Depth \in Nat /\ Depth >= 1 /\ Len(name) \in Nat
    BY CapsAssumption DEF Manifest
  <1>3. ({"", ".."} \cap {name[c] : c \in DOMAIN name} = {}) <=>
           \A i \in DOMAIN name : name[i] \notin {"", ".."}
    OBVIOUS
  <1>4. Len(name) \in 2..Depth <=> Len(name) >= 2 /\ Len(name) <= Depth
    BY <1>2
  <1>5. name = Manifest => Len(name) <= Depth
    BY <1>2
  <1> QED  BY <1>1, <1>3, <1>4, <1>5 DEF SafeName

\* One more acceptable member.
LEMMA FineStep ==
  ASSUME NEW tar \in Seq(Entry), NEW i \in 0..Len(tar) - 1,
         Bytes(tar)[i] \in Int
  PROVE  /\ Named(tar, i + 1) = Named(tar, i) \cup {tar[i + 1].name}
         /\ Fine(tar, i + 1) <=>
              /\ Fine(tar, i) /\ i + 1 <= TarFiles
              /\ Bytes(tar)[i] + tar[i + 1].size <= TarBytes /\ Good(tar[i + 1])
              /\ \A f \in Named(tar, i) : ~Beneath(f, tar[i + 1].name)
                                          /\ ~Beneath(tar[i + 1].name, f)
  <1>1. /\ i \in Nat /\ 1..i + 1 = 1..i \cup {i + 1} /\ Len(tar) \in Nat
    OBVIOUS
  <1>2. /\ tar[i + 1] \in Entry /\ tar[i + 1].size \in Int
        /\ Bytes(tar)[i + 1] = Bytes(tar)[i] + tar[i + 1].size
    BY MemberAfter DEF Entry
  <1>3. Named(tar, i + 1) = Named(tar, i) \cup {tar[i + 1].name}
    BY <1>1 DEF Named
  <1>4. ~Beneath(tar[i + 1].name, tar[i + 1].name)
    BY DEF Beneath, IsStrictPrefix
  <1>5. Apart(tar, i + 1) <=>
          /\ Apart(tar, i)
          /\ \A f \in Named(tar, i) : ~Beneath(f, tar[i + 1].name)
                                      /\ ~Beneath(tar[i + 1].name, f)
    BY <1>3, <1>4 DEF Apart
  <1>6. Good(tar[i + 1]) => tar[i + 1].size >= 0
    BY DEF Good
  <1>7. i + 1 <= TarFiles => i <= TarFiles
    BY <1>1, CapsAssumption
  <1>8. Bytes(tar)[i + 1] <= TarBytes /\ tar[i + 1].size >= 0 => Bytes(tar)[i] <= TarBytes
    BY <1>2, CapsAssumption
  <1>9. (\A j \in 1..i + 1 : Good(tar[j]))
          <=> (\A j \in 1..i : Good(tar[j])) /\ Good(tar[i + 1])
    BY <1>1
  <1>10. Fine(tar, i + 1) <=>
           /\ i + 1 <= TarFiles /\ Bytes(tar)[i] + tar[i + 1].size <= TarBytes
           /\ (\A j \in 1..i : Good(tar[j])) /\ Good(tar[i + 1])
           /\ Apart(tar, i + 1)
    BY <1>2, <1>9 DEF Fine
  <1> QED  BY <1>2, <1>3, <1>5, <1>6, <1>7, <1>8, <1>10 DEF Fine

\* The file of a new member replaces the one of its name.
LEMMA ExactStep ==
  ASSUME NEW tar \in Seq(Entry), NEW i \in 0..Len(tar) - 1, NEW tree, Exact(tar, tree, i)
  PROVE  Exact(tar, Put(tree, tar[i + 1]), i + 1)
  <1> DEFINE m == tar[i + 1]
  <1>1. i \in Nat /\ 1..i + 1 = 1..i \cup {i + 1}
    OBVIOUS
  <1>2. DOMAIN Put(tree, m) = Named(tar, i + 1)
    BY <1>1 DEF Put, Exact, Named
  <1>3. ASSUME NEW k \in 1..i + 1, \A j \in k + 1..i + 1 : tar[j].name # tar[k].name
        PROVE  Put(tree, m)[tar[k].name] = tar[k].data
    <2>1. CASE k = i + 1
      BY <2>1 DEF Put
    <2>2. CASE k \in 1..i
      <3>1. i + 1 \in k + 1..i + 1
        BY <2>2
      <3>2. tar[k].name # m.name
        BY <1>3, <3>1
      <3>3. tar[k].name \in DOMAIN tree
        BY <2>2 DEF Exact, Named
      <3>4. \A j \in k + 1..i : j \in k + 1..i + 1
        BY <1>1
      <3>5. tree[tar[k].name] = tar[k].data
        BY <1>3, <2>2, <3>4 DEF Exact
      <3> QED  BY <3>2, <3>3, <3>5 DEF Put
    <2> QED  BY <1>1, <2>1, <2>2
  <1> QED  BY <1>2, <1>3 DEF Exact

\* The state after i members.
Unpacks(tar, i) ==
    LET s == After(tar)[i] IN
    /\ Bytes(tar)[i] \in Int
    /\ s = [reason |-> s.reason, files |-> s.files, bytes |-> s.bytes, tree |-> s.tree]
    /\ s.reason = "none" =>
         /\ Fine(tar, i) /\ Exact(tar, s.tree, i)
         /\ s.files = i /\ s.bytes = Bytes(tar)[i]
    /\ s.reason # "none" =>
         /\ ~Fine(tar, i)
         /\ \E n \in 0..i - 1 : Fine(tar, n) /\ ~Fine(tar, n + 1) /\ Exact(tar, s.tree, n)

\* Every member keeps to it (_extract_into).
LEMMA UnpacksStep ==
  ASSUME NEW tar \in Seq(Entry), NEW i \in 0..Len(tar) - 1, Unpacks(tar, i)
  PROVE  Unpacks(tar, i + 1)
  <1> DEFINE s == After(tar)[i]
             m == tar[i + 1]
             t == After(tar)[i + 1]
  <1>1. /\ m \in Entry /\ t = Member(s, m) /\ m.size \in Int
        /\ Bytes(tar)[i + 1] = Bytes(tar)[i] + m.size
    BY MemberAfter DEF Entry
  <1>2. /\ Bytes(tar)[i] \in Int
        /\ s = [reason |-> s.reason, files |-> s.files, bytes |-> s.bytes, tree |-> s.tree]
    BY DEF Unpacks
  <1>3. Bytes(tar)[i + 1] \in Int /\ i \in Nat
    BY <1>1, <1>2
  <1>4. CASE s.reason # "none"
    <2>1. t = [s EXCEPT !.reason = s.reason]
      BY <1>1, <1>4 DEF Member
    <2>2. t = s
      BY <1>2, <2>1
    <2>3. ~Fine(tar, i + 1)
      BY <1>2, <1>4, FineStep DEF Unpacks
    <2>4. PICK n \in 0..i - 1 : Fine(tar, n) /\ ~Fine(tar, n + 1) /\ Exact(tar, s.tree, n)
      BY <1>4 DEF Unpacks
    <2>5. n \in 0..(i + 1) - 1
      BY <1>3
    <2> HIDE DEF s, t
    <2> QED  BY <1>2, <1>3, <1>4, <2>2, <2>3, <2>4, <2>5 DEF Unpacks, s, t
  <1>5. CASE s.reason = "none"
    <2>1. Fine(tar, i) /\ Exact(tar, s.tree, i) /\ s.files = i /\ s.bytes = Bytes(tar)[i]
      BY <1>5 DEF Unpacks
    <2>2. DOMAIN s.tree = Named(tar, i)
      BY <2>1 DEF Exact
    <2>3. Refusal(s, m) = "none" <=> Fine(tar, i + 1)
      <3>1. Refusal(s, m) = "none" <=>
              /\ ~TooMany(s) /\ ~(m.size < 0) /\ ~TooLarge(s, m)
              /\ SafeName(m.name) /\ m.reg /\ m.body # "missing" /\ ~Conflicts(s, m)
        BY RefusalNone
      <3>2. /\ ~TooMany(s) <=> i + 1 <= TarFiles
            /\ ~TooLarge(s, m) <=> Bytes(tar)[i] + m.size <= TarBytes
            /\ ~(m.size < 0) <=> m.size >= 0
        BY <1>1, <1>2, <1>3, <2>1, CapsAssumption DEF TooMany, TooLarge
      <3>3. ~Conflicts(s, m) <=>
              \A f \in Named(tar, i) : ~Beneath(f, m.name) /\ ~Beneath(m.name, f)
        BY <2>2 DEF Conflicts
      <3>4. Good(m) <=>
              /\ m.body # "missing" /\ m.reg /\ m.size >= 0
              /\ SafeName(m.name)
        <4>1. m.name \in Seq(STRING)
          BY <1>1 DEF Entry
        <4>2. SafeName(m.name) <=>
                 /\ m.name = Manifest \/ (m.name[1] = "payload" /\ Len(m.name) \in 2..Depth)
                 /\ {"", ".."} \cap {m.name[c] : c \in DOMAIN m.name} = {}
          BY <4>1, SafeNames
        <4> HIDE DEF m
        <4> QED  BY <4>1, <4>2 DEF Good
      <3>5. Fine(tar, i + 1) <=>
              /\ Fine(tar, i) /\ i + 1 <= TarFiles
              /\ Bytes(tar)[i] + m.size <= TarBytes /\ Good(m)
              /\ \A f \in Named(tar, i) : ~Beneath(f, m.name) /\ ~Beneath(m.name, f)
        BY <1>2, FineStep
      <3> HIDE DEF s, m
      <3> QED  BY <2>1, <3>1, <3>2, <3>3, <3>4, <3>5
    <2>4. CASE Refusal(s, m) = "none"
      <3>1. t = [reason |-> "none", files |-> s.files + 1, bytes |-> s.bytes + m.size,
                 tree |-> Put(s.tree, m)]
        BY <1>1, <1>5, <2>4 DEF Member
      <3>2. Exact(tar, Put(s.tree, m), i + 1)
        BY <2>1, ExactStep
      <3>3. /\ t.reason = "none" /\ t.files = i + 1 /\ t.bytes = Bytes(tar)[i + 1]
            /\ t.tree = Put(s.tree, m)
            /\ t = [reason |-> t.reason, files |-> t.files, bytes |-> t.bytes, tree |-> t.tree]
        BY <1>1, <2>1, <3>1
      <3> HIDE DEF s, m, t
      <3> QED  BY <1>3, <2>3, <2>4, <3>2, <3>3 DEF Unpacks, t
    <2>5. CASE Refusal(s, m) # "none"
      <3>1. t = [s EXCEPT !.reason = Refusal(s, m)]
        BY <1>1, <1>5, <2>5 DEF Member
      <3>2. /\ t.reason = Refusal(s, m) /\ t.tree = s.tree
            /\ t = [reason |-> t.reason, files |-> t.files, bytes |-> t.bytes, tree |-> t.tree]
        <4> HIDE DEF s, t, m
        <4> QED  BY <1>2, <3>1
      <3>3. i \in 0..(i + 1) - 1
        BY <1>3
      <3> HIDE DEF s, m, t
      <3> QED  BY <1>3, <2>1, <2>3, <2>5, <3>2, <3>3 DEF Unpacks, t
    <2> QED  BY <2>4, <2>5
  <1> QED  BY <1>4, <1>5

\* All members, one after the other (_extract_into's loop).
LEMMA MembersUnpack ==
  ASSUME NEW tar \in Seq(Entry)
  PROVE  /\ Unpacks(tar, Len(tar)) /\ Unpacked(tar) = After(tar)[Len(tar)]
         /\ Len(tar) \in Nat
  <1> DEFINE S == {i \in Nat : i \in 0..Len(tar) => Unpacks(tar, i)}
  <1>1. Len(tar) \in Nat /\ After(tar)[0] = Nothing /\ Bytes(tar)[0] = 0
        /\ Unpacked(tar) = After(tar)[Len(tar)]
    BY MemberAfter
  <1>2. 0 \in S
    <2>1. Named(tar, 0) = {} /\ 1..0 = {}
      BY DEF Named
    <2>2. Fine(tar, 0)
      BY <1>1, <2>1, CapsAssumption DEF Fine, Apart
    <2>3. Exact(tar, <<>>, 0)
      BY <2>1 DEF Exact
    <2>4. Unpacks(tar, 0)
      BY <1>1, <2>2, <2>3 DEF Unpacks, Nothing
    <2> QED  BY <2>4
  <1>3. ASSUME NEW i \in Nat, i \in S PROVE i + 1 \in S
    <2>1. CASE i + 1 \in 0..Len(tar)
      <3>1. i \in 0..Len(tar) - 1 /\ i \in 0..Len(tar)
        BY <1>1, <2>1
      <3> QED  BY <1>3, <3>1, UnpacksStep
    <2> QED  BY <2>1
  <1>4. Nat \subseteq S
    <2> HIDE DEF S
    <2> QED  BY <1>2, <1>3, SetInduction
  <1>5. Unpacks(tar, Len(tar))
    <2>1. Len(tar) \in 0..Len(tar) /\ Len(tar) \in S
      BY <1>1, <1>4
    <2> QED  BY <2>1
  <1> QED  BY <1>1, <1>5

\* When something of the data of every member is there, the end is one that
\* tarfile takes for one exactly if nothing is cut off or broken.
LEMMA AtEndWhole ==
  ASSUME NEW a \in Archive, \A i \in DOMAIN a.members : a.members[i].body # "missing"
  PROVE  AtEnd(a) <=> Whole(a)
  <1>1. /\ a.members \in Seq(Entry) /\ a.ends \in {"marker", "header", "extended"}
    BY DEF Archive
  <1>2. \A i \in DOMAIN a.members : a.members[i].body \in {"whole", "short"}
    <2>1. \A i \in DOMAIN a.members : a.members[i] \in Entry
      BY <1>1
    <2> QED  BY <2>1 DEF Entry
  <1>3. (\A i \in DOMAIN a.members : a.members[i].body # "short")
          <=> \A i \in DOMAIN a.members : a.members[i].body = "whole"
    BY <1>2
  <1> QED  BY <1>1, <1>3 DEF AtEnd, Whole

\* An archive is unpacked to what it stands for (extract).
THEOREM ExtractedExactly ==
  ASSUME NEW a \in Archive
  PROVE  Exactly(a, Extracted(a))
  <1> DEFINE tar == a.members
             s == Unpacked(tar)
             all == Len(tar)
  <1>1. tar \in Seq(Entry)
    BY DEF Archive
  <1>2. Unpacks(tar, all) /\ s = After(tar)[all] /\ all \in Nat
    BY <1>1, MembersUnpack
  <1> HIDE DEF tar, s, all
  <1>3. /\ s = [reason |-> s.reason, files |-> s.files, bytes |-> s.bytes, tree |-> s.tree]
        /\ s.reason = "none" => Fine(tar, all) /\ Exact(tar, s.tree, all)
        /\ s.reason # "none" =>
             /\ ~Fine(tar, all)
             /\ \E n \in 0..all - 1 : Fine(tar, n) /\ ~Fine(tar, n + 1) /\ Exact(tar, s.tree, n)
    BY <1>2 DEF Unpacks
  <1>4. Extracted(a) = IF s.reason = "none" /\ ~Whole(a) THEN [s EXCEPT !.reason = "bad_tar"] ELSE s
    <2>1. CASE s.reason # "none"
      BY <2>1 DEF Extracted, s, tar
    <2>2. CASE s.reason = "none"
      <3>1. \A i \in 1..all : Good(tar[i])
        BY <1>3, <2>2 DEF Fine
      <3>2. DOMAIN tar = 1..all
        BY <1>1 DEF all
      <3>3. \A i \in DOMAIN tar : tar[i].body # "missing"
        BY <3>1, <3>2, Zenon DEF Good
      <3>4. AtEnd(a) <=> Whole(a)
        BY <3>3, AtEndWhole DEF tar
      <3> QED  BY <3>4 DEF Extracted, s, tar
    <2> QED  BY <2>1, <2>2
  <1>5. CASE s.reason # "none"
    <2>1. Extracted(a) = s
      BY <1>4, <1>5
    <2>2. PICK n \in 0..all - 1 : Fine(tar, n) /\ ~Fine(tar, n + 1) /\ Exact(tar, s.tree, n)
      BY <1>3, <1>5
    <2>3. n \in 0..all
      BY <1>2
    <2> QED  BY <1>3, <1>5, <2>1, <2>2, <2>3 DEF Exactly, tar, all
  <1>6. CASE s.reason = "none" /\ Whole(a)
    <2>1. Extracted(a) = s
      BY <1>4, <1>6
    <2> QED  BY <1>3, <1>6, <2>1 DEF Exactly, tar, all
  <1>7. CASE s.reason = "none" /\ ~Whole(a)
    <2>1. Extracted(a) = [s EXCEPT !.reason = "bad_tar"]
      BY <1>4, <1>7
    <2>2. Extracted(a).reason = "bad_tar" /\ Extracted(a).tree = s.tree
      BY <1>3, <2>1
    <2>3. all \in 0..all
      BY <1>2
    <2> QED  BY <1>3, <1>7, <2>2, <2>3 DEF Exactly, tar, all
  <1> QED  BY <1>5, <1>6, <1>7

-----------------------------------------------------------------------------
(* Jobs.                                                                   *)

NotSpawned == {"idle", "unpacked", "ready", "audit", "spawn"}

\* Before the job is started there is none.
NotYet ==
    phase \in NotSpawned =>
        state = [p \in Proc |-> "none"] /\ code = [p \in {"leader", "main"} |-> 0]
\* The namespace of a script goes with its init, and is gone when that is.
NoOrphans ==
    /\ op = "vetted" => state["main"] = "none"
    /\ state["main"] \in {"zap", "dead"} => \A k \in Kid : state[k] # "run"
    /\ state["main"] = "dead" => \A k \in Kid : state[k] \in {"none", "dead"}
ZeroMeansDead == state["leader"] = "dead" /\ code["leader"] = 0 => AllDead
\* Outputs of a job whose exit code is 0 are collected after its end.
ResultIsZero ==
    phase \in {"list", "collect", "shape"} /\ rc = 0 =>
        state["leader"] = "dead" /\ code["leader"] = 0
KilledRc == phase = "drain" => rc = 124
\* The copies so far.
NothingYet ==
    phase \notin {"collect", "shape", "done"} => got = Bare /\ fd = Closed /\ todo = {}
OpenIsOwn == fd = Closed \/ (fd.name \in Name /\ fd.was = "own")
CopiesAgree ==
    phase \in {"collect", "shape"} /\ rc = 0 =>
        /\ fd # Closed => out[fd.name] = fd.was
        /\ \A n \in Name : n \notin todo /\ (fd = Closed \/ n # fd.name) => got[n] = out[n]
AllCopied == phase = "shape" => todo = {} /\ fd = Closed
Unreported == phase # "done" => status = "none"

JobInv == /\ JobTypeOK /\ NotYet /\ NoOrphans /\ ZeroMeansDead /\ ResultIsZero
          /\ KilledRc /\ NothingYet /\ OpenIsOwn /\ CopiesAgree /\ AllCopied /\ Unreported
          /\ OwnBytesOnly /\ OkMeansComplete

\* Nothing has been started.
LEMMA JobInvStill == phase = "idle" /\ Still => JobInv
  <1> SUFFICES ASSUME phase = "idle", Still PROVE JobInv
    OBVIOUS
  <1> USE DEF Still
  <1>1. \A p \in Proc : state[p] = "none"
    OBVIOUS
  <1>2. "main" \in Proc /\ "leader" \in Proc /\ Kid \subseteq Proc
    BY DEF Proc
  <1>3. JobTypeOK
    <2>1. out \in [Name -> Content] /\ got \in [Name -> Content]
      BY DEF Bare, Content
    <2>2. fd \in [name : Name \cup {"none"}, was : Content]
      BY DEF Closed, Content
    <2>3. state \in [Proc -> {"none", "run", "kill", "zap", "dead"}]
          /\ code \in [{"leader", "main"} -> {0, 1}]
      OBVIOUS
    <2> QED  BY <2>1, <2>2, <2>3 DEF JobTypeOK
  <1>4. NotYet /\ NoOrphans /\ ZeroMeansDead /\ AllDead
    BY <1>1, <1>2 DEF NotYet, NoOrphans, ZeroMeansDead, AllDead
  <1>5. ResultIsZero /\ KilledRc /\ NothingYet /\ OpenIsOwn /\ CopiesAgree /\ AllCopied /\ Unreported
    BY DEF ResultIsZero, KilledRc, NothingYet, OpenIsOwn, CopiesAgree, AllCopied, Unreported
  <1>6. OwnBytesOnly /\ OkMeansComplete
    BY DEF OwnBytesOnly, OkMeansComplete, Bare
  <1> QED  BY <1>3, <1>4, <1>5, <1>6 DEF JobInv

\* No job at first.
LEMMA JobInvInit == JobInit => JobInv
  BY JobInvStill DEF JobInit

\* What is left of a job goes with the visit.
LEMMA OverStep == Over => JobInv'
  <1>1. Over => (phase = "idle" /\ Still)'
    BY DEF Over, Still
  <1> QED  BY <1>1, JobInvStill, PTL

-----------------------------------------------------------------------------
(* The job's processes.                                                    *)

\* The leader and main are processes, and no children of theirs.
LEMMA Members == /\ "main" \in Proc /\ "leader" \in Proc /\ Kid \subseteq Proc
                 /\ "main" \notin Kid /\ "leader" \notin Kid /\ Coder \subseteq Proc
  BY JobAssumption DEF Proc, Coder

\* The steps of a process, one by one.
ProcStep ==
    \/ \E n \in Name : Write(n)
    \/ \E p \in Proc : \E k \in Kid : Fork(p, k)
    \/ \E p \in Proc : Detach(p) \/ ClosePipes(p)
    \/ \E k \in Kid : KidExits(k)
    \/ \E c \in {0, 1} : MainExits(c) \/ LeaderExits(c)
    \/ MainGone \/ LeaderDies

\* The job and the kernel take no other steps.
LEMMA ProcSteps == Job \/ Kernel => ProcStep
  BY DEF Job, Kernel, ProcStep

\* A job that is dead does nothing.
LEMMA Acting == ASSUME JobTypeOK, ProcStep PROVE ~AllDead /\ UNCHANGED harnessVars
  <1>1. UNCHANGED harnessVars
    BY DEF ProcStep, Write, Fork, Detach, ClosePipes, KidExits, MainExits, LeaderExits,
           MainGone, LeaderDies
  <1>2. ASSUME NEW p \in Proc, state[p] \in {"run", "kill", "zap"} PROVE ~AllDead
    BY <1>2 DEF AllDead
  <1>3. CASE \E n \in Name : Write(n)
    BY <1>2, <1>3, Members DEF Write, Alive
  <1>4. CASE \E p \in Proc : (\E k \in Kid : Fork(p, k)) \/ Detach(p) \/ ClosePipes(p)
    BY <1>2, <1>4 DEF Fork, Detach, ClosePipes
  <1>5. CASE \E k \in Kid : KidExits(k)
    BY <1>2, <1>5, Members DEF KidExits, Alive
  <1>6. CASE \E c \in {0, 1} : MainExits(c) \/ LeaderExits(c)
    BY <1>2, <1>6, Members DEF MainExits, LeaderExits, Alive
  <1>7. CASE MainGone \/ LeaderDies
    BY <1>2, <1>7, Members DEF MainGone, LeaderDies
  <1> QED  BY <1>1, <1>3, <1>4, <1>5, <1>6, <1>7 DEF ProcStep

\* What a step does to the states of the processes.
LEMMA ProcType ==
  ASSUME JobTypeOK, ProcStep
  PROVE  /\ state' \in [Proc -> {"none", "run", "kill", "zap", "dead"}]
         /\ code' \in [{"leader", "main"} -> {0, 1}]
         /\ group' \subseteq Proc /\ pipe' \subseteq Proc
         /\ out' \in [Name -> Content]
  <1> USE DEF JobTypeOK
  <1>1. CASE \E n \in Name : Write(n)
    BY <1>1 DEF Write, Content
  <1>2. ASSUME NEW p \in Proc, NEW k \in Kid, Fork(p, k)
        PROVE  /\ state' \in [Proc -> {"none", "run", "kill", "zap", "dead"}]
               /\ group' \subseteq Proc /\ pipe' \subseteq Proc /\ UNCHANGED <<code, out>>
    BY <1>2, Members DEF Fork
  <1>3. CASE \E p \in Proc : Detach(p) \/ ClosePipes(p)
    BY <1>3 DEF Detach, ClosePipes
  <1>4. ASSUME NEW k \in Kid, KidExits(k)
        PROVE  /\ state' \in [Proc -> {"none", "run", "kill", "zap", "dead"}]
               /\ group' \subseteq Proc /\ pipe' \subseteq Proc /\ UNCHANGED <<code, out>>
    <2>1. state' = [state EXCEPT ![k] = "dead"]
          /\ group' \subseteq group /\ pipe' \subseteq pipe /\ UNCHANGED <<code, out>>
      BY <1>4 DEF KidExits, Gone
    <2> QED  BY <2>1
  <1>5. ASSUME NEW c \in {0, 1}, MainExits(c)
        PROVE  /\ state' \in [Proc -> {"none", "run", "kill", "zap", "dead"}]
               /\ code' \in [{"leader", "main"} -> {0, 1}]
               /\ group' \subseteq Proc /\ pipe' \subseteq Proc /\ out' = out
    BY <1>5 DEF MainExits, Zapped
  <1>6. ASSUME NEW c \in {0, 1}, LeaderExits(c)
        PROVE  /\ state' \in [Proc -> {"none", "run", "kill", "zap", "dead"}]
               /\ code' \in [{"leader", "main"} -> {0, 1}]
               /\ group' \subseteq Proc /\ pipe' \subseteq Proc /\ out' = out
    BY <1>6 DEF LeaderExits, Gone
  <1>7. CASE MainGone \/ LeaderDies
    <2>1. UNCHANGED out /\ group' \subseteq Proc /\ pipe' \subseteq Proc
          /\ code' \in [{"leader", "main"} -> {0, 1}]
      BY <1>7 DEF MainGone, LeaderDies
    <2>2. state' \in [Proc -> {"none", "run", "kill", "zap", "dead"}]
      BY <1>7 DEF MainGone, LeaderDies
    <2> QED  BY <2>1, <2>2
  <1> QED  BY <1>1, <1>2, <1>3, <1>4, <1>5, <1>6, <1>7 DEF ProcStep

\* A namespace goes with its init.
LEMMA ProcOrphans == ASSUME JobTypeOK, NoOrphans, ProcStep PROVE NoOrphans'
  <1> USE DEF NoOrphans
  <1>1. op' = op /\ state \in [Proc -> {"none", "run", "kill", "zap", "dead"}]
    BY Acting DEF harnessVars, JobTypeOK
  <1>2. CASE UNCHANGED state
    BY <1>1, <1>2
  <1>3. ASSUME NEW p \in Proc, NEW k \in Kid, Fork(p, k) PROVE NoOrphans'
    <2>1. p \in Coder /\ state[p] = "run" /\ state' = [state EXCEPT ![k] = "run"]
      BY <1>3 DEF Fork
    <2>2. state["main"] \notin {"zap", "dead"}
      BY <2>1, Members DEF Coder
    <2> QED  BY <1>1, <2>1, <2>2, Members
  <1>4. ASSUME NEW k \in Kid, KidExits(k) PROVE NoOrphans'
    BY <1>1, <1>4, Members DEF KidExits, Gone
  <1>5. ASSUME NEW c \in {0, 1}, MainExits(c) PROVE NoOrphans'
    <2>1. state' = Zapped /\ state["main"] \in {"run", "kill"}
      BY <1>5 DEF MainExits, Alive
    <2>2. state'["main"] = "zap" /\ \A k \in Kid : state'[k] # "run"
      BY <1>1, <2>1, Members DEF Zapped
    <2> QED  BY <1>1, <2>1, <2>2
  <1>6. ASSUME NEW c \in {0, 1}, LeaderExits(c) PROVE NoOrphans'
    BY <1>1, <1>6, Members DEF LeaderExits, Gone
  <1>7. CASE MainGone
    BY <1>1, <1>7, Members DEF MainGone
  <1>8. CASE LeaderDies
    BY <1>1, <1>8, Members DEF LeaderDies
  <1> QED
    BY <1>2, <1>3, <1>4, <1>5, <1>6, <1>7, <1>8 DEF ProcStep, Write, Detach, ClosePipes

\* An exit code of 0 is given when everything is over.
LEMMA ProcZero ==
  ASSUME JobTypeOK, NoOrphans, ZeroMeansDead, ProcStep PROVE ZeroMeansDead'
  <1>1. state \in [Proc -> {"none", "run", "kill", "zap", "dead"}]
        /\ code \in [{"leader", "main"} -> {0, 1}] /\ op' = op
    BY Acting DEF harnessVars, JobTypeOK
  <1>2. ~(state["leader"] = "dead" /\ code["leader"] = 0)
    BY Acting DEF ZeroMeansDead
  <1>3. ASSUME NEW c \in {0, 1}, LeaderExits(c) PROVE ZeroMeansDead'
    <2>1. state' = [state EXCEPT !["leader"] = "dead"] /\ code' = [code EXCEPT !["leader"] = c]
          /\ IF op = "vetted" THEN \A k \in Kid : state[k] \in {"none", "dead"}
                              ELSE state["main"] = "dead"
      BY <1>3 DEF LeaderExits, Gone
    <2>2. \A p \in Proc : p = "leader" \/ state[p] \in {"none", "dead"}
      BY <2>1 DEF NoOrphans, Proc
    <2> QED  BY <1>1, <2>1, <2>2 DEF ZeroMeansDead, AllDead
  <1>4. CASE LeaderDies
    BY <1>1, <1>4 DEF LeaderDies, ZeroMeansDead
  <1>5. ASSUME ~LeaderDies, \A c \in {0, 1} : ~LeaderExits(c) PROVE ZeroMeansDead'
    <2>1. state'["leader"] = state["leader"] \/ state'["leader"] # "dead"
      <3>1. ASSUME NEW c \in {0, 1}, MainExits(c) PROVE state'["leader"] = state["leader"]
        BY <3>1, Members DEF MainExits, Zapped
      <3>2. ASSUME NEW k \in Kid, KidExits(k) PROVE state'["leader"] = state["leader"]
        BY <1>1, <3>2, Members DEF KidExits, Gone
      <3>3. ASSUME NEW p \in Proc, NEW k \in Kid, Fork(p, k) PROVE state'["leader"] = state["leader"]
        BY <1>1, <3>3, Members DEF Fork
      <3>4. CASE MainGone
        BY <1>1, <3>4, Members DEF MainGone
      <3> QED
        BY <1>5, <3>1, <3>2, <3>3, <3>4 DEF ProcStep, Write, Detach, ClosePipes
    <2>2. code'["leader"] = code["leader"]
      BY <1>1, <1>5 DEF ProcStep, Write, Fork, Detach, ClosePipes, KidExits, MainExits, MainGone
    <2> QED  BY <1>2, <2>1, <2>2 DEF ZeroMeansDead
  <1> QED  BY <1>3, <1>4, <1>5

\* The processes keep JobInv.
LEMMA ProcInv == ASSUME JobInv, Job \/ Kernel PROVE JobInv'
  <1> USE DEF JobInv
  <1>1. ProcStep /\ ~AllDead /\ UNCHANGED <<phase, unpacked, op, late, rc, todo, fd, got, status>>
    BY ProcSteps, Acting DEF harnessVars, collectVars
  <1>2. JobTypeOK'
    BY <1>1, ProcType DEF JobTypeOK
  <1>3. NoOrphans' /\ ZeroMeansDead'
    BY <1>1, ProcOrphans, ProcZero
  <1>4. phase \notin NotSpawned
    BY <1>1 DEF NotYet, AllDead
  <1>5. ~(phase \in {"list", "collect", "shape"} /\ rc = 0) /\ status # "ok"
    BY <1>1 DEF ResultIsZero, ZeroMeansDead, OkMeansComplete
  <1>6. NotYet' /\ ResultIsZero' /\ KilledRc' /\ CopiesAgree'
    BY <1>1, <1>4, <1>5 DEF NotYet, ResultIsZero, KilledRc, CopiesAgree
  <1>7. NothingYet' /\ OpenIsOwn' /\ AllCopied' /\ Unreported'
    BY <1>1 DEF NothingYet, OpenIsOwn, AllCopied, Unreported, Closed, Bare
  <1>8. OwnBytesOnly' /\ OkMeansComplete'
    BY <1>1, <1>5 DEF OwnBytesOnly, OkMeansComplete, Bare
  <1> QED  BY <1>2, <1>3, <1>6, <1>7, <1>8

-----------------------------------------------------------------------------
(* The harness.                                                            *)

\* Steps before there is anything of the job, and refusals.
LEMMA EarlyStep ==
  ASSUME JobInv, phase \in NotSpawned,
         phase' \in NotSpawned \cup {"done"}, UNCHANGED <<state, code, group, pipe, out, late, rc, collectVars>>,
         op' \in {"script", "privileged", "vetted"},
         IF phase' = "done" THEN status' \in {"refused", "fault"} ELSE status' = status
  PROVE  JobInv'
  <1> USE DEF JobInv
  <1>1. UNCHANGED <<state, code, group, pipe, out, late, rc, todo, fd, got>>
    BY DEF collectVars
  <1>2. /\ \A p \in Proc : state[p] = "none"
        /\ state = [p \in Proc |-> "none"] /\ code = [p \in {"leader", "main"} |-> 0]
    BY DEF NotYet
  <1>3. JobTypeOK'
    BY <1>1 DEF JobTypeOK, NotSpawned
  <1>4. NotYet' /\ NoOrphans' /\ ZeroMeansDead'
    BY <1>1, <1>2, Members DEF NotYet, NoOrphans, ZeroMeansDead
  <1>5. got = Bare /\ fd = Closed /\ todo = {} /\ status = "none"
    BY DEF NothingYet, Unreported, NotSpawned
  <1>6. ResultIsZero' /\ KilledRc' /\ NothingYet' /\ OpenIsOwn' /\ CopiesAgree' /\ AllCopied' /\ Unreported'
    BY <1>1, <1>5 DEF ResultIsZero, KilledRc, NothingYet, OpenIsOwn, CopiesAgree, AllCopied, Unreported,
                      NotSpawned, Closed, Bare
  <1>7. OwnBytesOnly' /\ OkMeansComplete'
    BY <1>1, <1>5 DEF OwnBytesOnly, OkMeansComplete, Bare, NotSpawned
  <1> QED  BY <1>3, <1>4, <1>6, <1>7

\* The harness before the job is started.
LEMMA BeforeStep ==
  ASSUME JobInv,
         \/ Before \/ Dispatch \/ DispatchRefused \/ Audit \/ AuditFails \/ SpawnFails
  PROVE  JobInv'
  <1>1. op \in {"script", "privileged", "vetted"}
    BY DEF JobInv, JobTypeOK
  <1>2. CASE Unpack
    BY <1>1, <1>2, EarlyStep DEF Unpack, Step, procVars, NotSpawned
  <1>3. CASE BadTar \/ GoodTar
    BY <1>1, <1>3, EarlyStep DEF BadTar, GoodTar, Refuse, Step, procVars, NotSpawned
  <1>4. CASE Dispatch
    BY <1>1, <1>4, EarlyStep DEF Dispatch, NotSpawned
  <1>5. CASE DispatchRefused \/ Audit \/ AuditFails \/ SpawnFails
    BY <1>1, <1>5, EarlyStep DEF DispatchRefused, Audit, AuditFails, SpawnFails, Refuse, Step,
                                 procVars, NotSpawned
  <1> QED  BY <1>2, <1>3, <1>4, <1>5 DEF Before

\* Starting, waiting and killing.
LEMMA ExecStep ==
  ASSUME JobInv, Spawn \/ Timer \/ Return \/ Expired \/ KillGroup \/ Reaped
  PROVE  JobInv'
  <1> USE DEF JobInv
  <1>1. /\ phase \in {"spawn", "wait", "killing", "drain"}
        /\ phase' \in {"wait", "killing", "drain", "list"}
        /\ UNCHANGED <<unpacked, op, code, out, todo, fd, got, status>>
    BY DEF Spawn, Timer, Return, Expired, KillGroup, Reaped, Step, procVars, collectVars
  <1>2. got = Bare /\ fd = Closed /\ todo = {} /\ status = "none"
    BY <1>1 DEF NothingYet, Unreported
  <1>3. /\ state' \in [Proc -> {"none", "run", "kill", "zap", "dead"}]
        /\ group' \subseteq Proc /\ pipe' \subseteq Proc
        /\ late' \in BOOLEAN /\ rc' \in {0, 1, 124}
    <2>1. CASE Spawn
      BY <2>1, Members DEF Spawn, First, JobTypeOK
    <2>2. CASE KillGroup
      <3>1. state' \in [Proc -> {"none", "run", "kill", "zap", "dead"}]
        BY <2>2 DEF KillGroup, JobTypeOK
      <3> QED  BY <2>2, <3>1 DEF KillGroup, JobTypeOK
    <2>3. CASE Timer \/ Return \/ Expired \/ Reaped
      BY <2>3 DEF Timer, Return, Expired, Reaped, JobTypeOK, procVars
    <2> QED  BY <2>1, <2>2, <2>3
  <1>4. JobTypeOK'
    BY <1>1, <1>3 DEF JobTypeOK
  <1>5. NoOrphans' /\ ZeroMeansDead'
    <2>1. CASE Spawn
      BY <1>1, <2>1, Members DEF Spawn, First, NoOrphans, ZeroMeansDead
    <2>2. CASE KillGroup
      <3>1. \A p \in Proc : state'[p] = state[p] \/ (state[p] = "run" /\ state'[p] = "kill")
        BY <2>2 DEF KillGroup
      <3> QED  BY <1>1, <3>1, Members DEF NoOrphans, ZeroMeansDead, AllDead
    <2>3. CASE Timer \/ Return \/ Expired \/ Reaped
      <3>1. state' = state
        BY <2>3 DEF Timer, Return, Expired, Reaped, procVars
      <3> QED  BY <1>1, <3>1 DEF NoOrphans, ZeroMeansDead, AllDead
    <2> QED  BY <2>1, <2>2, <2>3
  <1>6. ResultIsZero' /\ KilledRc'
    <2>1. CASE Return
      BY <1>1, <2>1 DEF Return, Step, Communicated, ResultIsZero, KilledRc, procVars
    <2>2. CASE Reaped
      BY <1>1, <2>2 DEF Reaped, Step, ResultIsZero, KilledRc, collectVars
    <2>3. CASE Spawn \/ Timer \/ Expired \/ KillGroup
      BY <1>1, <2>3 DEF Spawn, Timer, Expired, KillGroup, Step, ResultIsZero, KilledRc
    <2> QED  BY <2>1, <2>2, <2>3
  <1>7. NotYet' /\ NothingYet' /\ OpenIsOwn' /\ CopiesAgree' /\ AllCopied' /\ Unreported'
    BY <1>1, <1>2 DEF NotYet, NotSpawned, NothingYet, OpenIsOwn, CopiesAgree, AllCopied,
                      Unreported, Closed, Bare
  <1>8. OwnBytesOnly' /\ OkMeansComplete'
    BY <1>1, <1>2 DEF OwnBytesOnly, OkMeansComplete, Bare
  <1> QED  BY <1>4, <1>5, <1>6, <1>7, <1>8

\* Collecting.
LEMMA CollectStep ==
  ASSUME JobInv,
         \/ List \/ Collected \/ CopyEntry \/ CopyStops \/ ShapeRefused \/ Shape
         \/ \E n \in Name : OpenEntry(n) \/ EntryRefused(n) \/ EntryGone(n)
  PROVE  JobInv'
  <1> USE DEF JobInv
  <1>1. /\ phase \in {"list", "collect", "shape"} /\ phase' \in {"collect", "shape", "done"}
        /\ UNCHANGED <<unpacked, op, state, code, group, pipe, out, late, rc>>
    BY DEF List, Collected, CopyEntry, CopyStops, ShapeRefused, Shape, OpenEntry,
           EntryRefused, EntryGone, Abandon, Step, procVars, collectVars
  <1>2. NotYet' /\ NoOrphans' /\ ZeroMeansDead' /\ ResultIsZero' /\ KilledRc' /\ NothingYet'
    BY <1>1 DEF NotYet, NotSpawned, NoOrphans, ZeroMeansDead, AllDead, ResultIsZero, KilledRc, NothingYet
  <1>3. status = "none"
    BY <1>1 DEF Unreported
  \* What is left to show.
  <1>4. ASSUME todo' \subseteq Name, got' \in [Name -> Content], OwnBytesOnly', OpenIsOwn',
               fd' \in [name : Name \cup {"none"}, was : Content],
               CopiesAgree', AllCopied', OkMeansComplete',
               phase' # "done" => status' = status,
               status' \in {"none", "ok", "error", "aborted", "refused", "fault"}
        PROVE  JobInv'
    <2>1. JobTypeOK'
      BY <1>1, <1>4 DEF JobTypeOK
    <2> QED  BY <1>2, <1>3, <1>4, <2>1 DEF Unreported
  <1>5. Bare \in [Name -> Content] /\ Closed \in [name : Name \cup {"none"}, was : Content]
    BY DEF Bare, Closed, Content
  <1>6. CASE \E as \in {"aborted", "error"} : Abandon(as)
    <2>1. phase' = "done" /\ status' \in {"aborted", "error"} /\ got' = Bare /\ todo' = {} /\ fd' = Closed
      BY <1>6 DEF Abandon
    <2>2. OwnBytesOnly' /\ OpenIsOwn' /\ CopiesAgree' /\ AllCopied'
      BY <2>1 DEF OwnBytesOnly, OpenIsOwn, CopiesAgree, AllCopied, Bare, Closed
    <2>3. OkMeansComplete'
      BY <2>1 DEF OkMeansComplete, Bare
    <2> QED  BY <1>4, <1>5, <2>1, <2>2, <2>3
  <1>7. CASE CopyStops \/ ShapeRefused \/ \E n \in Name : EntryRefused(n) \/ EntryGone(n)
    BY <1>6, <1>7 DEF CopyStops, ShapeRefused, EntryRefused, EntryGone
  <1>8. CASE List
    <2>1. phase = "list" /\ phase' = "collect" /\ todo' = {n \in Name : out[n] # "none"}
          /\ UNCHANGED <<fd, got, status>> /\ got = Bare /\ fd = Closed
      BY <1>8 DEF List, Step, NothingYet
    <2>2. OwnBytesOnly' /\ OpenIsOwn' /\ CopiesAgree' /\ AllCopied' /\ OkMeansComplete'
      BY <1>1, <1>3, <2>1 DEF OwnBytesOnly, OpenIsOwn, CopiesAgree, AllCopied, OkMeansComplete, Bare, Closed
    <2> QED  BY <1>3, <1>4, <1>5, <2>1, <2>2
  <1>9. ASSUME NEW n \in Name, OpenEntry(n) PROVE JobInv'
    <2>1. /\ phase = "collect" /\ phase' = phase /\ fd = Closed /\ out[n] = "own"
          /\ fd' = [name |-> n, was |-> out[n]] /\ todo' = todo \ {n} /\ UNCHANGED <<got, status>>
      BY <1>9 DEF OpenEntry
    <2>2. fd' \in [name : Name \cup {"none"}, was : Content] /\ OpenIsOwn' /\ fd'.name = n /\ fd'.was = "own"
      BY <2>1 DEF Content, OpenIsOwn
    <2>3. ASSUME rc = 0 PROVE CopiesAgree'
      <3>1. \A m \in Name : m \notin todo => got[m] = out[m]
        BY <2>1, <2>3 DEF CopiesAgree
      <3>2. out'[fd'.name] = fd'.was
        BY <1>1, <2>1, <2>2
      <3>3. \A m \in Name : m \notin todo' /\ m # n => got'[m] = out'[m]
        BY <1>1, <2>1, <3>1
      <3>4. fd' # Closed
        BY <2>2 DEF Closed
      <3> QED  BY <2>2, <3>2, <3>3, <3>4 DEF CopiesAgree
    <2>4. OwnBytesOnly' /\ AllCopied' /\ OkMeansComplete'
      BY <1>3, <2>1 DEF OwnBytesOnly, AllCopied, OkMeansComplete
    <2>5. CopiesAgree'
      BY <1>1, <2>3 DEF CopiesAgree
    <2> QED  BY <1>3, <1>4, <2>1, <2>2, <2>4, <2>5 DEF JobTypeOK
  <1>10. CASE CopyEntry
    <2>1. /\ phase = "collect" /\ phase' = phase /\ fd # Closed
          /\ got' = [got EXCEPT ![fd.name] = fd.was] /\ fd' = Closed /\ UNCHANGED <<todo, status>>
          /\ fd.name \in Name /\ fd.was = "own" /\ got \in [Name -> Content]
      BY <1>10 DEF CopyEntry, Source, OpenIsOwn, JobTypeOK
    <2>2. got' \in [Name -> Content] /\ OwnBytesOnly' /\ OpenIsOwn' /\ AllCopied' /\ OkMeansComplete'
      BY <1>3, <2>1 DEF Content, OwnBytesOnly, OpenIsOwn, AllCopied, OkMeansComplete
    <2>3. CopiesAgree'
      BY <1>1, <2>1 DEF CopiesAgree
    <2> QED  BY <1>3, <1>4, <1>5, <2>1, <2>2, <2>3 DEF JobTypeOK
  <1>11. CASE Collected
    <2>1. phase = "collect" /\ phase' = "shape" /\ todo = {} /\ fd = Closed
          /\ UNCHANGED <<todo, fd, got, status>>
      BY <1>11 DEF Collected, Step, collectVars
    <2>2. OwnBytesOnly' /\ OpenIsOwn' /\ AllCopied' /\ OkMeansComplete' /\ CopiesAgree'
      BY <1>1, <1>3, <2>1 DEF OwnBytesOnly, OpenIsOwn, AllCopied, OkMeansComplete, CopiesAgree, Closed
    <2> QED  BY <1>3, <1>4, <2>1, <2>2 DEF JobTypeOK
  <1>12. CASE Shape
    <2>1. /\ phase = "shape" /\ phase' = "done" /\ UNCHANGED <<todo, fd, got>>
          /\ \A n \in Name \ Flat : got[n] = "none"
          /\ status' = IF rc = 0 THEN "ok" ELSE "error"
      BY <1>12 DEF Shape, Step, collectVars
    <2>2. OwnBytesOnly' /\ OpenIsOwn' /\ AllCopied' /\ CopiesAgree'
      BY <1>1, <2>1 DEF OwnBytesOnly, OpenIsOwn, AllCopied, CopiesAgree, Closed
    <2>3. ASSUME rc = 0 PROVE code["leader"] = 0 /\ AllDead /\ got = out
      <3>1. \A n \in Name : got[n] = out[n]
        BY <2>1, <2>3 DEF CopiesAgree, AllCopied
      <3> QED  BY <2>1, <2>3, <3>1 DEF ResultIsZero, ZeroMeansDead, JobTypeOK
    <2>4. OkMeansComplete'
      BY <1>1, <2>1, <2>3 DEF OkMeansComplete, AllDead
    <2> QED  BY <1>4, <2>1, <2>2, <2>4 DEF JobTypeOK
  <1> QED  BY <1>7, <1>8, <1>9, <1>10, <1>11, <1>12

\* Every step keeps JobInv.
LEMMA JobInvStep == JobInv /\ [JobNext \/ Over]_jobVars => JobInv'
  <1> SUFFICES ASSUME JobInv, [JobNext \/ Over]_jobVars PROVE JobInv'
    OBVIOUS
  <1>1. CASE Harness
    BY <1>1, BeforeStep, ExecStep, CollectStep DEF Harness
  <1>2. CASE UNCHANGED jobVars
    BY <1>2 DEF jobVars, procVars, collectVars, JobInv, JobTypeOK, NotYet, NoOrphans,
                ZeroMeansDead, AllDead, ResultIsZero, KilledRc, NothingYet, OpenIsOwn, CopiesAgree,
                AllCopied, Unreported, OwnBytesOnly, OkMeansComplete, Bare, Closed
  <1> QED  BY <1>1, <1>2, OverStep, ProcInv, BeforeStep, ExecStep DEF JobNext

\* The inductive invariant of a job.
THEOREM JobInvariant == JobSpec => []JobInv
  BY JobInvInit, JobInvStep, PTL DEF JobSpec, JobEnds

\* Type correctness of a job (dispatch.py, collect.py).
THEOREM JobTypeCorrect == JobSpec => []JobTypeOK
  BY JobInvariant, PTL DEF JobInv

\* A job reported ok is over, and what is committed is what it left
\* (_exec, collect, _collect_outputs).
THEOREM OkMeansCompleteHolds == JobSpec => []OkMeansComplete
  BY JobInvariant, PTL DEF JobInv

\* Only files of the job are collected, whatever still runs
\* (_open_source_nofollow).
THEOREM OwnBytesOnlyHolds == JobSpec => []OwnBytesOnly
  BY JobInvariant, PTL DEF JobInv

\* What has been unpacked, as long as it is looked at, is what extract makes of
\* one of the archives.
UnpackedInv ==
    phase = "unpacked" =>
        unpacked.tar \in Tars /\ unpacked.result = Extracted(unpacked.tar)

LEMMA UnpackedStep == UnpackedInv /\ [JobNext \/ Over]_jobVars => UnpackedInv'
  <1> SUFFICES ASSUME UnpackedInv, [JobNext \/ Over]_jobVars PROVE UnpackedInv'
    OBVIOUS
  <1>1. CASE Unpack
    BY <1>1 DEF Unpack, UnpackedInv
  <1>2. CASE BadTar \/ GoodTar \/ Over
    BY <1>2 DEF BadTar, GoodTar, Step, Refuse, Over, UnpackedInv
  <1>3. CASE Harness
    BY <1>3 DEF Harness, Dispatch, DispatchRefused, Audit, AuditFails, Spawn, SpawnFails, Return,
                Expired, KillGroup, Reaped, List, Collected, CopyEntry, CopyStops, ShapeRefused,
                Shape, OpenEntry, EntryRefused, EntryGone, Abandon, Refuse, Step, UnpackedInv
  <1>4. CASE Job \/ Kernel \/ Timer \/ UNCHANGED jobVars
    BY <1>4 DEF Job, Kernel, Write, Fork, Detach, ClosePipes, KidExits, MainExits, MainGone,
                LeaderExits, LeaderDies, Timer, jobVars, harnessVars, UnpackedInv
  <1> QED  BY <1>1, <1>2, <1>3, <1>4 DEF JobNext, Before

\* An archive of UnpackedInv is unpacked to what it stands for.
LEMMA UnpackedExactly == UnpackedInv => PayloadExact
  BY TarsAssumption, ExtractedExactly DEF UnpackedInv, PayloadExact

\* An archive is unpacked exactly or refused for its first offence
\* (_extract_into), before its manifest is looked at.
THEOREM PayloadExactHolds == JobSpec => []PayloadExact
  <1>1. JobInit => UnpackedInv
    BY DEF JobInit, UnpackedInv
  <1> QED  BY <1>1, UnpackedStep, UnpackedExactly, PTL DEF JobSpec, JobEnds

-----------------------------------------------------------------------------
(* Visits.                                                                 *)

\* A step of a visit is one of the gate, or leaves it as it is.
LEMMA VisitGateStep == [Next]_vars => [GateNext \/ Leave]_gateVars
  BY DEF Next, vars, Prepared, Asked, AtGate, Handled, Busy, Reaping, Timing, Left, GateNext

\* The same of the job.
LEMMA VisitJobStep == [Next]_vars => [JobNext \/ Over]_jobVars
  BY DEF Next, vars, Prepared, Asked, AtGate, Handled, Busy, Reaping, Timing, Left, JobNext,
         JobEnds

\* The visits implement the specification of the gate and the kit: the pipeline
\* around await_press and recovery.write takes no step of theirs but their own.
THEOREM VisitImplementsGate == Spec => GateSpec
  BY VisitGateStep, PTL DEF Spec, Init, GateSpec

\* The inductive invariant of whole visits.
THEOREM VisitInvariant == Spec => [](GateInv /\ KitInv /\ JobInv /\ UnpackedInv)
  <1>1. Init => GateInv /\ KitInv /\ JobInv /\ UnpackedInv
    BY GateInvInit, KitInvInit, JobInvInit DEF Init, JobInit, UnpackedInv
  <1>2. GateInv /\ KitInv /\ JobInv /\ UnpackedInv /\ [Next]_vars
          => (GateInv /\ KitInv /\ JobInv /\ UnpackedInv)'
    BY VisitGateStep, VisitJobStep, GateInvStep, KitInvStep, JobInvStep, UnpackedStep
  <1> QED  BY <1>1, <1>2, PTL DEF Spec

\* From the archive to the status: an archive is unpacked to what it stands for,
\* a confirmation is a live gesture, the kit is what was confirmed, a result
\* reported ok is whole, and no foreign bytes are in it (_process_mounted).
THEOREM VisitSafe ==
  Spec => [](/\ PayloadExact /\ LiveGesture /\ KitIsConfirmed
             /\ OkMeansComplete /\ OwnBytesOnly)
  <1>1. GateInv /\ KitInv /\ JobInv /\ UnpackedInv
          => /\ PayloadExact /\ LiveGesture /\ KitIsConfirmed
             /\ OkMeansComplete /\ OwnBytesOnly
    BY UnpackedExactly DEF GateInv, KitInv, JobInv
  <1> QED  BY <1>1, VisitInvariant, PTL
==============================================================================
