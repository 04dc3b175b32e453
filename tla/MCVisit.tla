------------------------------- MODULE MCVisit -------------------------------
EXTENDS Visit, TLC

CONSTANTS k1, back, hid, combo

\* The box's own keys, a keyboard that has a key of K1's code, and one device
\* that has both codes under K1's name.
MCNameOf == k1 :> "gpio-keys" @@ back :> "adc-keys" @@ hid :> "keyboard" @@ combo :> "gpio-keys"
MCCodesOf == k1 :> {257} @@ back :> {158} @@ hid :> {257} @@ combo :> {257, 158}
MCAttached == {{k1, back}, {k1, hid}, {hid}, {combo}}

MCOrder == <<"a", "b", "DONE">>

MCMember(n, s, r, b, d) == [name |-> n, size |-> s, reg |-> r, body |-> b, data |-> d]
MCIn(x) == <<"payload">> \o x
MCMembers ==
    { MCMember(Manifest, 1, TRUE, "whole", "v1"),
      MCMember(MCIn(<<"x">>), 1, TRUE, "whole", "v1"),
      MCMember(MCIn(<<"x">>), 2, TRUE, "whole", "v2"),
      MCMember(MCIn(<<"x", "y">>), 1, TRUE, "whole", "v1"),
      MCMember(MCIn(<<"x", "y", "z">>), 1, TRUE, "whole", "v1"),
      MCMember(MCIn(<<"..">>), 1, TRUE, "whole", "v1"), MCMember(MCIn(<<>>), 0, TRUE, "whole", "v1"),
      MCMember(<<"", "etc">>, 1, TRUE, "whole", "v1"), MCMember(MCIn(<<"n">>), 1, FALSE, "whole", "v1"),
      MCMember(MCIn(<<"n">>), -1, TRUE, "whole", "v1"), MCMember(MCIn(<<"n">>), 0, TRUE, "whole", "v1") }
MCUpTo(k) == UNION {[1..n -> MCMembers] : n \in 0..k}
MCCutOff == {MCMember(MCIn(<<"x">>), 1, TRUE, b, "v2") : b \in {"short", "missing"}}
\* Archives with their marker, with a broken header in its place, and cut off
\* in the data of the last member.
MCTars ==
    {[members |-> t, ends |-> "marker"] : t \in MCUpTo(3)}
    \cup {[members |-> t, ends |-> e] : t \in MCUpTo(2), e \in {"header", "extended"}}
    \cup {[members |-> Append(t, m), ends |-> "header"] : t \in MCUpTo(2), m \in MCCutOff}
==============================================================================
