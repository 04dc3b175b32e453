----------------------------- MODULE MCCaUsbRun -----------------------------
(* Small instances of CaUsbRun for TLC. *)
EXTENDS CaUsbRun, TLC

CONSTANTS j1, s1, s2

Signed(j, n) == [signer |-> "operator", cosigned |-> FALSE, wellFormed |-> TRUE,
                 op |-> "vetted", job |-> j, seq |-> n]

\* One stick with a job, its retry under a new seq as a privileged one without
\* co-signature, or a break-glass bundle out of scope; the other is blank.
MCBundle == {Signed(j1, 1), [Signed(j1, 2) EXCEPT !.op = "privileged"],
             [Signed(j1, 2) EXCEPT !.signer = "breakglass"]}
MCCarries == s1 :> MCBundle @@ s2 :> {NoBundle}
==============================================================================
