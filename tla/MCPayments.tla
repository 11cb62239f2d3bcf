----------------------------- MODULE MCPayments -----------------------------
(***************************************************************************)
(* Small instances of Payments for TLC.  s1 brought s2.                    *)
(***************************************************************************)
EXTENDS Payments, TLC

CONSTANTS s1, s2

MCStudents == {s1, s2}
MCReferrer == s1 :> NoRow @@ s2 :> s1

=============================================================================
