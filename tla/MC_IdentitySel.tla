-------------------------- MODULE MC_IdentitySel --------------------------
(* A small instance of IdentitySel for TLC: three signers (symmetric), one *)
(* e-mail that fits MaxEmailsize and one that does not, two passwords, one *)
(* referral, and as services "moodle", the registration filler and one    *)
(* too long for a Data::Raw.                                               *)
EXTENDS IdentitySel, TLC

CONSTANTS a1, a2, a3, e1, eLong, w1, w2, r1, moodle, filler, sLong, nullBytes

MC_Accounts == {a1, a2, a3}
MC_Emails == {e1, eLong}
MC_LongEmails == {eLong}
MC_Passwords == {w1, w2}
MC_Referals == {r1}
MC_Services == {moodle, filler, sLong}
MC_LongServices == {sLong}

MC_Symmetry == Permutations(MC_Accounts)
=============================================================================
