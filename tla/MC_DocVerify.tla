--------------------------- MODULE MC_DocVerify ---------------------------
(* A small instance of DocVerify for TLC: two symmetric signers, a         *)
(* fitting and an oversized e-mail,                                        *)
(* two passwords, one referral, the services "moodle", the filler and an   *)
(* oversized one, one document hash and two blocks.                        *)
EXTENDS DocVerify, TLC

CONSTANTS a1, a2, e1, eLong, w1, w2, r1, moodle, filler, sLong, nullBytes, doc1

MC_Accounts == {a1, a2}
MC_Emails == {e1, eLong}
MC_LongEmails == {eLong}
MC_Passwords == {w1, w2}
MC_Referals == {r1}
MC_Services == {moodle, filler, sLong}
MC_LongServices == {sLong}
MC_Documents == {doc1}
MC_MaxBlock == 2

MC_Symmetry == Permutations(MC_Accounts)
=============================================================================
