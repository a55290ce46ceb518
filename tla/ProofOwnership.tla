--------------------------- MODULE ProofOwnership ---------------------------
(***************************************************************************)
(* What the claim registry promises, as an ownership map guarded by bearer *)
(* capabilities (spec.md sections 3, 4.1 and 8).  Each proof key has an    *)
(* owner (or Nobody) and a capability, the secret that hands the key over; *)
(* a key that was never armed carries the empty capability.  `extrinsic`   *)
(* is the call being dispatched: its name, signer, key and the secret it   *)
(* carries.                                                                *)
(*                                                                         *)
(*   Claim     a create or update call takes a key that has no owner       *)
(*   Release   the owner's revoke call gives the key up; the capability    *)
(*             stays                                                       *)
(*   Arm       the owner's lock call sets the capability of a key that has *)
(*             none yet                                                    *)
(*   Handover  an update call that carries the key's current capability    *)
(*             makes its signer the owner; the capability stays, so it is  *)
(*             a bearer token                                              *)
(*                                                                         *)
(* Any other call leaves ownership and capabilities alone.  ClaimRegistry  *)
(* implements this specification under the mapping given there.           *)
(***************************************************************************)
CONSTANTS Accounts, ProofKeys, EmptySecret, Nobody

VARIABLES owner, cap, extrinsic

vars == <<owner, cap, extrinsic>>

Init ==
    /\ owner = [p \in ProofKeys |-> Nobody]
    /\ cap = [p \in ProofKeys |-> EmptySecret]

\* the call being dispatched is `call` on key p, signed by a
Sent(call, a, p) ==
    /\ extrinsic'.call = call
    /\ extrinsic'.sender = a
    /\ extrinsic'.key = p

Claim(p, a) ==
    /\ owner[p] = Nobody
    /\ Sent("create_claim", a, p) \/ Sent("update_claim", a, p)
    /\ owner' = [owner EXCEPT ![p] = a]
    /\ UNCHANGED cap

Release(p, a) ==
    /\ owner[p] = a
    /\ Sent("revoke_claim", a, p)
    /\ owner' = [owner EXCEPT ![p] = Nobody]
    /\ UNCHANGED cap

Arm(p, a) ==
    /\ owner[p] = a
    /\ cap[p] = EmptySecret
    /\ Sent("lock_claim", a, p)
    /\ cap' = [cap EXCEPT ![p] = extrinsic'.lock]
    /\ UNCHANGED owner

Handover(p, a) ==
    /\ owner[p] \notin {Nobody, a}
    /\ Sent("update_claim", a, p)
    /\ extrinsic'.lock = cap[p]
    /\ owner' = [owner EXCEPT ![p] = a]
    /\ UNCHANGED cap

\* a call that changes no ownership and no capability
Other == UNCHANGED <<owner, cap>>

Next ==
    \/ Other
    \/ \E p \in ProofKeys, a \in Accounts :
          Claim(p, a) \/ Release(p, a) \/ Arm(p, a) \/ Handover(p, a)

Spec == Init /\ [][Next]_vars

=============================================================================
