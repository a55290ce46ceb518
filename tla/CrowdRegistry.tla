--------------------------- MODULE CrowdRegistry ---------------------------
(***************************************************************************)
(* The claim registry of pallets/crowd (src/pallets/crowd/src/lib.rs).     *)
(* Its storage (Proofs line 120, P2shaddress line 123, Prooflocks line     *)
(* 126) and its five calls are those of pallets/tight line for line; the   *)
(* only difference, tight's unused read of total_issuance in revoke_claim, *)
(* has no effect.  So each call is the ClaimRegistry action of the same    *)
(* name, taken by INSTANCE, and the next-state relation is rebuilt here    *)
(* from the crowd calls.  It holds the properties ClaimRegistry's runs and *)
(* proofs show, and is kept so that the crowd lines are mapped to it.      *)
(* NftClassId and NftTokenMetaData (lines 130, 133) are                    *)
(* written by no call (create_nft and mint_nft are commented out).         *)
(***************************************************************************)
CONSTANTS Accounts, ProofKeys, Addresses, Secrets, EmptySecret, NoRecord, MaxBlock

VARIABLES Proofs, Prooflocks, P2shaddress, blockNumber, result, everOwned, extrinsic

R == INSTANCE ClaimRegistry

vars == <<Proofs, Prooflocks, P2shaddress, blockNumber, result, everOwned, extrinsic>>

Init == R!Init

create_claim(sender, proof) == R!create_claim(sender, proof)

update_claim(sender, proof, sentlock) == R!update_claim(sender, proof, sentlock)

lock_claim(sender, proof, lock) == R!lock_claim(sender, proof, lock)

create_pshaddress(sender, pshaddress) == R!create_pshaddress(sender, pshaddress)

revoke_claim(sender, proof) == R!revoke_claim(sender, proof)

Next ==
    \/ \E s \in Accounts, p \in ProofKeys :
          \/ create_claim(s, p) /\ R!Dispatched("create_claim", s, p, EmptySecret)
          \/ revoke_claim(s, p) /\ R!Dispatched("revoke_claim", s, p, EmptySecret)
          \/ \E k \in Secrets :
                \/ update_claim(s, p, k) /\ R!Dispatched("update_claim", s, p, k)
                \/ lock_claim(s, p, k) /\ R!Dispatched("lock_claim", s, p, k)
    \/ \E s \in Accounts, a \in Addresses :
          create_pshaddress(s, a) /\ R!Dispatched("create_pshaddress", s, a, EmptySecret)
    \/ R!NewBlock /\ UNCHANGED extrinsic

Spec == Init /\ [][Next]_vars

=============================================================================
