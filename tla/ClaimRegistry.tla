--------------------------- MODULE ClaimRegistry ---------------------------
(***************************************************************************)
(* The claim / lock / transfer registry of pallets/tight (src/pallets/     *)
(* tight/src/lib.rs), the proof-of-existence pallet extended with a        *)
(* bearer-secret transfer.  Its three storage maps are the variables:      *)
(*                                                                         *)
(*   Proofs       proof key  -> (owner, block number)      line 64         *)
(*   P2shaddress  address    -> (owner, block number)      line 67         *)
(*   Prooflocks   proof key  -> (holder, secret)           line 70         *)
(*                                                                         *)
(* All three are ValueQuery maps: a key is present or absent               *)
(* (contains_key), and `get` of an absent key yields the default value,    *)
(* whose secret is the empty byte vector.  An absent entry is NoRecord.    *)
(*                                                                         *)
(* The host executes one extrinsic at a time to completion, so every       *)
(* dispatchable is one atomic action.  Every ensure! comes before the      *)
(* first write, so a failing call writes nothing; `result` is the          *)
(* DispatchResult of the last call.  The signer is ranged over Accounts:   *)
(* an unsigned origin fails in ensure_signed before any storage access.    *)
(* Events are not modelled (they are not read back by the pallet).         *)
(* `extrinsic` records the call being dispatched (name, signer, key and    *)
(* the secret it carries); only the refinement mapping reads it.           *)
(***************************************************************************)
EXTENDS Naturals

CONSTANTS
    Accounts,     \* signers (T::AccountId)
    ProofKeys,    \* proof byte strings used as keys of Proofs / Prooflocks
    Addresses,    \* P2SH address byte strings, keys of P2shaddress
    Secrets,      \* lock byte strings a caller may send
    EmptySecret,  \* vec![]: the secret of the default Prooflocks value
    NoRecord,     \* an absent storage entry
    MaxBlock      \* bound on frame_system::block_number in a run

ASSUME SecretsAssumption == EmptySecret \in Secrets
ASSUME NoRecordAssumption == NoRecord \notin Accounts \cup [owner : Accounts, block : Nat]
                                               \cup [holder : Accounts, secret : Secrets]
ASSUME MaxBlockAssumption == MaxBlock \in Nat \ {0}

VARIABLES
    Proofs,       \* ProofKeys -> ClaimRec \cup {NoRecord}
    Prooflocks,   \* ProofKeys -> LockRec  \cup {NoRecord}
    P2shaddress,  \* Addresses -> ClaimRec \cup {NoRecord}
    blockNumber,  \* frame_system::Pallet::block_number()
    result,       \* DispatchResult of the last extrinsic
    everOwned,    \* history: every account that has owned each proof key
    extrinsic     \* the call dispatched last: name, signer, key, lock sent

vars == <<Proofs, Prooflocks, P2shaddress, blockNumber, result, everOwned, extrinsic>>

Blocks == 1..MaxBlock

\* (T::AccountId, T::BlockNumber), the value type of Proofs and P2shaddress
ClaimRec == [owner : Accounts, block : Blocks]

\* (T::AccountId, Vec<u8>), the value type of Prooflocks
LockRec == [holder : Accounts, secret : Secrets]

\* the variants of Error<T> (lines 44-57) and Ok(())
Results == {"Ok", "ProofAlreadyClaimed", "NoSuchProof", "NotProofOwner",
            "ProofAlreadyLocked", "ProofNotClaimed", "InvalidLock"}

\* the dispatchables of the registry with their arguments; create_claim,
\* revoke_claim and create_pshaddress carry no lock (EmptySecret stands in)
ExtrinsicRec == [call : {"create_claim", "update_claim", "lock_claim",
                         "create_pshaddress", "revoke_claim"},
                 sender : Accounts, key : ProofKeys \cup Addresses, lock : Secrets]

Claimed(p) == Proofs[p] # NoRecord
Locked(p) == Prooflocks[p] # NoRecord

\* `let (_, lock) = Prooflocks::<T>::get(&proof)`: ValueQuery yields the
\* default (account, vec![]) for a proof that was never locked.
StoredLock(p) == IF Locked(p) THEN Prooflocks[p].secret ELSE EmptySecret

\* a call that fails its ensure! writes nothing
Fail(err) ==
    /\ result' = err
    /\ UNCHANGED <<Proofs, Prooflocks, P2shaddress, blockNumber, everOwned>>

\* mutant of InsertProof: stores the block after the given one
InsertProofNextBlock(p, who, blk) ==
    /\ Proofs' = [Proofs EXCEPT ![p] = [owner |-> who, block |-> blk + 1]]
    /\ everOwned' = [everOwned EXCEPT ![p] = @ \cup {who}]

\* Proofs::<T>::insert(&proof, (&sender, block)) and its history
InsertProof(p, who, blk) ==
    /\ Proofs' = [Proofs EXCEPT ![p] = [owner |-> who, block |-> blk]]
    /\ everOwned' = [everOwned EXCEPT ![p] = @ \cup {who}]

-----------------------------------------------------------------------------
Init ==
    /\ Proofs = [p \in ProofKeys |-> NoRecord]
    /\ Prooflocks = [p \in ProofKeys |-> NoRecord]
    /\ P2shaddress = [a \in Addresses |-> NoRecord]
    /\ blockNumber = 1
    /\ result = "Ok"
    /\ everOwned = [p \in ProofKeys |-> {}]
    /\ extrinsic = NoRecord

\* create_claim: fails if the proof is claimed, else records the signer.
create_claim(sender, proof) ==
    \/ /\ Claimed(proof)
       /\ Fail("ProofAlreadyClaimed")
    \/ /\ ~Claimed(proof)
       /\ InsertProof(proof, sender, blockNumber)
       /\ result' = "Ok"
       /\ UNCHANGED <<Prooflocks, P2shaddress, blockNumber>>

\* mutant of TransferProof: the new owner's record takes the current block
TransferProofFreshBlock(sender, proof) == InsertProof(proof, sender, blockNumber)

\* The claim changes hands and keeps the block it was created in.
TransferProof(sender, proof) == InsertProof(proof, sender, Proofs[proof].block)

\* mutant of TransferLock: the transfer removes the lock (the commented-out
\* Prooflocks::<T>::remove above the insert)
TransferLockRemoved(sender, proof) ==
    Prooflocks' = [Prooflocks EXCEPT ![proof] = NoRecord]

\* The lock is rewritten to the new holder with the same secret.
TransferLock(sender, proof) ==
    Prooflocks' = [Prooflocks EXCEPT ![proof] =
                      [holder |-> sender, secret |-> StoredLock(proof)]]

\* update_claim: on a claimed proof the sent lock must equal the stored
\* (or default) secret; a non-owner then takes the claim, keeping its block,
\* and the lock is rewritten to the new holder with the same secret.  On an
\* unclaimed proof it creates the claim and ignores the sent lock.
update_claim(sender, proof, sentlock) ==
    \/ /\ Claimed(proof)
       /\ sentlock # StoredLock(proof)
       /\ Fail("InvalidLock")
    \/ /\ Claimed(proof)
       /\ sentlock = StoredLock(proof)
       /\ sender # Proofs[proof].owner
       /\ TransferProof(sender, proof)
       /\ TransferLock(sender, proof)
       /\ result' = "Ok"
       /\ UNCHANGED <<P2shaddress, blockNumber>>
    \/ /\ Claimed(proof)
       /\ sentlock = StoredLock(proof)
       /\ sender = Proofs[proof].owner
       /\ result' = "Ok"
       /\ UNCHANGED <<Proofs, Prooflocks, P2shaddress, blockNumber, everOwned>>
    \/ /\ ~Claimed(proof)
       /\ InsertProof(proof, sender, blockNumber)
       /\ result' = "Ok"
       /\ UNCHANGED <<Prooflocks, P2shaddress, blockNumber>>

\* Prooflocks::<T>::insert(&proof, (&sender, &lock))
SetLock(sender, proof, lock) ==
    /\ Prooflocks' = [Prooflocks EXCEPT ![proof] = [holder |-> sender, secret |-> lock]]
    /\ result' = "Ok"
    /\ UNCHANGED <<Proofs, P2shaddress, blockNumber, everOwned>>

\* mutant of lock_claim: the NotProofOwner check is dropped
LockClaimAnySigner(sender, proof, lock) ==
    \/ Locked(proof) /\ Fail("ProofAlreadyLocked")
    \/ ~Locked(proof) /\ ~Claimed(proof) /\ Fail("ProofNotClaimed")
    \/ ~Locked(proof) /\ Claimed(proof) /\ SetLock(sender, proof, lock)

\* mutant of lock_claim: the ProofAlreadyLocked check is dropped
LockClaimRelock(sender, proof, lock) ==
    \/ ~Claimed(proof) /\ Fail("ProofNotClaimed")
    \/ Claimed(proof) /\ sender # Proofs[proof].owner /\ Fail("NotProofOwner")
    \/ Claimed(proof) /\ sender = Proofs[proof].owner /\ SetLock(sender, proof, lock)

\* lock_claim: the checks in the code's order, then the lock is stored.
lock_claim(sender, proof, lock) ==
    \/ /\ Locked(proof)
       /\ Fail("ProofAlreadyLocked")
    \/ /\ ~Locked(proof)
       /\ ~Claimed(proof)
       /\ Fail("ProofNotClaimed")
    \/ /\ ~Locked(proof)
       /\ Claimed(proof)
       /\ sender # Proofs[proof].owner
       /\ Fail("NotProofOwner")
    \/ /\ ~Locked(proof)
       /\ Claimed(proof)
       /\ sender = Proofs[proof].owner
       /\ SetLock(sender, proof, lock)

\* create_pshaddress: a one-shot insert into P2shaddress.
create_pshaddress(sender, pshaddress) ==
    \/ /\ P2shaddress[pshaddress] # NoRecord
       /\ Fail("ProofAlreadyClaimed")
    \/ /\ P2shaddress[pshaddress] = NoRecord
       /\ P2shaddress' = [P2shaddress EXCEPT ![pshaddress] =
                             [owner |-> sender, block |-> blockNumber]]
       /\ result' = "Ok"
       /\ UNCHANGED <<Proofs, Prooflocks, blockNumber, everOwned>>

\* mutant of revoke_claim: the NotProofOwner check is dropped
RevokeClaimAnySigner(sender, proof) ==
    \/ ~Claimed(proof) /\ Fail("NoSuchProof")
    \/ /\ Claimed(proof)
       /\ Proofs' = [Proofs EXCEPT ![proof] = NoRecord]
       /\ result' = "Ok"
       /\ UNCHANGED <<Prooflocks, P2shaddress, blockNumber, everOwned>>

\* revoke_claim: the owner removes the claim; Prooflocks is left as it is.
revoke_claim(sender, proof) ==
    \/ /\ ~Claimed(proof)
       /\ Fail("NoSuchProof")
    \/ /\ Claimed(proof)
       /\ sender # Proofs[proof].owner
       /\ Fail("NotProofOwner")
    \/ /\ Claimed(proof)
       /\ sender = Proofs[proof].owner
       /\ Proofs' = [Proofs EXCEPT ![proof] = NoRecord]
       /\ result' = "Ok"
       /\ UNCHANGED <<Prooflocks, P2shaddress, blockNumber, everOwned>>

\* The host finalises a block: later extrinsics see a higher block number.
NewBlock ==
    /\ blockNumber < MaxBlock
    /\ blockNumber' = blockNumber + 1
    /\ UNCHANGED <<Proofs, Prooflocks, P2shaddress, result, everOwned>>

\* the signed extrinsic `call`(key, lock) from sender is being dispatched
Dispatched(call, sender, key, lock) ==
    extrinsic' = [call |-> call, sender |-> sender, key |-> key, lock |-> lock]

Next ==
    \/ \E s \in Accounts, p \in ProofKeys :
          \/ create_claim(s, p) /\ Dispatched("create_claim", s, p, EmptySecret)
          \/ revoke_claim(s, p) /\ Dispatched("revoke_claim", s, p, EmptySecret)
          \/ \E k \in Secrets :
                \/ update_claim(s, p, k) /\ Dispatched("update_claim", s, p, k)
                \/ lock_claim(s, p, k) /\ Dispatched("lock_claim", s, p, k)
    \/ \E s \in Accounts, a \in Addresses :
          create_pshaddress(s, a) /\ Dispatched("create_pshaddress", s, a, EmptySecret)
    \/ NewBlock /\ UNCHANGED extrinsic

Spec == Init /\ [][Next]_vars

-----------------------------------------------------------------------------
(* The refinement mapping to ProofOwnership: the owner of a key is the     *)
(* owner in Proofs, and its capability is what update_claim compares the  *)
(* sent lock with, the stored secret or the ValueQuery default.            *)

OwnerOf == [p \in ProofKeys |-> IF Claimed(p) THEN Proofs[p].owner ELSE NoRecord]
CapOf == [p \in ProofKeys |-> StoredLock(p)]

PO == INSTANCE ProofOwnership WITH owner <- OwnerOf, cap <- CapOf, Nobody <- NoRecord

-----------------------------------------------------------------------------
(* Properties *)

\* Every table holds records of its value type or NoRecord.
TypeOK ==
    /\ Proofs \in [ProofKeys -> ClaimRec \cup {NoRecord}]
    /\ Prooflocks \in [ProofKeys -> LockRec \cup {NoRecord}]
    /\ P2shaddress \in [Addresses -> ClaimRec \cup {NoRecord}]
    /\ blockNumber \in Blocks
    /\ result \in Results
    /\ everOwned \in [ProofKeys -> SUBSET Accounts]
    /\ extrinsic \in ExtrinsicRec \cup {NoRecord}

\* Only owners set locks (lock_claim's owner check, update_claim's transfer):
\* whoever a lock record names as holder owned that proof at some time, even
\* after the claim was revoked and re-created by somebody else.
LockHolderWasOwner ==
    \A p \in ProofKeys : Locked(p) => Prooflocks[p].holder \in everOwned[p]

\* A lock is never removed and its secret never changes: neither a transfer
\* (update_claim), a revoke (revoke_claim) nor a second lock_claim can
\* rotate or drop the secret of a proof once it has been locked.
LockPermanent ==
    [][\A p \in ProofKeys :
          Locked(p) => Locked(p)' /\ Prooflocks'[p].secret = Prooflocks[p].secret]_vars

\* Whenever a claim changes hands (update_claim's transfer branch), the new
\* owner is recorded as lock holder and the secret in force before the
\* transfer still guards the proof afterwards: the secret is a bearer token.
TransferKeepsSecret ==
    [][\A p \in ProofKeys :
          (Claimed(p) /\ Claimed(p)' /\ Proofs'[p].owner # Proofs[p].owner)
             => /\ Locked(p)'
                /\ Prooflocks'[p].holder = Proofs'[p].owner
                /\ Prooflocks'[p].secret = StoredLock(p)]_vars

\* The block number stored with a claim records its creation: a transfer
\* (update_claim on a claimed proof) never rewrites it, in any later block.
CreatedAtPreserved ==
    [][\A p \in ProofKeys :
          (Claimed(p) /\ Claimed(p)') => Proofs'[p].block = Proofs[p].block]_vars

\* The registry implements the bearer-capability ownership map: every call
\* (create_claim, update_claim, lock_claim, revoke_claim) is a Claim, a
\* Release, an Arm or a Handover of ProofOwnership, or leaves owner and
\* capability alone.  In particular only the owner revokes or locks, a lock
\* is set only on a key without one, and a transfer needs the capability.
ImplementsProofOwnership == PO!Spec

\* The spec's state machine (spec.md section 4.1) allows a transfer only from
\* Claimed+Locked: the owner of a claim that was never locked keeps it until
\* they revoke it.  update_claim compares the sent lock with the ValueQuery
\* default of Prooflocks, so this is expected to fail.
UnlockedClaimNotTransferable ==
    [][\A p \in ProofKeys :
          (Claimed(p) /\ ~Locked(p) /\ Claimed(p)')
             => Proofs'[p].owner = Proofs[p].owner]_vars

\* A lock on a claimed proof is the lock its current owner set or took over
\* (spec.md section 3: the holder records who last set the lock, and only the
\* owner may lock).  revoke_claim leaves Prooflocks behind, so a re-created
\* claim inherits a stranger's lock; this is expected to fail.
LockHolderIsOwner ==
    \A p \in ProofKeys : (Claimed(p) /\ Locked(p)) => Prooflocks[p].holder = Proofs[p].owner

=============================================================================
