------------------------ MODULE ClaimRegistryProofs ------------------------
(***************************************************************************)
(* Proofs about ClaimRegistry for every value of its constants: the type   *)
(* invariant, the invariant that only an (earlier) owner can be named as   *)
(* a lock's holder, and the three action properties of the passing run.   *)
(***************************************************************************)
EXTENDS ClaimRegistry, TLAPS

\* Strengthening used for LockHolderWasOwner: the current owner of a claim
\* is recorded in the ownership history of its proof key.
OwnerWasRecorded ==
    \A p \in ProofKeys : Claimed(p) => Proofs[p].owner \in everOwned[p]

IInv == TypeOK /\ OwnerWasRecorded /\ LockHolderWasOwner

\* a call on proof key p by signer s, whatever lock it carries
KeyCall(s, p) ==
    \/ create_claim(s, p)
    \/ revoke_claim(s, p)
    \/ \E k \in Secrets : update_claim(s, p, k) \/ lock_claim(s, p, k)

ExtrinsicOK == extrinsic \in ExtrinsicRec

\* The four kinds of step of Next, with the type of the recorded extrinsic;
\* the invariant proofs below split on these cases.
LEMMA NextCases ==
    ASSUME [Next]_vars
    PROVE  \/ (\E s \in Accounts, p \in ProofKeys : KeyCall(s, p)) /\ ExtrinsicOK'
           \/ (\E s \in Accounts, a \in Addresses : create_pshaddress(s, a)) /\ ExtrinsicOK'
           \/ NewBlock /\ UNCHANGED extrinsic
           \/ UNCHANGED vars
BY SecretsAssumption DEF Next, KeyCall, Dispatched, ExtrinsicOK, ExtrinsicRec

-----------------------------------------------------------------------------
(* Type correctness *)

LEMMA InitTypeOK == Init => TypeOK
BY MaxBlockAssumption DEF Init, TypeOK, Blocks, Results

\* Each dispatchable on a proof key, for any signer and secret, keeps the
\* tables typed.
LEMMA ClaimCallsTypeOK ==
    ASSUME TypeOK, ExtrinsicOK',
           NEW s \in Accounts, NEW p \in ProofKeys, NEW k \in Secrets
    PROVE  /\ create_claim(s, p) => TypeOK'
           /\ update_claim(s, p, k) => TypeOK'
           /\ lock_claim(s, p, k) => TypeOK'
           /\ revoke_claim(s, p) => TypeOK'
<1> USE DEF TypeOK, ExtrinsicOK, ClaimRec, LockRec, Results, Claimed, Locked,
            StoredLock, Fail, InsertProof
<1>1. create_claim(s, p) => TypeOK'
  BY DEF create_claim
<1>2. update_claim(s, p, k) => TypeOK'
  BY SecretsAssumption DEF update_claim, TransferProof, TransferLock
<1>3. lock_claim(s, p, k) => TypeOK'
  BY DEF lock_claim, SetLock
<1>4. revoke_claim(s, p) => TypeOK'
  BY DEF revoke_claim
<1>5. QED
  BY <1>1, <1>2, <1>3, <1>4

\* create_pshaddress keeps the tables typed.
LEMMA AddressCallTypeOK ==
    ASSUME TypeOK, ExtrinsicOK', NEW s \in Accounts, NEW a \in Addresses,
           create_pshaddress(s, a)
    PROVE  TypeOK'
BY DEF TypeOK, ExtrinsicOK, ClaimRec, Results, Fail, create_pshaddress

LEMMA NextTypeOK == TypeOK /\ [Next]_vars => TypeOK'
<1> SUFFICES ASSUME TypeOK, [Next]_vars PROVE TypeOK'
  OBVIOUS
<1>1. CASE (\E s \in Accounts, p \in ProofKeys : KeyCall(s, p)) /\ ExtrinsicOK'
  <2>1. PICK s \in Accounts, p \in ProofKeys : KeyCall(s, p)
    BY <1>1
  <2>2. CASE \E k \in Secrets : update_claim(s, p, k) \/ lock_claim(s, p, k)
    <3>1. PICK k \in Secrets : update_claim(s, p, k) \/ lock_claim(s, p, k)
      BY <2>2
    <3>2. QED
      BY <1>1, <3>1, ClaimCallsTypeOK
  <2>3. QED
    BY <1>1, <2>1, <2>2, ClaimCallsTypeOK, SecretsAssumption DEF KeyCall
<1>2. CASE (\E s \in Accounts, a \in Addresses : create_pshaddress(s, a)) /\ ExtrinsicOK'
  <2>1. PICK s \in Accounts, a \in Addresses : create_pshaddress(s, a)
    BY <1>2
  <2>2. QED
    BY <1>2, <2>1, AddressCallTypeOK
<1>3. CASE NewBlock /\ UNCHANGED extrinsic
  <2>1. blockNumber' \in Blocks
    BY <1>3, MaxBlockAssumption DEF NewBlock, TypeOK, Blocks
  <2>2. QED
    BY <1>3, <2>1 DEF NewBlock, TypeOK
<1>4. CASE UNCHANGED vars
  BY <1>4 DEF vars, TypeOK
<1>5. QED
  BY <1>1, <1>2, <1>3, <1>4, NextCases

\* The storage maps of the tight pallet always hold values of their types.
THEOREM TypeCorrect == Spec => []TypeOK
BY InitTypeOK, NextTypeOK, PTL DEF Spec


-----------------------------------------------------------------------------
(* Only owners are ever named as lock holders *)

LEMMA InitIInv == Init => IInv
BY InitTypeOK DEF Init, IInv, OwnerWasRecorded, LockHolderWasOwner, Claimed, Locked

\* The calls on a proof key p keep both parts of the invariant; the proof of
\* each part opens only the action that can write the tables it reads.
LEMMA ClaimCallsIInv ==
    ASSUME IInv,
           NEW s \in Accounts, NEW p \in ProofKeys, NEW k \in Secrets
    PROVE  /\ create_claim(s, p) => (OwnerWasRecorded /\ LockHolderWasOwner)'
           /\ update_claim(s, p, k) => (OwnerWasRecorded /\ LockHolderWasOwner)'
           /\ lock_claim(s, p, k) => (OwnerWasRecorded /\ LockHolderWasOwner)'
           /\ revoke_claim(s, p) => (OwnerWasRecorded /\ LockHolderWasOwner)'
<1> USE DEF IInv, TypeOK, ClaimRec, LockRec, OwnerWasRecorded, LockHolderWasOwner,
            Claimed, Locked, StoredLock, Fail, InsertProof
<1>1. create_claim(s, p) => (OwnerWasRecorded /\ LockHolderWasOwner)'
  BY DEF create_claim
<1>2. update_claim(s, p, k) => (OwnerWasRecorded /\ LockHolderWasOwner)'
  BY DEF update_claim, TransferProof, TransferLock
<1>3. lock_claim(s, p, k) => (OwnerWasRecorded /\ LockHolderWasOwner)'
  BY DEF lock_claim, SetLock
<1>4. revoke_claim(s, p) => (OwnerWasRecorded /\ LockHolderWasOwner)'
  BY DEF revoke_claim
<1>5. QED
  BY <1>1, <1>2, <1>3, <1>4

LEMMA NextIInv == IInv /\ [Next]_vars => IInv'
<1> SUFFICES ASSUME IInv, [Next]_vars PROVE IInv'
  OBVIOUS
<1>1. TypeOK'
  BY NextTypeOK DEF IInv
<1>2. CASE \E s \in Accounts, p \in ProofKeys : KeyCall(s, p)
  <2>1. PICK s \in Accounts, p \in ProofKeys : KeyCall(s, p)
    BY <1>2
  <2>2. CASE \E k \in Secrets : update_claim(s, p, k) \/ lock_claim(s, p, k)
    <3>1. PICK k \in Secrets : update_claim(s, p, k) \/ lock_claim(s, p, k)
      BY <2>2
    <3>2. QED
      BY <1>1, <3>1, ClaimCallsIInv DEF IInv
  <2>3. QED
    BY <1>1, <2>1, <2>2, ClaimCallsIInv, SecretsAssumption DEF IInv, KeyCall
<1>3. CASE \E s \in Accounts, a \in Addresses : create_pshaddress(s, a)
  BY <1>1, <1>3 DEF create_pshaddress, Fail, IInv, OwnerWasRecorded,
                    LockHolderWasOwner, Claimed, Locked
<1>4. CASE NewBlock
  BY <1>1, <1>4 DEF NewBlock, IInv, OwnerWasRecorded, LockHolderWasOwner,
                    Claimed, Locked
<1>5. CASE UNCHANGED vars
  BY <1>1, <1>5 DEF vars, IInv, OwnerWasRecorded, LockHolderWasOwner,
                    Claimed, Locked
<1>6. QED
  BY <1>2, <1>3, <1>4, <1>5, NextCases

\* Whoever a Prooflocks entry names as holder owned that proof at some time:
\* lock_claim's owner check and update_claim's transfer admit no one else.
THEOREM LockHolderWasOwnerThm == Spec => []LockHolderWasOwner
<1>1. IInv => LockHolderWasOwner
  BY DEF IInv
<1>2. QED
  BY InitIInv, NextIInv, <1>1, PTL DEF Spec


-----------------------------------------------------------------------------
(* Action properties: what no step may do to a lock or a claim record *)

\* The body of each action property, as a predicate of one step.
LockStep ==
    \A p \in ProofKeys :
        Locked(p) => Locked(p)' /\ Prooflocks'[p].secret = Prooflocks[p].secret
TransferStep ==
    \A p \in ProofKeys :
        (Claimed(p) /\ Claimed(p)' /\ Proofs'[p].owner # Proofs[p].owner)
           => /\ Locked(p)'
              /\ Prooflocks'[p].holder = Proofs'[p].owner
              /\ Prooflocks'[p].secret = StoredLock(p)
BlockStep ==
    \A p \in ProofKeys :
        (Claimed(p) /\ Claimed(p)') => Proofs'[p].block = Proofs[p].block

StepProps == LockStep /\ TransferStep /\ BlockStep

\* A lock record differs from the absent entry.
LEMMA LockRecNotNoRecord ==
    ASSUME NEW h \in Accounts, NEW x \in Secrets
    PROVE  [holder |-> h, secret |-> x] # NoRecord
BY NoRecordAssumption

LEMMA ClaimCallsStep ==
    ASSUME TypeOK,
           NEW s \in Accounts, NEW p \in ProofKeys, NEW k \in Secrets
    PROVE  /\ create_claim(s, p) => StepProps
           /\ update_claim(s, p, k) => StepProps
           /\ lock_claim(s, p, k) => StepProps
           /\ revoke_claim(s, p) => StepProps
<1> USE DEF TypeOK, ClaimRec, LockRec, StepProps, LockStep, TransferStep, BlockStep,
            Claimed, Locked, StoredLock, Fail, InsertProof
<1>1. create_claim(s, p) => StepProps
  BY DEF create_claim
<1>2. update_claim(s, p, k) => StepProps
  <2>1. StoredLock(p) \in Secrets
    BY SecretsAssumption
  <2>2. QED
    BY <2>1, LockRecNotNoRecord DEF update_claim, TransferProof, TransferLock
<1>3. lock_claim(s, p, k) => StepProps
  BY LockRecNotNoRecord DEF lock_claim, SetLock
<1>4. revoke_claim(s, p) => StepProps
  BY DEF revoke_claim
<1>5. QED
  BY <1>1, <1>2, <1>3, <1>4

LEMMA NextStep == TypeOK /\ [Next]_vars => StepProps
<1> SUFFICES ASSUME TypeOK, [Next]_vars PROVE StepProps
  OBVIOUS
<1>1. CASE \E s \in Accounts, p \in ProofKeys : KeyCall(s, p)
  <2>1. PICK s \in Accounts, p \in ProofKeys : KeyCall(s, p)
    BY <1>1
  <2>2. CASE \E k \in Secrets : update_claim(s, p, k) \/ lock_claim(s, p, k)
    <3>1. PICK k \in Secrets : update_claim(s, p, k) \/ lock_claim(s, p, k)
      BY <2>2
    <3>2. QED
      BY <3>1, ClaimCallsStep
  <2>3. QED
    BY <2>1, <2>2, ClaimCallsStep, SecretsAssumption DEF KeyCall
<1>2. CASE \E s \in Accounts, a \in Addresses : create_pshaddress(s, a)
  BY <1>2 DEF create_pshaddress, Fail, StepProps, LockStep, TransferStep, BlockStep,
          Claimed, Locked, StoredLock
<1>3. CASE NewBlock
  BY <1>3 DEF NewBlock, StepProps, LockStep, TransferStep, BlockStep,
          Claimed, Locked, StoredLock
<1>4. CASE UNCHANGED vars
  BY <1>4 DEF vars, StepProps, LockStep, TransferStep, BlockStep,
          Claimed, Locked, StoredLock
<1>5. QED
  BY <1>1, <1>2, <1>3, <1>4, NextCases

\* Once a proof is locked its lock is never removed and its secret never
\* changes, whatever transfers, revokes and lock_claim calls follow.
THEOREM LockPermanentThm == Spec => LockPermanent
<1>1. TypeOK /\ [Next]_vars => [LockStep]_vars
  BY NextStep DEF StepProps
<1>2. QED
  BY TypeCorrect, <1>1, PTL DEF Spec, LockPermanent, LockStep

\* A transfer leaves the proof locked, held by the new owner, under the
\* secret that was in force before it (the bearer-token semantics).
THEOREM TransferKeepsSecretThm == Spec => TransferKeepsSecret
<1>1. TypeOK /\ [Next]_vars => [TransferStep]_vars
  BY NextStep DEF StepProps
<1>2. QED
  BY TypeCorrect, <1>1, PTL DEF Spec, TransferKeepsSecret, TransferStep

\* No step rewrites the creation block of a claim that stays claimed.
THEOREM CreatedAtPreservedThm == Spec => CreatedAtPreserved
<1>1. TypeOK /\ [Next]_vars => [BlockStep]_vars
  BY NextStep DEF StepProps
<1>2. QED
  BY TypeCorrect, <1>1, PTL DEF Spec, CreatedAtPreserved, BlockStep

-----------------------------------------------------------------------------
(* The registry implements ProofOwnership under OwnerOf and CapOf *)

\* An abstract step or a stutter of the abstract variables.
AbsStep == [PO!Next]_PO!vars

\* A claim record differs from the absent entry.
LEMMA ClaimRecNotNoRecord ==
    ASSUME NEW o \in Accounts, NEW b \in Nat
    PROVE  [owner |-> o, block |-> b] # NoRecord
BY NoRecordAssumption

\* A step that leaves Proofs and Prooflocks alone is an abstract Other step.
LEMMA TablesUnchangedAbs ==
    ASSUME UNCHANGED <<Proofs, Prooflocks>>
    PROVE  AbsStep
BY DEF AbsStep, PO!Next, PO!Other, OwnerOf, CapOf, Claimed, Locked, StoredLock

\* create_claim is a Claim of an unowned key, or fails.
LEMMA CreateClaimAbs ==
    ASSUME TypeOK, NEW s \in Accounts, NEW p \in ProofKeys,
           create_claim(s, p), Dispatched("create_claim", s, p, EmptySecret)
    PROVE  AbsStep
<1>1. CASE Claimed(p)
  BY <1>1, TablesUnchangedAbs DEF create_claim, Fail
<1>2. CASE ~Claimed(p)
  <2>1. Proofs' = [Proofs EXCEPT ![p] = [owner |-> s, block |-> blockNumber]]
        /\ UNCHANGED Prooflocks
    BY <1>2 DEF create_claim, Fail, InsertProof
  <2>2. Claimed(p)' /\ Proofs'[p].owner = s
    BY <2>1, ClaimRecNotNoRecord DEF TypeOK, Blocks, Claimed
  <2>3. PO!Claim(p, s)
    BY <1>2, <2>1, <2>2 DEF PO!Claim, PO!Sent, Dispatched, OwnerOf, CapOf,
                           Claimed, Locked, StoredLock, TypeOK
  <2>4. QED
    BY <2>3 DEF AbsStep, PO!Next
<1>3. QED
  BY <1>1, <1>2

\* update_claim is a Handover with the key's capability, a Claim of an
\* unowned key, or changes no ownership.
LEMMA UpdateClaimAbs ==
    ASSUME TypeOK, NEW s \in Accounts, NEW p \in ProofKeys, NEW k \in Secrets,
           update_claim(s, p, k), Dispatched("update_claim", s, p, k)
    PROVE  AbsStep
<1>1. CASE Claimed(p) /\ k # StoredLock(p)
  BY <1>1, TablesUnchangedAbs DEF update_claim, Fail
<1>2. CASE Claimed(p) /\ k = StoredLock(p) /\ s # Proofs[p].owner
  <2>1. /\ Proofs' = [Proofs EXCEPT ![p] = [owner |-> s, block |-> Proofs[p].block]]
        /\ Prooflocks' = [Prooflocks EXCEPT ![p] = [holder |-> s, secret |-> StoredLock(p)]]
    BY <1>2 DEF update_claim, Fail, TransferProof, TransferLock, InsertProof
  <2>2. Proofs[p] \in ClaimRec /\ StoredLock(p) \in Secrets
    BY <1>2, SecretsAssumption DEF TypeOK, Claimed, StoredLock, Locked, LockRec
  <2>3. Claimed(p)' /\ Proofs'[p].owner = s /\ Locked(p)'
        /\ Prooflocks'[p].secret = StoredLock(p)
    BY <2>1, <2>2, ClaimRecNotNoRecord, LockRecNotNoRecord DEF TypeOK, ClaimRec,
       Blocks, Claimed, Locked
  <2>4. OwnerOf[p] \notin {NoRecord, s}
    BY <1>2, <2>2, NoRecordAssumption DEF OwnerOf, ClaimRec
  <2>5. CapOf' = CapOf
    BY <2>1, <2>3 DEF CapOf, StoredLock, Locked
  <2>6. PO!Handover(p, s)
    BY <1>2, <2>1, <2>3, <2>4, <2>5 DEF PO!Handover, PO!Sent, Dispatched, OwnerOf,
       CapOf, Claimed, TypeOK
  <2>7. QED
    BY <2>6 DEF AbsStep, PO!Next
<1>3. CASE Claimed(p) /\ k = StoredLock(p) /\ s = Proofs[p].owner
  BY <1>3, TablesUnchangedAbs DEF update_claim, Fail
<1>4. CASE ~Claimed(p)
  <2>1. Proofs' = [Proofs EXCEPT ![p] = [owner |-> s, block |-> blockNumber]]
        /\ UNCHANGED Prooflocks
    BY <1>4 DEF update_claim, InsertProof
  <2>2. Claimed(p)' /\ Proofs'[p].owner = s
    BY <2>1, ClaimRecNotNoRecord DEF TypeOK, Blocks, Claimed
  <2>3. PO!Claim(p, s)
    BY <1>4, <2>1, <2>2 DEF PO!Claim, PO!Sent, Dispatched, OwnerOf, CapOf,
                           Claimed, Locked, StoredLock, TypeOK
  <2>4. QED
    BY <2>3 DEF AbsStep, PO!Next
<1>5. QED
  BY <1>1, <1>2, <1>3, <1>4

\* lock_claim is the owner's Arm of a key without capability, or fails.
LEMMA LockClaimAbs ==
    ASSUME TypeOK, NEW s \in Accounts, NEW p \in ProofKeys, NEW k \in Secrets,
           lock_claim(s, p, k), Dispatched("lock_claim", s, p, k)
    PROVE  AbsStep
<1>1. CASE Locked(p) \/ ~Claimed(p) \/ s # Proofs[p].owner
  BY <1>1, TablesUnchangedAbs DEF lock_claim, Fail
<1>2. CASE ~Locked(p) /\ Claimed(p) /\ s = Proofs[p].owner
  <2>1. /\ Prooflocks' = [Prooflocks EXCEPT ![p] = [holder |-> s, secret |-> k]]
        /\ UNCHANGED Proofs
    BY <1>2 DEF lock_claim, SetLock, Fail
  <2>2. Locked(p)' /\ Prooflocks'[p].secret = k
    BY <2>1, LockRecNotNoRecord DEF TypeOK, Locked
  <2>3. PO!Arm(p, s)
    BY <1>2, <2>1, <2>2 DEF PO!Arm, PO!Sent, Dispatched, OwnerOf, CapOf,
                           Claimed, Locked, StoredLock, TypeOK
  <2>4. QED
    BY <2>3 DEF AbsStep, PO!Next
<1>3. QED
  BY <1>1, <1>2

\* revoke_claim is the owner's Release, or fails.
LEMMA RevokeClaimAbs ==
    ASSUME TypeOK, NEW s \in Accounts, NEW p \in ProofKeys,
           revoke_claim(s, p), Dispatched("revoke_claim", s, p, EmptySecret)
    PROVE  AbsStep
<1>1. CASE ~Claimed(p) \/ s # Proofs[p].owner
  BY <1>1, TablesUnchangedAbs DEF revoke_claim, Fail
<1>2. CASE Claimed(p) /\ s = Proofs[p].owner
  <2>1. Proofs' = [Proofs EXCEPT ![p] = NoRecord] /\ UNCHANGED Prooflocks
    BY <1>2 DEF revoke_claim, Fail
  <2>2. PO!Release(p, s)
    BY <1>2, <2>1 DEF PO!Release, PO!Sent, Dispatched, OwnerOf, CapOf,
                     Claimed, Locked, StoredLock, TypeOK
  <2>3. QED
    BY <2>2 DEF AbsStep, PO!Next
<1>3. QED
  BY <1>1, <1>2

LEMMA InitAbs == Init => PO!Init
BY DEF Init, PO!Init, OwnerOf, CapOf, Claimed, Locked, StoredLock

\* Every step of the registry is an abstract step or leaves owner and
\* capability alone.
LEMMA NextAbs == TypeOK /\ [Next]_vars => AbsStep
<1> SUFFICES ASSUME TypeOK, [Next]_vars PROVE AbsStep
  OBVIOUS
<1>1. CASE \E s \in Accounts, p \in ProofKeys :
             \/ create_claim(s, p) /\ Dispatched("create_claim", s, p, EmptySecret)
             \/ revoke_claim(s, p) /\ Dispatched("revoke_claim", s, p, EmptySecret)
             \/ \E k \in Secrets :
                   \/ update_claim(s, p, k) /\ Dispatched("update_claim", s, p, k)
                   \/ lock_claim(s, p, k) /\ Dispatched("lock_claim", s, p, k)
  <2>1. PICK s \in Accounts, p \in ProofKeys :
             \/ create_claim(s, p) /\ Dispatched("create_claim", s, p, EmptySecret)
             \/ revoke_claim(s, p) /\ Dispatched("revoke_claim", s, p, EmptySecret)
             \/ \E k \in Secrets :
                   \/ update_claim(s, p, k) /\ Dispatched("update_claim", s, p, k)
                   \/ lock_claim(s, p, k) /\ Dispatched("lock_claim", s, p, k)
    BY <1>1
  <2>2. CASE \E k \in Secrets :
                \/ update_claim(s, p, k) /\ Dispatched("update_claim", s, p, k)
                \/ lock_claim(s, p, k) /\ Dispatched("lock_claim", s, p, k)
    <3>1. PICK k \in Secrets :
                \/ update_claim(s, p, k) /\ Dispatched("update_claim", s, p, k)
                \/ lock_claim(s, p, k) /\ Dispatched("lock_claim", s, p, k)
      BY <2>2
    <3>2. QED
      BY <3>1, UpdateClaimAbs, LockClaimAbs
  <2>3. QED
    BY <2>1, <2>2, CreateClaimAbs, RevokeClaimAbs
<1>2. CASE \E s \in Accounts, a \in Addresses :
             create_pshaddress(s, a) /\ Dispatched("create_pshaddress", s, a, EmptySecret)
  BY <1>2, TablesUnchangedAbs DEF create_pshaddress, Fail
<1>3. CASE NewBlock /\ UNCHANGED extrinsic
  BY <1>3, TablesUnchangedAbs DEF NewBlock
<1>4. CASE UNCHANGED vars
  BY <1>4, TablesUnchangedAbs DEF vars
<1>5. QED
  BY <1>1, <1>2, <1>3, <1>4 DEF Next

\* The claim registry of the tight pallet implements the bearer-capability
\* ownership map: ownership and capabilities change only by a create or
\* update of an unowned key, the owner's revoke, the owner's first lock, or
\* an update call that carries the key's current capability.
THEOREM RefinementThm == Spec => ImplementsProofOwnership
<1>1. QED
  BY InitAbs, NextAbs, TypeCorrect, PTL DEF Spec, ImplementsProofOwnership, PO!Spec,
     AbsStep

=============================================================================
