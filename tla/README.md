# Verification of substratenode1's runtime pallets in TLA+

This directory holds TLA+ models of the runtime pallets in `src/pallets/`. It
also holds the TLC configurations that model-check them and the TLAPS proofs
about them. Every module is translated from the Rust source. `PROJECT.json`
maps each definition to the lines it models.

## 1. Inventory

### 1.1 Components

| Component | Source | State it keeps | Operations (dispatchables) |
|---|---|---|---|
| Claim registry (tight) | `src/pallets/tight/src/lib.rs` | `Proofs: proof -> (owner, block)`, `Prooflocks: proof -> (holder, secret)`, `P2shaddress: address -> (owner, block)`; all `ValueQuery` | `create_claim`, `update_claim`, `lock_claim`, `create_pshaddress`, `revoke_claim` |
| NFT class issuance (tight) | same file, `create_nft` | none in this pallet (orml_nft's storage) | `create_nft` |
| Claim registry (crowd) | `src/pallets/crowd/src/lib.rs` | its own `Proofs`, `Prooflocks`, `P2shaddress`, line for line the same as tight | the same five calls (its `create_nft` is commented out) |
| Identity / login (identitysel) | `src/pallets/identitysel/src/lib.rs` | `Identity1Of: e-mail -> RegistrationSel{accountId, info{passwordhash, referalhash, web, ...}}`, `EmailId: account -> e-mail` | `request_registration_sel11`, `login_access_sel12`, `change_password_sel13`, `set_referal_sel12`, `create_web3link_sel15`, `login_web3_sel16`, `set_accessservice_sel17`, `check_web3access_sel18` |
| Identity storage with no writer | same file | `Tokens`, `IdentityOf`, `SuperOf`, `SubsOf`, `Registrars`, `Useridentities` | none (no call writes them) |
| Document verification (docverify) | `src/pallets/docverify/src/lib.rs` | its own `Proofs`, `P2shaddress`, `Documentverify` | `document_submit_sel31` (a `create_claim`), `document_verify_sel32` and `document_reject_sel33` (empty bodies), `create_nft` (calls `identitysel::check_web3access_sel18` and reads `identity`) |
| Test harness | `docverify/src/mocks.rs`, `docverify/src/tests.rs`, `crowd/src/tests.rs` | mock runtime | tests |

### 1.2 How the components interact

- The host executes one extrinsic at a time, to completion, against one
  key-value store. Nothing inside a pallet runs concurrently, and nothing
  blocks, retries or times out. So every dispatchable is one atomic action.
  The hard behaviour is therefore not thread interleaving. It is the order
  in which calls from different signers arrive, chosen by the block author.
  Long sequences of individually legal calls can reach states the authors
  did not intend.
- Every `ensure!` and `?` in these calls comes before the first storage
  write, so a failing call writes nothing. The calls are not
  `#[transactional]`, but they need not be.
- A `try_into().unwrap()` of caller bytes into a `BoundedVec` panics when the
  bytes are too long. The block builder then drops the extrinsic, and it
  writes nothing.
- docverify's `create_nft` calls identitysel's `check_web3access_sel18`
  directly, as a Rust function, in the same extrinsic. It discards the
  result. This is the only call from one pallet into another.
- The tight and crowd registries (and docverify's `Proofs`) are separate
  storage. They share code, not state.

### 1.3 What makes each component correct

- **Claim registry.** At most one owner per proof. Only the owner may lock
  or revoke. A claim changes hands only when the caller presents the lock
  secret the owner set (spec.md §4.1, §8). A transfer keeps the creation
  block and the secret. A lock belongs to the claim it guards. P2SH
  addresses are one-shot.
- **Identity.** An identity is re-bound to another account only through a
  referral-key link. The referral is single use. Service access goes only
  to the account the identity is bound to now. Only the bound account
  changes the password and settings.
- **Document verification.** A submitted document keeps its first
  submitter and block. `create_nft` proceeds only for callers whose
  identity grants the "moodle" service. The verifier workflow
  (`document_verify_sel32`, `document_reject_sel33`) is a stub.

### 1.4 Hazards

`PROJECT.json` `hazards` lists each hazard at the line where it bites. In
short:
- an unlocked claim is taken with the empty secret, because `ValueQuery`
  returns a default lock;
- `revoke_claim` leaves an orphaned lock behind, and a re-created claim
  inherits it;
- the secret is a permanent bearer token, and it travels in clear in calls
  and events;
- anyone can call identitysel's `change_password_sel13` and
  `set_referal_sel12` on any identity and become its bound account;
- a stale `EmailId` keeps service access after the identity is re-bound;
- an oversized input panics;
- docverify's `create_nft` ignores a failed access check.

## 2. Modules and how they correspond to the code

### `ClaimRegistry.tla`: the tight pallet's claim registry

**Variables.** The three storage maps are total functions with the sentinel
`NoRecord` for an absent key. `blockNumber` is `frame_system`'s block
number, advanced by the host action `NewBlock` up to the bound `MaxBlock`.
`result` is the last `DispatchResult`. `everOwned` is a history variable:
the accounts that ever owned each proof. Only properties read it.

**Defaults.** `StoredLock(p)` is `Prooflocks::get` under `ValueQuery`: the
stored secret, or `EmptySecret` (`vec![]`) when no lock exists.

**Actions.** There is one action per dispatchable. Each `ensure!` is an
error disjunct, in the code's order.
- `update_claim` has four disjuncts: `InvalidLock`, transfer to a
  non-owner, no-op for the owner, and creation of an unclaimed proof.
- The transfer is `TransferProof` plus `TransferLock`. Together they are
  `Proofs::insert` with the old block, and `Prooflocks::insert` with the
  new holder and the same secret.

**Left out.** Events are left out, because no call reads them. So is the
unsigned origin, which fails in `ensure_signed` before any read.
`revoke_claim`'s read of `total_issuance` is unused and left out too.

### `IdentitySel.tla`: identitysel's login and link calls

**Variables.** `Identity1Of` keeps only the fields some call reads:
`accountId`, `passwordhash`, `referalhash` and `web`. `EmailId` is the
second map. `last` records the last call, its signer and its result.

**Data values.**
- `Data` values are tagged pairs: `Raw(x)`, `Blake(x)` and `Sha(x)`. The
  hashes are modelled as injective.
- A `Raw` value never equals a `Sha256` value. So the filler
  `"The Right Ordinal Ten, Esq."` written at registration, and the
  `"null"` written after a link, never match a referral.
- A service equal to the filler's bytes does match a fresh identity's
  `web`.

**Panics.** Oversized e-mails (`LongEmails`) and services (`LongServices`)
take the `Panic` path.

**Actions.** There is one action per dispatchable. `create_web3link` checks
in the code's order: signer equals `idtolink`, e-mail length, identity
exists, referral hash.

**Refinement mapping.** `extrinsic` records each dispatched call: its
name, signer, key and the secret it carries. `OwnerOf` maps each key to
its owner in `Proofs` (or `NoRecord`). `CapOf` maps it to `StoredLock`.
`PO` instantiates `ProofOwnership` with these; `ImplementsProofOwnership`
is `PO!Spec`.

### `ProofOwnership.tla`: what the claim registry promises

The abstract specification: an ownership map over keys, guarded by bearer
capabilities. `Claim` takes an ownerless key. `Release` is the owner's
revoke. `Arm` is the owner's first lock. `Handover` is an `update_claim`
that carries the key's current capability. Every other call changes
neither map. It is written from spec.md §3, §4.1 and §8, not from the code.
Under the mapping above, `ValueQuery`'s empty default lock *is* the
capability of an unarmed key, so the unlocked takeover is a `Handover`
here, not a violation. The separate violation runs below state the spec's
stricter reading.

### `CrowdRegistry.tla`: the crowd pallet

crowd's storage and five calls are tight's line for line. So each crowd
call is the `ClaimRegistry` action of the same name, taken through the
instance `R`, and the next-state relation is rebuilt from the crowd calls.
(The one textual difference, an unused read of `total_issuance` in tight's
`revoke_claim`, tight `lib.rs:225`, has no effect.) Its behaviours are
exactly `ClaimRegistry`'s, so it has no run or proof of its own: the
`claims_*` runs and `ClaimRegistryProofs` speak for the crowd pallet too.

### `DocVerify.tla`: docverify composed with identitysel

The variables are identitysel's (`Identity1Of`, `EmailId`, `last`, taken
over through the instance `Id`) and docverify's `Proofs`, `Documentverify`,
`blockNumber` and `dlast` (the last docverify call and its result).
- `document_submit_sel31` is a first-come-first-served `create_claim` on
  docverify's own `Proofs`.
- `document_verify_sel32` and `document_reject_sel33` return `Ok` and write
  nothing: their bodies are a comment.
- `create_nft` computes `Id!CheckWeb3Access(sender, "moodle")` and keeps
  only a panic. An `Err` is dropped.
- An identity call leaves docverify's storage unchanged, and a docverify
  call leaves identitysel's unchanged.
- `Documentverify` is written by no call and stays empty. `P2shaddress`
  has no writer and is left out.

No passing run checks `DocVerify`. Its `Proofs` table has one writer,
guarded by a single `ensure!`, and `Documentverify` is never written. So
any invariant of its own storage would restate one guard or hold by
construction. The verifier workflow is a stub (spec.md excludes it as
largely unimplemented), so no rule about it is checked either. The one
question the composition answers is the `create_nft` finding below.

### Proof modules

`ClaimRegistryProofs.tla` and `IdentitySelProofs.tla`; see §4.

### MC modules

`MC_ClaimRegistry`, `MC_IdentitySel` and `MC_DocVerify`
give the constants small values for TLC.

## 3. Runs

| Run | Config | Expect | Checks |
|---|---|---|---|
| `claims_safety` | `MC_ClaimRegistry.cfg` | pass | `TypeOK`, `LockHolderWasOwner`, `ImplementsProofOwnership`, `LockPermanent`, `TransferKeepsSecret`, `CreatedAtPreserved` |
| `claims_unlocked_takeover` | `MC_ClaimRegistry_UnlockedClaimNotTransferable.cfg` | violation | spec §4.1: only a locked claim can be transferred |
| `claims_orphaned_lock` | `MC_ClaimRegistry_LockHolderIsOwner.cfg` | violation | a claim's lock is held by its owner |
| `identity_safety` | `MC_IdentitySel.cfg` | pass | `TypeOK`, `LinkConsumesReferal` |
| `identity_binding_hijack` | `MC_IdentitySel_BindingOnlyByLink.cfg` | violation | an identity is re-bound only by a referral link |
| `identity_stale_access` | `MC_IdentitySel_AccessOnlyForBoundAccount.cfg` | violation | service access only for the currently bound account |
| `docverify_nft_without_access` | `MC_DocVerify_NftOnlyWithAccess.cfg` | violation | `create_nft` only for callers with the "moodle" service |

What the runs show:
- `claims_safety`: locks are only ever set by owners, even across
  revoke/re-create. A lock, once set, is never removed or re-keyed. Every
  transfer leaves the proof locked, held by the new owner, under the old
  secret. No step changes the creation block.
- `claims_unlocked_takeover`: counterexample in 2 steps. a1 creates a claim.
  a2 calls `update_claim` with the empty secret and becomes the owner.
- `claims_orphaned_lock`: counterexample in 4 steps. a1 claims and locks.
  a1 revokes. a2 re-creates the claim, which is still guarded by a1's lock,
  so a1 can take it back.
- `identity_safety`: an account is (re)linked only by presenting a stored
  referral. The referral is then consumed, and the identity is bound to
  that account.
- `identity_binding_hijack`: a stranger calls `change_password_sel13` on someone
  else's identity and becomes its bound account.
- `identity_stale_access`: a1 links an identity. a2 takes it over. a1 still
  passes `check_web3access_sel18`, through its stale `EmailId` entry.
- `claims_safety` also checks `ImplementsProofOwnership`:
  every step of the registry is a `Claim`, `Release`, `Arm` or `Handover` by
  the signer of the call, or changes no owner and no capability. Making
  `revoke_claim` skip its owner check breaks it.
- `docverify_nft_without_access`: a caller with no identity calls
  `create_nft`. The check returns `NoIdentity`, which is dropped, and the
  call succeeds.

**Bounds.**
- Three signers: an owner, a taker and a third party. They are declared a
  symmetry set, which is sound because no definition names a particular
  account.
- One proof key and one address. Keys are independent: every action reads
  and writes only the key it is given.
- Three secrets. One of them is the empty secret, because `ValueQuery`
  gives it a special role.
- Two blocks, so that a transfer can happen in a later block than the
  creation.
- For identitysel: one e-mail that fits and one that does not, two
  passwords (to tell a changed password apart), one referral, and three
  services (`"moodle"`, the filler's bytes, and one that is too long).
- For docverify: two signers, one document and two blocks, with the
  identity constants above. The counterexample needs one signer and one
  step.
- Every action and every disjunct fires in the passing runs.
- Every property of a passing run is broken by a mutant of the code. These
  are listed under `PROJECT.json` `mutants`.

**Fairness.** None is assumed. The pallets never oblige anyone to call
anything. No liveness property is claimed, and none would be justified by
the code.

## 4. What is proved (TLAPS)

The theorems hold for all values of the constants. The assumptions used
are `SecretsAssumption` (the empty secret is a secret), `NoRecordAssumption`
(the sentinel is no record and no account), `MaxBlockAssumption`, and for
identitysel `EmailsAssumption` and `ServicesAssumption`.

`ClaimRegistryProofs.tla`:
- `TypeCorrect`: `Spec => []TypeOK`. The proof has one lemma for the calls
  on a proof key and one for `create_pshaddress`.
- `LockHolderWasOwnerThm`: `Spec => []LockHolderWasOwner`.
  `LockHolderWasOwner` is not inductive on its own, because `lock_claim`
  makes the current owner the holder. The inductive invariant is
  `IInv == TypeOK /\ OwnerWasRecorded /\ LockHolderWasOwner`, where
  `OwnerWasRecorded` says every current owner is in `everOwned`. TLC
  checked `IInv` on the `claims_safety` instance first.
- `LockPermanentThm`, `TransferKeepsSecretThm` and `CreatedAtPreservedThm`
  are the three action properties. Each step of `Next` satisfies their
  bodies under `TypeOK` (lemma `NextStep`). They then follow from
  `TypeCorrect` by PTL.
- `RefinementThm`: `Spec => ImplementsProofOwnership`. `InitAbs` maps the
  initial state to `PO!Init`. `NextAbs` shows that, under `TypeOK`, every
  step is a `PO!Next` step or leaves owner and capability unchanged. It has
  one lemma per call. `update_claim` splits into its four cases: the
  transfer is a `Handover`, because the secret sent equals `StoredLock`.

`IdentitySelProofs.tla`:
- `TypeCorrect`: `Spec => []TypeOK`, including that no oversized e-mail is
  ever registered. Lemmas `IdRecPassword`, `IdRecReferal` and
  `IdRecService` give the type of an updated identity record.
- `LinkConsumesReferalThm`: `Spec => LinkConsumesReferal`. Lemma
  `EmailIdWriters` shows that only a successful `create_web3link_sel15`
  changes `EmailId`. `LinkStep` then reads the referral, account and
  "null" off `UseReferal`.

Every property of a passing run is stated by a theorem.

**Only model-checked.** The violations are counterexamples and are only
model-checked.

**Out of the prover's reach.** Liveness and `ENABLED` are out of reach
(none is claimed). So are recursive definitions (none is used).

## 5. Not modelled, and why

- `tight::create_nft`: its only effect is on orml_nft's storage, outside
  this repository.
- Events: nothing reads them. The one property that would need them (the
  secret published in `ClaimLocked`) is planned as an adversary-knowledge
  model; see §6.
- identitysel's storage with no writer, and the balances, deposits,
  judgements and registrars of the identity types: no modelled call
  touches them.
- docverify's `P2shaddress` (no writer) and the `IdentityOf` read in
  `create_nft`, whose value is unused.
- The test harness: `crowd/src/tests.rs` calls an `add_value` that does not
  exist.

## 6. Plan

Done: `ClaimRegistry` with its proofs and the `ProofOwnership` refinement;
`CrowdRegistry`; `IdentitySel` with its proofs; `DocVerify` composing
docverify with identitysel.

Next, in order of importance:
1. `SecretKnowledge`. An adversary-knowledge extension of `ClaimRegistry`:
   who knows which secret, with secrets published by `lock_claim` calls,
   `ClaimLocked` events and pending `update_claim` calls. It covers the
   front-running hazard at tight:136. Violation: a transfer by a signer the
   owner never told the secret.
