----------------------------- MODULE DocVerify -----------------------------
(***************************************************************************)
(* pallets/docverify (src/pallets/docverify/src/lib.rs) in a runtime with  *)
(* pallets/identitysel, whose storage its create_nft reads by calling      *)
(* check_web3access_sel18 directly.  Its own storage:                      *)
(*                                                                         *)
(*   Proofs          document hash -> (submitter, block)       line 79     *)
(*   Documentverify  document hash -> (submitter, verifier, link, status)  *)
(*                                                             line 85     *)
(*                                                                         *)
(* No call writes Documentverify or P2shaddress (whose only writer is      *)
(* commented out), so Documentverify stays empty and P2shaddress is left   *)
(* out.  The identity pallet's calls are its module's actions, taken over  *)
(* by INSTANCE; a docverify call leaves the identity storage alone and an  *)
(* identity call leaves docverify's alone.  `dlast` is the last docverify  *)
(* extrinsic: call, signer and DispatchResult.                             *)
(***************************************************************************)
EXTENDS Naturals

CONSTANTS
    Accounts, Emails, LongEmails, Passwords, Referals, Services, LongServices,
    Filler, NullBytes, NoRecord,
    Documents,   \* document hashes a caller may submit
    Moodle,      \* b"moodle", the service create_nft checks (it fits Data::Raw)
    MaxBlock     \* bound on frame_system::block_number in a run

VARIABLES
    Identity1Of, EmailId, last,   \* identitysel's storage and last call
    Proofs,           \* Documents -> DocRec \cup {NoRecord}
    Documentverify,   \* Documents -> {NoRecord}: never written
    blockNumber,      \* frame_system::Pallet::block_number()
    dlast             \* the last docverify extrinsic

Id == INSTANCE IdentitySel

idVars == <<Identity1Of, EmailId, last>>
docVars == <<Proofs, Documentverify, blockNumber, dlast>>
vars == <<idVars, docVars>>

Blocks == 1..MaxBlock

\* (T::AccountId, T::BlockNumber), the value type of Proofs
DocRec == [owner : Accounts, block : Blocks]

DocCalls == {"none", "document_submit", "document_verify", "document_reject",
             "create_nft"}

DocResults == {"Ok", "Panic", "ProofAlreadyClaimed"}

\* record the docverify call; the identity storage is not touched
DocDone(call, who, res) ==
    /\ dlast' = [call |-> call, sender |-> who, res |-> res]
    /\ UNCHANGED idVars

DocReturn(call, who, res) ==
    /\ DocDone(call, who, res)
    /\ UNCHANGED <<Proofs, Documentverify, blockNumber>>

-----------------------------------------------------------------------------
Init ==
    /\ Id!Init
    /\ Proofs = [d \in Documents |-> NoRecord]
    /\ Documentverify = [d \in Documents |-> NoRecord]
    /\ blockNumber = 1
    /\ dlast = [call |-> "none", sender |-> NoRecord, res |-> "Ok"]

\* document_submit_sel31: the first submitter of a document hash records it
\* with the current block; a later submission fails.
document_submit_sel31(sender, proof) ==
    \/ /\ Proofs[proof] # NoRecord
       /\ DocReturn("document_submit", sender, "ProofAlreadyClaimed")
    \/ /\ Proofs[proof] = NoRecord
       /\ Proofs' = [Proofs EXCEPT ![proof] = [owner |-> sender, block |-> blockNumber]]
       /\ DocDone("document_submit", sender, "Ok")
       /\ UNCHANGED <<Documentverify, blockNumber>>

\* document_verify_sel32 and document_reject_sel33: the bodies are a comment
\* and Ok(()); the origin is not even checked to be signed.
document_verify_sel32(verifier, dochash) == DocReturn("document_verify", verifier, "Ok")

document_reject_sel33(verifier, dochash) == DocReturn("document_reject", verifier, "Ok")

\* create_nft: calls check_web3access_sel18(origin, b"moodle") and drops its
\* DispatchResult; only a panic inside it aborts the extrinsic.  Then
\* ensure_signed, a read of IdentityOf that is not used, the TokenIssuedBy
\* event and Ok.
create_nft(sender) ==
    DocReturn("create_nft", sender,
              IF Id!CheckWeb3Access(sender, Moodle) = "Panic" THEN "Panic" ELSE "Ok")

\* The host finalises a block.
NewBlock ==
    /\ blockNumber < MaxBlock
    /\ blockNumber' = blockNumber + 1
    /\ UNCHANGED <<idVars, Proofs, Documentverify, dlast>>

Next ==
    \/ Id!Next /\ UNCHANGED docVars
    \/ \E s \in Accounts :
          \/ \E d \in Documents :
                \/ document_submit_sel31(s, d)
                \/ document_verify_sel32(s, d)
                \/ document_reject_sel33(s, d)
          \/ create_nft(s)
    \/ NewBlock

Spec == Init /\ [][Next]_vars

-----------------------------------------------------------------------------
(* Properties *)

\* create_nft issues a token only to a caller whose identity grants the
\* "moodle" service, the check it calls first (line 305).  It drops the
\* check's result, so this is expected to fail.
NftOnlyWithAccess ==
    [][\A a \in Accounts :
          create_nft(a) /\ dlast'.res = "Ok" => Id!CheckWeb3Access(a, Moodle) = "Ok"]_vars

=============================================================================
