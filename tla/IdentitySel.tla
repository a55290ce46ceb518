---------------------------- MODULE IdentitySel ----------------------------
(***************************************************************************)
(* The e-mail keyed login and web3-link calls of pallets/identitysel       *)
(* (src/pallets/identitysel/src/lib.rs, lines 375-649).  Two storage maps  *)
(* are the variables:                                                      *)
(*                                                                         *)
(*   Identity1Of  e-mail -> RegistrationSel                  line 219     *)
(*   EmailId      account -> e-mail                           line 201     *)
(*                                                                         *)
(* Of a RegistrationSel only the fields some call reads are kept: the      *)
(* bound accountId and, of its info, passwordhash, referalhash and web.    *)
(* Data values are tagged as in types.rs: Raw(bytes), BlakeTwo256(hash)    *)
(* and Sha256(hash); the hashes are modelled as injective, so a hash is    *)
(* the tag paired with the hashed value.  The byte strings written as      *)
(* literals (the "The Right Ordinal Ten, Esq." filler and "null") are the  *)
(* constants Filler and NullBytes.                                         *)
(*                                                                         *)
(* Every `try_into().unwrap()` of a caller's bytes into a BoundedVec       *)
(* panics when they are too long; the panicking extrinsic is dropped by    *)
(* the block builder and writes nothing: result "Panic".                   *)
(***************************************************************************)
EXTENDS Naturals

CONSTANTS
    Accounts,      \* signers (T::AccountId)
    Emails,        \* e-mail byte strings a caller may send
    LongEmails,    \* those longer than MaxEmailsize
    Passwords,     \* password byte strings
    Referals,      \* referral byte strings
    Services,      \* service byte strings
    LongServices,  \* those longer than a Data::Raw holds (32 bytes)
    Filler,        \* b"The Right Ordinal Ten, Esq." written at registration
    NullBytes,     \* b"null" written when a referral is used
    NoRecord       \* an absent storage entry

ASSUME EmailsAssumption == LongEmails \subseteq Emails
ASSUME ServicesAssumption == LongServices \subseteq Services /\ Filler \in Services \ LongServices

VARIABLES
    Identity1Of,   \* Emails -> IdRec \cup {NoRecord}
    EmailId,       \* Accounts -> Emails \cup {NoRecord}
    last           \* the last extrinsic: call, signer and DispatchResult

vars == <<Identity1Of, EmailId, last>>

\* Data::Raw, Data::BlakeTwo256(blake2_256(x)) and Data::Sha256(sha2_256(x))
Raw(x) == <<"Raw", x>>
Blake(x) == <<"BlakeTwo256", x>>
Sha(x) == <<"Sha256", x>>

ShortEmails == Emails \ LongEmails

\* the fields of RegistrationSel the calls read
IdRec == [accountId : Accounts,
          passwordhash : {Blake(w) : w \in Passwords},
          referalhash : {Raw(Filler), Raw(NullBytes)} \cup {Sha(r) : r \in Referals},
          web : {Raw(s) : s \in Services \ LongServices}]

Calls == {"none", "request_registration", "login_access", "change_password",
          "set_referal", "create_web3link", "login_web3", "set_accessservice",
          "check_web3access"}

Results == {"Ok", "Panic", "IdentityAlreadyClaimed", "NoIdentity", "LoginFailed",
            "SignerNotmatching", "ReferalFailed", "ServiceAccessFailed"}

Registered(e) == Identity1Of[e] # NoRecord

\* <EmailId<T>>::get(a).ok_or(NoIdentity)? followed by
\* <Identity1Of<T>>::get(&emailx).ok_or(NoIdentity)?
Linked(a) == EmailId[a] # NoRecord /\ Registered(EmailId[a])

\* record the call and its result; Return leaves both maps as they are
Done(call, who, res) == last' = [call |-> call, sender |-> who, res |-> res]
Return(call, who, res) == Done(call, who, res) /\ UNCHANGED <<Identity1Of, EmailId>>

\* email.clone().try_into().unwrap() into BoundedVec<_, MaxEmailsize>
EmailPanics(call, who, email) == email \in LongEmails /\ Return(call, who, "Panic")

\* <Identity1Of<T>>::get(&emailx).ok_or(Error::<T>::NoIdentity)?
NoIdentity(call, who, email) ==
    email \in ShortEmails /\ ~Registered(email) /\ Return(call, who, "NoIdentity")

-----------------------------------------------------------------------------
Init ==
    /\ Identity1Of = [e \in Emails |-> NoRecord]
    /\ EmailId = [a \in Accounts |-> NoRecord]
    /\ last = [call |-> "none", sender |-> NoRecord, res |-> "Ok"]

\* request_registration_sel11: a new identity bound to the signer, with the
\* hashed password and the filler in referalhash and web.
request_registration_sel11(sender, email, password) ==
    \/ EmailPanics("request_registration", sender, email)
    \/ /\ email \in ShortEmails
       /\ Registered(email)
       /\ Return("request_registration", sender, "IdentityAlreadyClaimed")
    \/ /\ email \in ShortEmails
       /\ ~Registered(email)
       /\ Identity1Of' = [Identity1Of EXCEPT ![email] =
             [accountId |-> sender, passwordhash |-> Blake(password),
              referalhash |-> Raw(Filler), web |-> Raw(Filler)]]
       /\ Done("request_registration", sender, "Ok")
       /\ UNCHANGED EmailId

\* login_access_sel12: Ok iff the password hashes to the stored hash.
login_access_sel12(sender, email, password) ==
    \/ EmailPanics("login_access", sender, email)
    \/ NoIdentity("login_access", sender, email)
    \/ /\ email \in ShortEmails
       /\ Registered(email)
       /\ Return("login_access", sender,
               IF Identity1Of[email].passwordhash = Blake(password)
               THEN "Ok" ELSE "LoginFailed")

\* change_password_sel13: any signer sets the password of any identity and
\* becomes its bound account.
change_password_sel13(sender, email, password) ==
    \/ EmailPanics("change_password", sender, email)
    \/ NoIdentity("change_password", sender, email)
    \/ /\ email \in ShortEmails
       /\ Registered(email)
       /\ Identity1Of' = [Identity1Of EXCEPT ![email] =
             [@ EXCEPT !.accountId = sender, !.passwordhash = Blake(password)]]
       /\ Done("change_password", sender, "Ok")
       /\ UNCHANGED EmailId

\* set_referal_sel12: any signer sets the referral hash of any identity and
\* becomes its bound account.
set_referal_sel12(sender, email, referal) ==
    \/ EmailPanics("set_referal", sender, email)
    \/ NoIdentity("set_referal", sender, email)
    \/ /\ email \in ShortEmails
       /\ Registered(email)
       /\ Identity1Of' = [Identity1Of EXCEPT ![email] =
             [@ EXCEPT !.accountId = sender, !.referalhash = Sha(referal)]]
       /\ Done("set_referal", sender, "Ok")
       /\ UNCHANGED EmailId

\* mutant of UseReferal: the referral hash is left in place
UseReferalKept(sender, email) ==
    /\ Identity1Of' = [Identity1Of EXCEPT ![email] = [@ EXCEPT !.accountId = sender]]
    /\ EmailId' = [EmailId EXCEPT ![sender] = email]

\* the referral is replaced by Raw("null"), the identity is bound to the
\* signer, and the signer's account is mapped to the e-mail
UseReferal(sender, email) ==
    /\ Identity1Of' = [Identity1Of EXCEPT ![email] =
          [@ EXCEPT !.accountId = sender, !.referalhash = Raw(NullBytes)]]
    /\ EmailId' = [EmailId EXCEPT ![sender] = email]

\* create_web3link_sel15: the signer must be idtolink and present the
\* referral whose hash is stored; the checks are in the code's order.
create_web3link_sel15(sender, email, idtolink, referal) ==
    \/ /\ sender # idtolink
       /\ Return("create_web3link", sender, "SignerNotmatching")
    \/ /\ sender = idtolink
       /\ \/ EmailPanics("create_web3link", sender, email)
          \/ NoIdentity("create_web3link", sender, email)
          \/ /\ email \in ShortEmails
             /\ Registered(email)
             /\ Identity1Of[email].referalhash # Sha(referal)
             /\ Return("create_web3link", sender, "ReferalFailed")
          \/ /\ email \in ShortEmails
             /\ Registered(email)
             /\ Identity1Of[email].referalhash = Sha(referal)
             /\ UseReferal(sender, email)
             /\ Done("create_web3link", sender, "Ok")

\* login_web3_sel16: Ok iff the signer is the identity's bound account.
\* (The TokenId conversion cannot panic: MaxTokenid = MaxEmailsize.)
login_web3_sel16(sender, email) ==
    \/ EmailPanics("login_web3", sender, email)
    \/ NoIdentity("login_web3", sender, email)
    \/ /\ email \in ShortEmails
       /\ Registered(email)
       /\ Return("login_web3", sender,
               IF sender = Identity1Of[email].accountId THEN "Ok" ELSE "LoginFailed")

\* mutant of set_accessservice_sel17: a service of any length is stored
SetAccessServiceUnbounded(sender, idtoaccess, service) ==
    \/ ~Linked(idtoaccess) /\ Return("set_accessservice", sender, "NoIdentity")
    \/ /\ Linked(idtoaccess)
       /\ Identity1Of' = [Identity1Of EXCEPT ![EmailId[idtoaccess]].web = Raw(service)]
       /\ Done("set_accessservice", sender, "Ok")
       /\ UNCHANGED EmailId

\* set_accessservice_sel17: any signer sets the web field of the identity
\* that idtoaccess is linked to; the bound account is kept.
set_accessservice_sel17(sender, idtoaccess, service) ==
    \/ /\ ~Linked(idtoaccess)
       /\ Return("set_accessservice", sender, "NoIdentity")
    \/ /\ Linked(idtoaccess)
       /\ \/ service \in LongServices /\ Return("set_accessservice", sender, "Panic")
          \/ /\ service \notin LongServices
             /\ Identity1Of' = [Identity1Of EXCEPT ![EmailId[idtoaccess]].web = Raw(service)]
             /\ Done("set_accessservice", sender, "Ok")
             /\ UNCHANGED EmailId

\* The DispatchResult of check_web3access_sel18 (it writes nothing): Ok iff
\* the web field of the identity the signer is linked to holds the service;
\* a service too long for Data::Raw panics in try_into().unwrap().
CheckWeb3Access(sender, service) ==
    IF ~Linked(sender) THEN "NoIdentity"
    ELSE IF service \in LongServices THEN "Panic"
    ELSE IF Raw(service) = Identity1Of[EmailId[sender]].web THEN "Ok"
    ELSE "ServiceAccessFailed"

\* check_web3access_sel18 as an extrinsic of its own
check_web3access_sel18(sender, service) ==
    Return("check_web3access", sender, CheckWeb3Access(sender, service))

Next ==
    \E s \in Accounts :
       \/ \E e \in Emails, w \in Passwords :
             \/ request_registration_sel11(s, e, w)
             \/ login_access_sel12(s, e, w)
             \/ change_password_sel13(s, e, w)
       \/ \E e \in Emails, r \in Referals :
             \/ set_referal_sel12(s, e, r)
             \/ \E t \in Accounts : create_web3link_sel15(s, e, t, r)
       \/ \E e \in Emails : login_web3_sel16(s, e)
       \/ \E t \in Accounts, v \in Services : set_accessservice_sel17(s, t, v)
       \/ \E v \in Services : check_web3access_sel18(s, v)

Spec == Init /\ [][Next]_vars

-----------------------------------------------------------------------------
(* Properties *)

\* The two maps and the call record hold values of their types.
TypeOK ==
    /\ Identity1Of \in [Emails -> IdRec \cup {NoRecord}]
    /\ EmailId \in [Accounts -> ShortEmails \cup {NoRecord}]
    /\ last \in [call : Calls, sender : Accounts \cup {NoRecord}, res : Results]
    /\ \A e \in LongEmails : ~Registered(e)

\* Linking is single use: an account is (re)linked to an identity only by
\* presenting the referral that set_referal stored, the referral is then
\* replaced by "null" and the identity is bound to that account, so the
\* same referral cannot link a second account (create_web3link_sel15).
LinkConsumesReferal ==
    [][\A a \in Accounts :
          EmailId'[a] # EmailId[a] =>
             LET e == EmailId'[a] IN
                /\ Identity1Of[e].referalhash \in {Sha(r) : r \in Referals}
                /\ Identity1Of'[e].referalhash = Raw(NullBytes)
                /\ Identity1Of'[e].accountId = a]_vars

\* The comment of create_web3link_sel15 says an identity is re-bound to an
\* account only by a link with the referral key.  change_password_sel13 and
\* set_referal_sel12 bind it to any signer; this is expected to fail.
BindingOnlyByLink ==
    [][\A e \in Emails :
          (Registered(e) /\ Identity1Of'[e].accountId # Identity1Of[e].accountId)
             => /\ Identity1Of'[e].referalhash = Raw(NullBytes)
                /\ EmailId'[Identity1Of'[e].accountId] = e]_vars

\* check_web3access_sel18 grants a service to a signer only if the signer is
\* the account its identity is bound to now (what login_web3_sel16 checks).
\* EmailId entries are never removed when the identity is re-bound to
\* another account, so this is expected to fail.
AccessOnlyForBoundAccount ==
    (last.call = "check_web3access" /\ last.res = "Ok")
       => Identity1Of[EmailId[last.sender]].accountId = last.sender

=============================================================================
