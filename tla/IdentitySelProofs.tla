------------------------- MODULE IdentitySelProofs -------------------------
(***************************************************************************)
(* Proofs about IdentitySel for every value of its constants: the type     *)
(* invariant (which includes that no oversized e-mail ever reaches         *)
(* Identity1Of) and the single-use referral property of create_web3link.   *)
(***************************************************************************)
EXTENDS IdentitySel, TLAPS

-----------------------------------------------------------------------------
(* Type correctness *)

LEMMA InitTypeOK == Init => TypeOK
BY EmailsAssumption DEF Init, TypeOK, Calls, Results, Registered

\* Updating fields of an identity record with values of their types gives
\* an identity record: a new signer and password hash (change_password) ...
LEMMA IdRecPassword ==
    ASSUME NEW r \in IdRec, NEW a \in Accounts, NEW w \in Passwords
    PROVE  [r EXCEPT !.accountId = a, !.passwordhash = Blake(w)] \in IdRec
<1>1. r = [accountId |-> r.accountId, passwordhash |-> r.passwordhash,
           referalhash |-> r.referalhash, web |-> r.web]
  BY DEF IdRec
<1>2. QED
  BY <1>1 DEF IdRec

\* ... a new signer and referral hash (set_referal, create_web3link) ...
LEMMA IdRecReferal ==
    ASSUME NEW r \in IdRec, NEW a \in Accounts,
           NEW x \in {Raw(Filler), Raw(NullBytes)} \cup {Sha(q) : q \in Referals}
    PROVE  [r EXCEPT !.accountId = a, !.referalhash = x] \in IdRec
<1>1. r = [accountId |-> r.accountId, passwordhash |-> r.passwordhash,
           referalhash |-> r.referalhash, web |-> r.web]
  BY DEF IdRec
<1>2. QED
  BY <1>1 DEF IdRec

\* ... or a service that fits in Data::Raw (set_accessservice).
LEMMA IdRecService ==
    ASSUME NEW r \in IdRec, NEW v \in Services \ LongServices
    PROVE  [r EXCEPT !.web = Raw(v)] \in IdRec
<1>1. r = [accountId |-> r.accountId, passwordhash |-> r.passwordhash,
           referalhash |-> r.referalhash, web |-> r.web]
  BY DEF IdRec
<1>2. QED
  BY <1>1 DEF IdRec

\* Storing an identity record under an e-mail that fits keeps the state
\* typed, when EmailId and the call record stay typed.
LEMMA WriteIdentity ==
    ASSUME TypeOK, NEW e \in ShortEmails, NEW rec \in IdRec,
           Identity1Of' = [Identity1Of EXCEPT ![e] = rec],
           EmailId' \in [Accounts -> ShortEmails \cup {NoRecord}],
           last' \in [call : Calls, sender : Accounts \cup {NoRecord}, res : Results]
    PROVE  TypeOK'
BY EmailsAssumption DEF TypeOK, ShortEmails, Registered

\* The calls that take an e-mail keep the state typed.
LEMMA EmailCallsTypeOK ==
    ASSUME TypeOK, NEW s \in Accounts
    PROVE  /\ \A e \in Emails, w \in Passwords :
                 \/ request_registration_sel11(s, e, w)
                 \/ login_access_sel12(s, e, w)
                 \/ change_password_sel13(s, e, w)
                 => TypeOK'
           /\ \A e \in Emails, r \in Referals :
                 \/ set_referal_sel12(s, e, r)
                 \/ \E t \in Accounts : create_web3link_sel15(s, e, t, r)
                 => TypeOK'
           /\ \A e \in Emails : login_web3_sel16(s, e) => TypeOK'
<1> USE EmailsAssumption DEF TypeOK, Calls, Results, Registered, ShortEmails, Done, Return,
            EmailPanics, NoIdentity
<1>1. ASSUME NEW e \in Emails, NEW w \in Passwords,
             request_registration_sel11(s, e, w)
      PROVE  TypeOK'
  BY <1>1, ServicesAssumption DEF request_registration_sel11, IdRec
<1>2. ASSUME NEW e \in Emails, NEW w \in Passwords, login_access_sel12(s, e, w)
      PROVE  TypeOK'
  BY <1>2 DEF login_access_sel12
<1>3. ASSUME NEW e \in Emails, NEW w \in Passwords, change_password_sel13(s, e, w)
      PROVE  TypeOK'
  <2>1. CASE e \in ShortEmails /\ Registered(e)
    <3>1. Identity1Of[e] \in IdRec
      BY <2>1
    <3>2. [Identity1Of[e] EXCEPT !.accountId = s, !.passwordhash = Blake(w)] \in IdRec
      BY <3>1, IdRecPassword
    <3>3. /\ Identity1Of' = [Identity1Of EXCEPT ![e] =
                 [Identity1Of[e] EXCEPT !.accountId = s, !.passwordhash = Blake(w)]]
          /\ UNCHANGED EmailId
          /\ last' = [call |-> "change_password", sender |-> s, res |-> "Ok"]
      BY <1>3, <2>1, Zenon DEF change_password_sel13
    <3>4. QED
      BY <2>1, <3>2, <3>3, WriteIdentity
  <2>2. QED
    BY <1>3, <2>1 DEF change_password_sel13
<1>4. ASSUME NEW e \in Emails, NEW r \in Referals, set_referal_sel12(s, e, r)
      PROVE  TypeOK'
  <2>1. CASE e \in ShortEmails /\ Registered(e)
    <3>1. Identity1Of[e] \in IdRec
      BY <2>1
    <3>2. [Identity1Of[e] EXCEPT !.accountId = s, !.referalhash = Sha(r)] \in IdRec
      BY <3>1, IdRecReferal
    <3>3. /\ Identity1Of' = [Identity1Of EXCEPT ![e] =
                 [Identity1Of[e] EXCEPT !.accountId = s, !.referalhash = Sha(r)]]
          /\ UNCHANGED EmailId
          /\ last' = [call |-> "set_referal", sender |-> s, res |-> "Ok"]
      BY <1>4, <2>1, Zenon DEF set_referal_sel12
    <3>4. QED
      BY <2>1, <3>2, <3>3, WriteIdentity
  <2>2. QED
    BY <1>4, <2>1 DEF set_referal_sel12
<1>5. ASSUME NEW e \in Emails, NEW r \in Referals, NEW t \in Accounts,
             create_web3link_sel15(s, e, t, r)
      PROVE  TypeOK'
  <2>1. CASE s = t /\ e \in ShortEmails /\ Registered(e)
               /\ Identity1Of[e].referalhash = Sha(r)
    <3>1. Identity1Of[e] \in IdRec
      BY <2>1
    <3>2. [Identity1Of[e] EXCEPT !.accountId = s, !.referalhash = Raw(NullBytes)] \in IdRec
      BY <3>1, IdRecReferal
    <3>3. /\ Identity1Of' = [Identity1Of EXCEPT ![e] =
                 [Identity1Of[e] EXCEPT !.accountId = s, !.referalhash = Raw(NullBytes)]]
          /\ EmailId' = [EmailId EXCEPT ![s] = e]
          /\ last' = [call |-> "create_web3link", sender |-> s, res |-> "Ok"]
      BY <1>5, <2>1, Zenon DEF create_web3link_sel15, UseReferal
    <3>4. QED
      BY <2>1, <3>2, <3>3, WriteIdentity
  <2>2. QED
    BY <1>5, <2>1 DEF create_web3link_sel15, UseReferal
<1>6. ASSUME NEW e \in Emails, login_web3_sel16(s, e)
      PROVE  TypeOK'
  BY <1>6 DEF login_web3_sel16
<1>7. QED
  BY <1>1, <1>2, <1>3, <1>4, <1>5, <1>6

\* The service calls keep the state typed: set_accessservice_sel17 writes
\* only a service that fits, into the identity idtoaccess is linked to.
LEMMA ServiceCallsTypeOK ==
    ASSUME TypeOK, NEW s \in Accounts
    PROVE  /\ \A t \in Accounts, v \in Services : set_accessservice_sel17(s, t, v) => TypeOK'
           /\ \A v \in Services : check_web3access_sel18(s, v) => TypeOK'
<1> USE EmailsAssumption DEF TypeOK, Calls, Results, Registered, ShortEmails, Done, Return, Linked
<1>1. ASSUME NEW t \in Accounts, NEW v \in Services, set_accessservice_sel17(s, t, v)
      PROVE  TypeOK'
  <2>1. CASE Linked(t) /\ v \notin LongServices
    <3>1. EmailId[t] \in ShortEmails /\ Identity1Of[EmailId[t]] \in IdRec
      BY <2>1
    <3>2. [Identity1Of[EmailId[t]] EXCEPT !.web = Raw(v)] \in IdRec
      BY <2>1, <3>1, IdRecService
    <3>3. /\ Identity1Of' = [Identity1Of EXCEPT ![EmailId[t]] =
                 [Identity1Of[EmailId[t]] EXCEPT !.web = Raw(v)]]
          /\ UNCHANGED EmailId
          /\ last' = [call |-> "set_accessservice", sender |-> s, res |-> "Ok"]
      BY <1>1, <2>1, Zenon DEF set_accessservice_sel17
    <3>4. QED
      BY <3>1, <3>2, <3>3, WriteIdentity
  <2>2. QED
    BY <1>1, <2>1 DEF set_accessservice_sel17
<1>2. ASSUME NEW v \in Services, check_web3access_sel18(s, v)
      PROVE  TypeOK'
  BY <1>2 DEF check_web3access_sel18, CheckWeb3Access
<1>3. QED
  BY <1>1, <1>2

LEMMA NextTypeOK == TypeOK /\ [Next]_vars => TypeOK'
<1> SUFFICES ASSUME TypeOK, [Next]_vars PROVE TypeOK'
  OBVIOUS
<1>1. CASE Next
  <2>1. PICK s \in Accounts :
          \/ \E e \in Emails, w \in Passwords :
                \/ request_registration_sel11(s, e, w)
                \/ login_access_sel12(s, e, w)
                \/ change_password_sel13(s, e, w)
          \/ \E e \in Emails, r \in Referals :
                \/ set_referal_sel12(s, e, r)
                \/ \E t \in Accounts : create_web3link_sel15(s, e, t, r)
          \/ \E e \in Emails : login_web3_sel16(s, e)
          \/ \E t \in Accounts, v \in Services : set_accessservice_sel17(s, t, v)
          \/ \E v \in Services : check_web3access_sel18(s, v)
    BY <1>1 DEF Next
  <2>2. CASE \E e \in Emails, w \in Passwords :
                \/ request_registration_sel11(s, e, w)
                \/ login_access_sel12(s, e, w)
                \/ change_password_sel13(s, e, w)
    BY <2>2, EmailCallsTypeOK
  <2>3. CASE \E e \in Emails, r \in Referals :
                \/ set_referal_sel12(s, e, r)
                \/ \E t \in Accounts : create_web3link_sel15(s, e, t, r)
    BY <2>3, EmailCallsTypeOK
  <2>4. CASE \E e \in Emails : login_web3_sel16(s, e)
    BY <2>4, EmailCallsTypeOK
  <2>5. CASE \E t \in Accounts, v \in Services : set_accessservice_sel17(s, t, v)
    BY <2>5, ServiceCallsTypeOK
  <2>6. CASE \E v \in Services : check_web3access_sel18(s, v)
    BY <2>6, ServiceCallsTypeOK
  <2>7. QED
    BY <2>1, <2>2, <2>3, <2>4, <2>5, <2>6
<1>2. CASE UNCHANGED vars
  BY <1>2 DEF vars, TypeOK, Registered
<1>3. QED
  BY <1>1, <1>2

\* The identity storage always holds values of its types, and no e-mail
\* longer than MaxEmailsize is ever registered (every call that writes
\* Identity1Of panics on such an e-mail first).
THEOREM TypeCorrect == Spec => []TypeOK
BY InitTypeOK, NextTypeOK, PTL DEF Spec


-----------------------------------------------------------------------------
(* Single-use referral links *)

\* The body of LinkConsumesReferal, the condition on one step.
LinkBody ==
    \A a \in Accounts :
       EmailId'[a] # EmailId[a] =>
          LET e == EmailId'[a] IN
             /\ Identity1Of[e].referalhash \in {Sha(r) : r \in Referals}
             /\ Identity1Of'[e].referalhash = Raw(NullBytes)
             /\ Identity1Of'[e].accountId = a

\* What UseReferal writes into an identity record: the signer as bound
\* account and the "null" referral.
LEMMA UsedRecordFields ==
    ASSUME NEW r \in IdRec, NEW a
    PROVE  LET u == [r EXCEPT !.accountId = a, !.referalhash = Raw(NullBytes)]
           IN  u.accountId = a /\ u.referalhash = Raw(NullBytes)
<1>1. r = [accountId |-> r.accountId, passwordhash |-> r.passwordhash,
           referalhash |-> r.referalhash, web |-> r.web]
  BY DEF IdRec
<1>2. QED
  BY <1>1, Zenon

\* Every call but a successful create_web3link_sel15 leaves EmailId alone;
\* that one presents the stored referral and runs UseReferal.
LEMMA EmailIdWriters ==
    ASSUME TypeOK, [Next]_vars
    PROVE  \/ UNCHANGED EmailId
           \/ \E s \in Accounts, e \in ShortEmails, r \in Referals :
                 /\ Registered(e)
                 /\ Identity1Of[e].referalhash = Sha(r)
                 /\ UseReferal(s, e)
<1> USE DEF EmailPanics, NoIdentity, Return, Done
<1>1. CASE UNCHANGED vars
  BY <1>1 DEF vars
<1>2. CASE Next
  <2>1. PICK s \in Accounts :
          \/ \E e \in Emails, w \in Passwords :
                \/ request_registration_sel11(s, e, w)
                \/ login_access_sel12(s, e, w)
                \/ change_password_sel13(s, e, w)
          \/ \E e \in Emails, r \in Referals :
                \/ set_referal_sel12(s, e, r)
                \/ \E t \in Accounts : create_web3link_sel15(s, e, t, r)
          \/ \E e \in Emails : login_web3_sel16(s, e)
          \/ \E t \in Accounts, v \in Services : set_accessservice_sel17(s, t, v)
          \/ \E v \in Services : check_web3access_sel18(s, v)
    BY <1>2 DEF Next
  <2>2. CASE \E e \in Emails, w \in Passwords :
                \/ request_registration_sel11(s, e, w)
                \/ login_access_sel12(s, e, w)
                \/ change_password_sel13(s, e, w)
    BY <2>2, Zenon DEF request_registration_sel11, login_access_sel12, change_password_sel13
  <2>3. ASSUME NEW e \in Emails, NEW r \in Referals, set_referal_sel12(s, e, r)
        PROVE  UNCHANGED EmailId
    BY <2>3, Zenon DEF set_referal_sel12
  <2>4. ASSUME NEW e \in Emails, NEW r \in Referals, NEW t \in Accounts,
               create_web3link_sel15(s, e, t, r)
        PROVE  \/ UNCHANGED EmailId
               \/ /\ e \in ShortEmails
                  /\ Registered(e)
                  /\ Identity1Of[e].referalhash = Sha(r)
                  /\ UseReferal(s, e)
    BY <2>4, Zenon DEF create_web3link_sel15
  <2>5. CASE \E e \in Emails : login_web3_sel16(s, e)
    BY <2>5 DEF login_web3_sel16
  <2>6. CASE \E t \in Accounts, v \in Services : set_accessservice_sel17(s, t, v)
    BY <2>6, Zenon DEF set_accessservice_sel17
  <2>7. CASE \E v \in Services : check_web3access_sel18(s, v)
    BY <2>7 DEF check_web3access_sel18
  <2>8. QED
    BY <2>1, <2>2, <2>3, <2>4, <2>5, <2>6, <2>7
<1>3. QED
  BY <1>1, <1>2

\* Every step satisfies the body of LinkConsumesReferal.
LEMMA LinkStep == TypeOK /\ [Next]_vars => LinkBody
<1> SUFFICES ASSUME TypeOK, [Next]_vars, NEW a \in Accounts, EmailId'[a] # EmailId[a]
             PROVE  LET e == EmailId'[a] IN
                       /\ Identity1Of[e].referalhash \in {Sha(r) : r \in Referals}
                       /\ Identity1Of'[e].referalhash = Raw(NullBytes)
                       /\ Identity1Of'[e].accountId = a
  BY DEF LinkBody
<1>1. PICK s \in Accounts, e \in ShortEmails, r \in Referals :
          /\ Registered(e)
          /\ Identity1Of[e].referalhash = Sha(r)
          /\ UseReferal(s, e)
  BY EmailIdWriters
<1>2. EmailId' = [EmailId EXCEPT ![s] = e]
  BY <1>1 DEF UseReferal
<1>3. a = s /\ EmailId'[a] = e
  BY <1>2 DEF TypeOK
<1>4. Identity1Of[e] \in IdRec
  BY <1>1, EmailsAssumption DEF TypeOK, ShortEmails, Registered
<1>5. Identity1Of'[e] =
        [Identity1Of[e] EXCEPT !.accountId = s, !.referalhash = Raw(NullBytes)]
  BY <1>1, EmailsAssumption, Zenon DEF UseReferal, TypeOK, ShortEmails
<1>6. Identity1Of'[e].accountId = s /\ Identity1Of'[e].referalhash = Raw(NullBytes)
  BY <1>4, <1>5, UsedRecordFields
<1>7. QED
  BY <1>1, <1>3, <1>6

\* An account is (re)linked to an identity only by presenting the referral
\* that set_referal_sel12 stored; the referral is then replaced by "null"
\* and the identity is bound to that account (create_web3link_sel15), for
\* all sets of accounts, e-mails and referrals.
THEOREM LinkConsumesReferalThm == Spec => LinkConsumesReferal
<1>1. TypeOK /\ [Next]_vars => [LinkBody]_vars
  BY LinkStep
<1>2. QED
  BY <1>1, TypeCorrect, PTL DEF LinkConsumesReferal, LinkBody, Spec

=============================================================================
