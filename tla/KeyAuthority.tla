------------------------------ MODULE KeyAuthority ------------------------------
(***************************************************************************)
(* internal/attestation: the in-memory tree of issuer keys of keys.go,     *)
(* called by several goroutines, and the credentials they sign, which      *)
(* anyone may copy, alter and present to Verify (attestation.go) or name   *)
(* in a grant to a developer's key (holder.go).                            *)
(*                                                                         *)
(* KeyAuthority.mu is a RWMutex and no critical section blocks while it    *)
(* holds it, so a critical section is one atomic step.  What lies between  *)
(* two critical sections is where other goroutines come in: delegate gives *)
(* up the lock to generate a key, and Issue gives it up before it signs.   *)
(*                                                                         *)
(* An operator whose comment begins with "Faulty:" is no part of the       *)
(* specification: it is the next operator with a programming error, kept   *)
(* to confirm that the properties would notice that error.                 *)
(***************************************************************************)
EXTENDS Naturals

CONSTANTS Callers,     \* goroutines that call the authority
          Keys,        \* key identifiers that can be generated
          Scopes,      \* issuer scopes
          Learners,    \* subject and learner identifiers
          Skills,      \* skill identifiers
          Policies,    \* policy versions
          Occasions,   \* project name, issue time and agent name of a request
          HolderScopes,\* what a developer's key may be granted
          Empty,       \* the empty string
          MaxTime      \* bound on the clock

ASSUME EmptyAssumption == Empty \notin Scopes \cup Learners \cup Skills \cup Policies \cup Keys
ASSUME TimeAssumption == MaxTime \in Nat

VARIABLES now,          \* time.Now()
          rootRevoked,
          children,     \* key -> ChildKey
          pc,           \* where each caller is
          keyOf,        \* the key a caller's call is about
          specOf,       \* the delegation a caller asked for
          requestOf,    \* the credential a caller asked for
          credentials   \* what Issue has signed

callVars == <<pc, keyOf, specOf, requestOf>>
vars == <<now, rootRevoked, children, callVars, credentials>>

Times == 0..MaxTime

DelegationSpec ==
  [scope : Scopes, subject : Learners, skill : Skills, policy : Policies, expiresAt : 0..(MaxTime + 1)]
  \cup
  [scope : Scopes, subject : {Empty}, skill : {Empty}, policy : {Empty}, expiresAt : {0}]

IssueRequest ==
  [learner : Learners \cup {Empty}, skill : Skills \cup {Empty},
   policy : Policies \cup {Empty}, occasion : Occasions]

(* The zero value that looking up a missing key yields. *)
NoSpec == [scope |-> Empty, subject |-> Empty, skill |-> Empty, policy |-> Empty, expiresAt |-> 0]
NoChild == [spec |-> NoSpec, revoked |-> FALSE]
ChildKey == [spec : DelegationSpec \cup {NoSpec}, revoked : BOOLEAN]

Credential == [key : Keys, request : IssueRequest]

Init ==
  /\ now = 0
  /\ rootRevoked = FALSE
  /\ children = [k \in Keys |-> NoChild]
  /\ pc = [p \in Callers |-> "idle"]
  /\ keyOf = [p \in Callers |-> Empty]
  /\ specOf = [p \in Callers |-> NoSpec]
  /\ requestOf = [p \in Callers |-> Empty]
  /\ credentials = {}

Exists(k) == children[k].spec # NoSpec

(* A call that ends forgets its arguments. *)
Return(p) ==
  /\ pc' = [pc EXCEPT ![p] = "idle"]
  /\ keyOf' = [keyOf EXCEPT ![p] = Empty]
  /\ specOf' = [specOf EXCEPT ![p] = NoSpec]
  /\ requestOf' = [requestOf EXCEPT ![p] = Empty]

-----------------------------------------------------------------------------
(* delegate: check the arguments, look at the root, make a key, look again. *)

IsBound(spec) == spec.subject # Empty

CallDelegate(p, spec) ==
  /\ pc[p] = "idle"
  /\ IsBound(spec) => spec.expiresAt > now
  /\ pc' = [pc EXCEPT ![p] = "delegating"]
  /\ specOf' = [specOf EXCEPT ![p] = spec]
  /\ UNCHANGED <<now, rootRevoked, children, keyOf, requestOf, credentials>>

(* The key identifier carries 96 random bits: nobody else has it. *)
FreshKey(k) == ~Exists(k) /\ \A p \in Callers : keyOf[p] # k

ReadRoot(p, k) ==
  /\ pc[p] = "delegating"
  /\ ~rootRevoked
  /\ FreshKey(k)
  /\ pc' = [pc EXCEPT ![p] = "inserting"]
  /\ keyOf' = [keyOf EXCEPT ![p] = k]
  /\ UNCHANGED <<now, rootRevoked, children, specOf, requestOf, credentials>>

(* Faulty: relies on the first look at the root. *)
InsertUnchecked(p) ==
  /\ pc[p] = "inserting"
  /\ children' = [children EXCEPT ![keyOf[p]] = [spec |-> specOf[p], revoked |-> FALSE]]
  /\ Return(p)
  /\ UNCHANGED <<now, rootRevoked, credentials>>

InsertChild(p) ==
  /\ pc[p] = "inserting"
  /\ children' =
       IF rootRevoked THEN children
       ELSE [children EXCEPT ![keyOf[p]] = [spec |-> specOf[p], revoked |-> FALSE]]
  /\ Return(p)
  /\ UNCHANGED <<now, rootRevoked, credentials>>

-----------------------------------------------------------------------------
(* Issue: decide under the read lock, sign after it. *)

Covers(spec, request) ==
  IF IsBound(spec)
  THEN /\ spec.subject = request.learner
       /\ spec.skill = request.skill
       /\ spec.policy = request.policy
       /\ now < spec.expiresAt
  ELSE request.learner = Empty /\ request.skill = Empty /\ request.policy = Empty

(* Faulty: looks at the child and not at the root. *)
CanIssueForChild(k, scope, request) ==
  /\ Exists(k) /\ ~children[k].revoked
  /\ children[k].spec.scope = scope
  /\ Covers(children[k].spec, request)

(* Faulty: looks at the root and not at the mark of the child. *)
CanIssueUnlessRootRevoked(k, scope, request) ==
  /\ ~rootRevoked
  /\ Exists(k)
  /\ children[k].spec.scope = scope
  /\ Covers(children[k].spec, request)

CanIssueFor(k, scope, request) ==
  /\ ~rootRevoked
  /\ Exists(k) /\ ~children[k].revoked
  /\ children[k].spec.scope = scope
  /\ Covers(children[k].spec, request)

CallIssue(p, k, scope, request) ==
  /\ pc[p] = "idle"
  /\ CanIssueFor(k, scope, request)
  /\ pc' = [pc EXCEPT ![p] = "signing"]
  /\ keyOf' = [keyOf EXCEPT ![p] = k]
  /\ requestOf' = [requestOf EXCEPT ![p] = request]
  /\ UNCHANGED <<now, rootRevoked, children, specOf, credentials>>

ValidRequest(request) == request.learner # Empty

(* Faulty: reads the key after the call has dropped it. *)
SignUnnamed(p) ==
  /\ pc[p] = "signing"
  /\ ValidRequest(requestOf[p])
  /\ Return(p)
  /\ credentials' = credentials \cup {[key |-> keyOf'[p], request |-> requestOf[p]]}
  /\ UNCHANGED <<now, rootRevoked, children>>

Sign(p) ==
  /\ pc[p] = "signing"
  /\ ValidRequest(requestOf[p])
  /\ credentials' = credentials \cup {[key |-> keyOf[p], request |-> requestOf[p]]}
  /\ Return(p)
  /\ UNCHANGED <<now, rootRevoked, children>>

(* A call that ends with an error outside a critical section: the root was
   revoked, no key could be generated, the context was cancelled before
   signing, the request is not valid or the signer failed. *)
Fail(p) ==
  /\ pc[p] \in {"delegating", "signing"}
  /\ Return(p)
  /\ UNCHANGED <<now, rootRevoked, children, credentials>>

-----------------------------------------------------------------------------
Revoke(k) ==
  /\ Exists(k)
  /\ children' = [children EXCEPT ![k].revoked = TRUE]
  /\ UNCHANGED <<now, rootRevoked, callVars, credentials>>

RevokeRoot ==
  /\ rootRevoked' = TRUE
  /\ UNCHANGED <<now, children, callVars, credentials>>

ClockTick ==
  /\ now < MaxTime
  /\ now' = now + 1
  /\ UNCHANGED <<rootRevoked, children, callVars, credentials>>

CallStep(p) ==
  \/ \E k \in Keys : ReadRoot(p, k)
  \/ InsertChild(p)
  \/ Sign(p)
  \/ Fail(p)

Next ==
  \/ \E p \in Callers :
       \/ \E spec \in DelegationSpec : CallDelegate(p, spec)
       \/ \E k \in Keys, scope \in Scopes, request \in IssueRequest : CallIssue(p, k, scope, request)
       \/ CallStep(p)
  \/ \E k \in Keys : Revoke(k)
  \/ RevokeRoot
  \/ ClockTick

Spec == Init /\ [][Next]_vars

(* A goroutine that is in a call goes on: nothing in it waits for another
   goroutine except for the lock, which nobody keeps. *)
FairSpec == Spec /\ \A p \in Callers : WF_vars(CallStep(p))

-----------------------------------------------------------------------------
(* Credentials as documents.  Hashes and signatures of different contents
   differ, so each stands for its contents. *)

CredentialID(request) == <<request.learner, request.occasion>>

(* Faulty: the digest was not extended when the skill was added. *)
DigestWithoutSkill(document) ==
  [ID |-> document.ID, method |-> document.method,
   subject |-> [document.subject EXCEPT !.skill = Empty]]
(* Every member but the value of the proof. *)
UnsignedDigest(document) ==
  [ID |-> document.ID, method |-> document.method, subject |-> document.subject]

SignDigest(key, digest) == [key |-> key, digest |-> digest]

SignedDocument(c) ==
  LET unsigned == [ID |-> CredentialID(c.request), method |-> c.key, subject |-> c.request] IN
  [ID |-> unsigned.ID, method |-> unsigned.method, subject |-> unsigned.subject,
   proofValue |-> SignDigest(c.key, UnsignedDigest(unsigned))]

(* What can be presented: any document around a signature that was made. *)
Documents ==
  [ID : {CredentialID(request) : request \in IssueRequest}, method : Keys,
   subject : IssueRequest, proofValue : {SignedDocument(c).proofValue : c \in credentials}]

Verify(document, publicKey) ==
  document.proofValue = SignDigest(publicKey, UnsignedDigest(document))

(* Grants to a developer's key; issuance is never among what they allow. *)
HolderBinding ==
  [CredentialID : {CredentialID(request) : request \in IssueRequest},
   Scopes : SUBSET HolderScopes, ExpiresAt : 0..(MaxTime + 1)]

Allows(binding, scope, id) ==
  /\ binding.CredentialID = id
  /\ now < binding.ExpiresAt
  /\ scope # "issue-credential"
  /\ scope \in binding.Scopes

-----------------------------------------------------------------------------
TypeOK ==
  /\ now \in Times
  /\ rootRevoked \in BOOLEAN
  /\ children \in [Keys -> ChildKey]
  /\ pc \in [Callers -> {"idle", "delegating", "inserting", "signing"}]
  /\ keyOf \in [Callers -> Keys \cup {Empty}]
  /\ specOf \in [Callers -> DelegationSpec \cup {NoSpec}]
  /\ requestOf \in [Callers -> IssueRequest \cup {Empty}]
  /\ credentials \subseteq Credential

(* Whoever presents a document that verifies under a child's key, altered or
   not, presents one that was signed with that very key, and it says of the
   learner what the key was delegated for, although the decision is taken on a
   copy and other goroutines delegate and revoke before the signature; a key
   without a subject vouches for nothing, because canIssueForLocked accepts it
   only for a request that validateRequest refuses. *)
VerifiedWithinDelegation ==
  \A document \in Documents, k \in Keys : Verify(document, k) =>
    LET spec == children[k].spec IN
    /\ \E c \in credentials : c.key = k /\ document = SignedDocument(c)
    /\ Exists(k) /\ IsBound(spec)
    /\ document.subject.learner = spec.subject
    /\ document.subject.skill = spec.skill
    /\ document.subject.policy = spec.policy

SignersOf(k) == {p \in Callers : pc[p] = "signing" /\ keyOf[p] = k}

(* Once the root is revoked the tree grows no further, not even by a
   delegation that had found the root available (delegate, second look). *)
NoChildAfterRootRevoked ==
  [][rootRevoked => \A k \in Keys : Exists(k)' => Exists(k)]_vars

(* Revocation is final and shuts the entrance: once a child or the root is
   revoked, the calls that may still sign with the child only become fewer. *)
RevocationShutsEntrance ==
  [][\A k \in Keys : rootRevoked \/ children[k].revoked =>
       /\ SignersOf(k)' \subseteq SignersOf(k)
       /\ rootRevoked' \/ children'[k].revoked]_vars

(* In the end a revoked child signs nothing more: the calls that were past
   the check when Revoke or RevokeRoot took the lock come to their end. *)
RevocationTakesEffect ==
  \A k \in Keys : rootRevoked \/ children[k].revoked ~> [](SignersOf(k) = {})

-----------------------------------------------------------------------------
(* A claim of a comment that the code does not keep. *)

(* holder.go:25: a holder binding, which names its credential by ID, binds a
   developer key to one credential. *)
BindsOneCredential ==
  \A binding \in HolderBinding, scope \in HolderScopes, c, d \in credentials :
    /\ Allows(binding, scope, CredentialID(c.request))
    /\ Allows(binding, scope, CredentialID(d.request))
    => c.request = d.request
=============================================================================
