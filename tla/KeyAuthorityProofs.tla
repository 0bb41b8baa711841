--------------------------- MODULE KeyAuthorityProofs ---------------------------
(***************************************************************************)
(* Theorems about KeyAuthority, for every number of goroutines, keys,      *)
(* learners and requests.                                                  *)
(***************************************************************************)
EXTENDS KeyAuthority, TLAPS

Stages == {"idle", "delegating", "inserting", "signing"}

(* A delegation is never the zero value of a missing key. *)
LEMMA NoSpecIsNone == NoSpec \notin DelegationSpec
BY EmptyAssumption DEF NoSpec, DelegationSpec

-----------------------------------------------------------------------------
(* Type correctness. *)

LEMMA InitType == Init => TypeOK
<1> SUFFICES ASSUME Init PROVE TypeOK
  OBVIOUS
<1>1. NoChild \in ChildKey
  BY DEF NoChild, ChildKey
<1>2. now \in Times
  BY TimeAssumption DEF Init, Times
<1>3. QED
  BY <1>1, <1>2 DEF Init, TypeOK

LEMMA ReturnType ==
  ASSUME TypeOK, NEW p \in Callers, Return(p)
  PROVE  /\ pc' \in [Callers -> Stages]
         /\ keyOf' \in [Callers -> Keys \cup {Empty}]
         /\ specOf' \in [Callers -> DelegationSpec \cup {NoSpec}]
         /\ requestOf' \in [Callers -> IssueRequest \cup {Empty}]
BY DEF TypeOK, Return, Stages

(* The calls of one goroutine. *)
CallerStep(p) ==
  \/ \E spec \in DelegationSpec : CallDelegate(p, spec)
  \/ \E k \in Keys, scope \in Scopes, request \in IssueRequest : CallIssue(p, k, scope, request)
  \/ CallStep(p)

(* What a goroutine that is inserting or signing holds. *)
HoldsArguments(p) ==
  /\ pc[p] \in {"idle", "delegating"} => keyOf[p] = Empty
  /\ pc[p] \in {"inserting", "signing"} => keyOf[p] \in Keys
  /\ pc[p] \in {"delegating", "inserting"} => specOf[p] \in DelegationSpec
  /\ pc[p] = "signing" => requestOf[p] \in IssueRequest

CallInv == TypeOK /\ \A p \in Callers : HoldsArguments(p)

LEMMA CallerStepType ==
  ASSUME CallInv, NEW p \in Callers, CallerStep(p)
  PROVE  TypeOK'
<1> USE DEF CallInv
<1>1. ASSUME NEW spec \in DelegationSpec, CallDelegate(p, spec)
      PROVE  TypeOK'
  BY <1>1 DEF TypeOK, CallDelegate
<1>2. ASSUME NEW k \in Keys, NEW scope \in Scopes, NEW request \in IssueRequest, CallIssue(p, k, scope, request)
      PROVE  TypeOK'
  BY <1>2 DEF TypeOK, CallIssue
<1>3. ASSUME NEW k \in Keys, ReadRoot(p, k)
      PROVE  TypeOK'
  BY <1>3 DEF TypeOK, ReadRoot
<1>4. CASE InsertChild(p)
  <2>1. [spec |-> specOf[p], revoked |-> FALSE] \in ChildKey
    BY DEF TypeOK, ChildKey
  <2>2. children' \in [Keys -> ChildKey]
    BY <1>4, <2>1 DEF TypeOK, InsertChild
  <2>3. QED
    BY <1>4, <2>2, ReturnType DEF TypeOK, InsertChild, Stages
<1>5. CASE Sign(p)
  <2>1. [key |-> keyOf[p], request |-> requestOf[p]] \in Credential
    BY <1>5 DEF Sign, HoldsArguments, Credential
  <2>2. QED
    BY <1>5, <2>1, ReturnType DEF TypeOK, Sign, Stages
<1>6. CASE Fail(p)
  BY <1>6, ReturnType DEF TypeOK, Fail, Stages
<1>7. QED
  BY <1>1, <1>2, <1>3, <1>4, <1>5, <1>6 DEF CallerStep, CallStep

LEMMA CallerStepArguments ==
  ASSUME CallInv, NEW p \in Callers, CallerStep(p), NEW q \in Callers
  PROVE  HoldsArguments(q)'
<1> USE DEF CallInv
<1>1. ASSUME NEW spec \in DelegationSpec, CallDelegate(p, spec)
      PROVE  HoldsArguments(q)'
  BY <1>1 DEF TypeOK, CallDelegate, HoldsArguments
<1>2. ASSUME NEW k \in Keys, NEW scope \in Scopes, NEW request \in IssueRequest, CallIssue(p, k, scope, request)
      PROVE  HoldsArguments(q)'
  BY <1>2 DEF TypeOK, CallIssue, HoldsArguments
<1>3. ASSUME NEW k \in Keys, ReadRoot(p, k)
      PROVE  HoldsArguments(q)'
  BY <1>3 DEF TypeOK, ReadRoot, HoldsArguments
<1>4. CASE InsertChild(p) \/ Sign(p) \/ Fail(p)
  BY <1>4 DEF TypeOK, InsertChild, Sign, Fail, Return, HoldsArguments
<1>5. QED
  BY <1>1, <1>2, <1>3, <1>4 DEF CallerStep, CallStep

(* The steps in which no goroutine is in a call. *)
LEMMA OtherStepType ==
  ASSUME CallInv, (\E k \in Keys : Revoke(k)) \/ RevokeRoot \/ ClockTick \/ UNCHANGED vars
  PROVE  CallInv'
<1>1. TypeOK' /\ UNCHANGED callVars
  <2>1. ASSUME NEW k \in Keys, Revoke(k)
        PROVE  TypeOK'
    <3>1. [children[k] EXCEPT !.revoked = TRUE] \in ChildKey
      BY DEF CallInv, TypeOK, ChildKey
    <3>2. children' \in [Keys -> ChildKey]
      BY <2>1, <3>1 DEF CallInv, TypeOK, Revoke
    <3>3. QED
      BY <2>1, <3>2 DEF CallInv, TypeOK, Revoke, callVars
  <2>2. CASE RevokeRoot \/ UNCHANGED vars
    BY <2>2 DEF CallInv, TypeOK, RevokeRoot, vars, callVars
  <2>3. CASE ClockTick
    <3>1. now' \in Times
      BY <2>3, TimeAssumption DEF CallInv, TypeOK, ClockTick, Times
    <3>2. QED
      BY <2>3, <3>1 DEF CallInv, TypeOK, ClockTick, callVars
  <2>4. QED
    BY <2>1, <2>2, <2>3 DEF Revoke, RevokeRoot, ClockTick, vars
<1>2. QED
  BY <1>1 DEF CallInv, HoldsArguments, callVars

LEMMA CallInductive == CallInv /\ [Next]_vars => CallInv'
BY CallerStepType, CallerStepArguments, OtherStepType DEF Next, CallerStep, CallInv

LEMMA CallInit == Init => CallInv
BY InitType DEF Init, CallInv, HoldsArguments

(* Every reachable state of the authority and its callers is well typed. *)
THEOREM TypeCorrect == Spec => []TypeOK
<1>1. CallInv => TypeOK
  BY DEF CallInv
<1>2. QED
  BY <1>1, CallInit, CallInductive, PTL DEF Spec

-----------------------------------------------------------------------------
(* The tree only grows. *)

(* A key that a caller is about to insert is not in the tree and nobody
   else's; one that a caller is about to sign with is in it. *)
KeysApart(p) ==
  /\ pc[p] = "inserting" => ~Exists(keyOf[p]) /\ \A q \in Callers \ {p} : keyOf[q] # keyOf[p]
  /\ pc[p] = "signing" => Exists(keyOf[p])

(* A key that is not in the tree carries no mark. *)
TreeInv ==
  /\ CallInv
  /\ \A k \in Keys : ~Exists(k) => children[k] = NoChild
  /\ \A p \in Callers : KeysApart(p)

(* What a step does to one key of the tree. *)
KeepsChild(k) ==
  /\ Exists(k) =>
       Exists(k)' /\ children'[k].spec = children[k].spec /\ (children[k].revoked => children'[k].revoked)
  /\ ~Exists(k) =>
       \/ children'[k] = children[k]
       \/ ~rootRevoked /\ \E p \in Callers : InsertChild(p) /\ keyOf[p] = k /\ Exists(k)'

LEMMA InsertEffect ==
  ASSUME TreeInv, NEW p \in Callers, InsertChild(p)
  PROVE  /\ keyOf[p] \in Keys /\ ~Exists(keyOf[p])
         /\ children' # children => ~rootRevoked /\ children'[keyOf[p]].spec # NoSpec
         /\ \A k \in Keys \ {keyOf[p]} : children'[k] = children[k]
         /\ pc'[p] = "idle" /\ keyOf'[p] = Empty
         /\ \A q \in Callers \ {p} : pc'[q] = pc[q] /\ keyOf'[q] = keyOf[q]
<1>1. keyOf[p] \in Keys /\ specOf[p] \in DelegationSpec /\ ~Exists(keyOf[p])
  BY DEF InsertChild, TreeInv, CallInv, HoldsArguments, KeysApart
<1>2. children' # children => ~rootRevoked /\ children'[keyOf[p]].spec = specOf[p]
  BY <1>1 DEF InsertChild, TreeInv, CallInv, TypeOK
<1>3. \A k \in Keys \ {keyOf[p]} : children'[k] = children[k]
  BY DEF InsertChild, TreeInv, CallInv, TypeOK
<1>4. /\ pc'[p] = "idle" /\ keyOf'[p] = Empty
      /\ \A q \in Callers \ {p} : pc'[q] = pc[q] /\ keyOf'[q] = keyOf[q]
  BY DEF InsertChild, Return, TreeInv, CallInv, TypeOK
<1>5. QED
  BY <1>1, <1>2, <1>3, <1>4, NoSpecIsNone

LEMMA StepKeepsChild ==
  ASSUME TreeInv, [Next]_vars, NEW k \in Keys
  PROVE  KeepsChild(k)
<1>1. children[k] \in ChildKey
  BY DEF TreeInv, CallInv, TypeOK
<1>2. ASSUME NEW p \in Callers, InsertChild(p)
      PROVE  KeepsChild(k)
  BY <1>2, InsertEffect DEF KeepsChild, Exists
<1>3. ASSUME NEW key \in Keys, Revoke(key)
      PROVE  KeepsChild(k)
  BY <1>1, <1>3 DEF Revoke, TreeInv, CallInv, TypeOK, KeepsChild, Exists, ChildKey
<1>4. CASE UNCHANGED children
  BY <1>4 DEF KeepsChild, Exists
<1>5. QED
  BY <1>2, <1>3, <1>4
  DEF Next, CallStep, CallDelegate, CallIssue, ReadRoot, Sign, Fail, RevokeRoot, ClockTick, vars

LEMMA CallerKeepsApart ==
  ASSUME TreeInv, NEW p \in Callers, CallerStep(p), NEW q \in Callers
  PROVE  KeysApart(q)'
<1> USE DEF TreeInv, CallInv
<1>1. ASSUME NEW spec \in DelegationSpec, CallDelegate(p, spec)
      PROVE  KeysApart(q)'
  BY <1>1 DEF CallDelegate, TypeOK, KeysApart, Exists
<1>2. ASSUME NEW k \in Keys, NEW scope \in Scopes, NEW request \in IssueRequest, CallIssue(p, k, scope, request)
      PROVE  KeysApart(q)'
  BY <1>2 DEF CallIssue, CanIssueFor, TypeOK, KeysApart, Exists
<1>3. ASSUME NEW k \in Keys, ReadRoot(p, k)
      PROVE  KeysApart(q)'
  BY <1>3 DEF ReadRoot, FreshKey, TypeOK, KeysApart, Exists
<1>4. CASE InsertChild(p)
  <2>1. CASE q = p
    BY <1>4, <2>1, InsertEffect DEF KeysApart
  <2>2. CASE q # p /\ pc[q] = "inserting"
    <3>1. keyOf[q] \in Keys /\ keyOf[q] # keyOf[p] /\ keyOf[q] # Empty
      BY <2>2, EmptyAssumption DEF HoldsArguments, KeysApart
    <3>2. QED
      BY <1>4, <2>2, <3>1, InsertEffect DEF KeysApart, Exists
  <2>3. CASE q # p /\ pc[q] = "signing"
    <3>1. keyOf[q] \in Keys /\ Exists(keyOf[q])
      BY <2>3 DEF HoldsArguments, KeysApart
    <3>2. QED
      BY <1>4, <2>3, <3>1, InsertEffect DEF KeysApart, Exists
  <2>4. CASE q # p /\ pc[q] \notin {"inserting", "signing"}
    BY <1>4, <2>4, InsertEffect DEF KeysApart
  <2>5. QED
    BY <2>1, <2>2, <2>3, <2>4
<1>5. CASE Sign(p) \/ Fail(p)
  <2>1. /\ UNCHANGED children
        /\ pc'[p] = "idle" /\ keyOf'[p] = Empty
        /\ \A r \in Callers \ {p} : pc'[r] = pc[r] /\ keyOf'[r] = keyOf[r]
    BY <1>5 DEF Sign, Fail, Return, TypeOK
  <2>2. pc[q] = "inserting" => keyOf[q] # Empty
    BY EmptyAssumption DEF HoldsArguments
  <2>3. QED
    BY <2>1, <2>2 DEF KeysApart, Exists
<1>6. QED
  BY <1>1, <1>2, <1>3, <1>4, <1>5 DEF CallerStep, CallStep

LEMMA TreeInductive == TreeInv /\ [Next]_vars => TreeInv'
<1> SUFFICES ASSUME TreeInv, [Next]_vars PROVE TreeInv'
  OBVIOUS
<1>1. CallInv' /\ \A k \in Keys : KeepsChild(k)
  BY CallInductive, StepKeepsChild DEF TreeInv
<1>2. ASSUME NEW k \in Keys, ~Exists(k)'
      PROVE  children'[k] = NoChild
  BY <1>1, <1>2 DEF TreeInv, KeepsChild
<1>3. ASSUME NEW p \in Callers
      PROVE  KeysApart(p)'
  <2>1. ASSUME NEW q \in Callers, CallerStep(q)
        PROVE  KeysApart(p)'
    BY <2>1, CallerKeepsApart
  <2>2. CASE UNCHANGED callVars
    <3>1. \A k \in Keys : Exists(k) => Exists(k)'
      BY <1>1 DEF KeepsChild
    <3>2. \A k \in Keys : ~Exists(k) => ~Exists(k)'
      <4>1. ASSUME NEW q \in Callers, InsertChild(q)
            PROVE  FALSE
        BY <2>2, <4>1, InsertEffect, EmptyAssumption DEF callVars
      <4>2. QED
        BY <1>1, <4>1 DEF KeepsChild, Exists
    <3>3. pc[p] \in {"inserting", "signing"} => keyOf[p] \in Keys
      BY DEF TreeInv, CallInv, HoldsArguments
    <3>4. keyOf' = keyOf /\ pc' = pc
      BY <2>2 DEF callVars
    <3>5. QED
      BY <3>1, <3>2, <3>3, <3>4 DEF TreeInv, KeysApart, Exists
  <2>3. QED
    BY <2>1, <2>2 DEF Next, CallerStep, Revoke, RevokeRoot, ClockTick, vars
<1>4. QED
  BY <1>1, <1>2, <1>3 DEF TreeInv

LEMMA TreeInit == Init => TreeInv
BY CallInit DEF Init, TreeInv, KeysApart

LEMMA TreeInvariant == Spec => []TreeInv
BY TreeInit, TreeInductive, PTL DEF Spec

(* The tree of a revoked root grows no further: the call that found the root
   available looks again before it inserts. *)
THEOREM TreeClosed == Spec => NoChildAfterRootRevoked
<1>1. TreeInv /\ [Next]_vars => [rootRevoked => \A k \in Keys : Exists(k)' => Exists(k)]_vars
  BY StepKeepsChild DEF KeepsChild, Exists
<1>2. QED
  BY <1>1, TreeInvariant, PTL DEF Spec, NoChildAfterRootRevoked

(* Revocation, of a child or of the root, is final, and nobody comes past the
   check afterwards. *)
THEOREM EntranceShut == Spec => RevocationShutsEntrance
<1>1. TreeInv /\ [Next]_vars =>
        [\A k \in Keys : rootRevoked \/ children[k].revoked =>
           /\ SignersOf(k)' \subseteq SignersOf(k)
           /\ rootRevoked' \/ children'[k].revoked]_vars
  <2> SUFFICES ASSUME TreeInv, [Next]_vars, NEW k \in Keys, rootRevoked \/ children[k].revoked
               PROVE  /\ SignersOf(k)' \subseteq SignersOf(k)
                      /\ rootRevoked' \/ children'[k].revoked
    OBVIOUS
  <2>1. rootRevoked => rootRevoked'
    BY DEF Next, CallStep, CallDelegate, ReadRoot, InsertChild, CallIssue, Sign, Fail,
           Revoke, RevokeRoot, ClockTick, vars
  <2>2. children[k].revoked => children'[k].revoked
    <3>1. children[k].revoked => Exists(k)
      BY DEF TreeInv, NoChild
    <3>2. QED
      BY <3>1, StepKeepsChild DEF KeepsChild
  <2>3. ASSUME NEW p \in Callers, CallerStep(p), NEW q \in SignersOf(k)'
        PROVE  q \in SignersOf(k)
    <3>1. q \in Callers /\ pc'[q] = "signing" /\ keyOf'[q] = k
      BY <2>3 DEF SignersOf
    <3>2. CASE \E spec \in DelegationSpec : CallDelegate(p, spec)
      BY <3>1, <3>2 DEF CallDelegate, SignersOf, TreeInv, CallInv, TypeOK
    <3>3. CASE \E key \in Keys, scope \in Scopes, request \in IssueRequest : CallIssue(p, key, scope, request)
      BY <3>1, <3>3 DEF CallIssue, CanIssueFor, SignersOf, TreeInv, CallInv, TypeOK
    <3>4. CASE \E key \in Keys : ReadRoot(p, key)
      BY <3>1, <3>4 DEF ReadRoot, SignersOf, TreeInv, CallInv, TypeOK
    <3>5. CASE InsertChild(p) \/ Sign(p) \/ Fail(p)
      BY <3>1, <3>5 DEF InsertChild, Sign, Fail, Return, SignersOf, TreeInv, CallInv, TypeOK
    <3>6. QED
      BY <2>3, <3>2, <3>3, <3>4, <3>5 DEF CallerStep, CallStep
  <2>4. SignersOf(k)' \subseteq SignersOf(k)
    BY <2>3 DEF Next, CallerStep, Revoke, RevokeRoot, ClockTick, SignersOf, callVars, vars
  <2>5. QED
    BY <2>1, <2>2, <2>4
<1>2. QED
  BY <1>1, TreeInvariant, PTL DEF Spec, RevocationShutsEntrance

-----------------------------------------------------------------------------
(* What is signed. *)

(* The request says of the learner what the delegation is for; one without a
   subject is good for nothing but an empty request. *)
Says(spec, request) ==
  IF IsBound(spec)
  THEN spec.subject = request.learner /\ spec.skill = request.skill /\ spec.policy = request.policy
  ELSE request.learner = Empty

Vouched(c) == Exists(c.key) /\ IsBound(children[c.key].spec) /\ Says(children[c.key].spec, c.request)

(* The decision is taken on the child as it is, and the child stays what it
   is until the signature is made and ever after. *)
SignedInv ==
  /\ TreeInv
  /\ \A p \in Callers : pc[p] = "signing" => Says(children[keyOf[p]].spec, requestOf[p])
  /\ \A c \in credentials : Vouched(c)

LEMMA SignedInductive == SignedInv /\ [Next]_vars => SignedInv'
<1> SUFFICES ASSUME SignedInv, [Next]_vars PROVE SignedInv'
  OBVIOUS
<1> USE DEF SignedInv
<1>1. \A k \in Keys : Exists(k) => Exists(k)' /\ children'[k].spec = children[k].spec
  BY StepKeepsChild DEF KeepsChild
<1>2. ASSUME NEW p \in Callers, pc'[p] = "signing"
      PROVE  Says(children'[keyOf'[p]].spec, requestOf'[p])
  <2>1. CASE pc[p] = "signing" /\ keyOf'[p] = keyOf[p] /\ requestOf'[p] = requestOf[p]
    BY <1>1, <2>1 DEF TreeInv, CallInv, HoldsArguments, KeysApart
  <2>2. ASSUME NEW k \in Keys, NEW scope \in Scopes, NEW request \in IssueRequest, CallIssue(p, k, scope, request)
        PROVE  Says(children'[keyOf'[p]].spec, requestOf'[p])
    <3>1. keyOf'[p] = k /\ requestOf'[p] = request /\ children' = children
      BY <2>2 DEF CallIssue, TreeInv, CallInv, TypeOK
    <3>2. Covers(children[k].spec, request)
      BY <2>2 DEF CallIssue, CanIssueFor
    <3>3. QED
      BY <3>1, <3>2 DEF Covers, Says
  <2>3. ASSUME NEW q \in Callers, CallerStep(q),
               \A k \in Keys, scope \in Scopes, request \in IssueRequest : ~CallIssue(p, k, scope, request)
        PROVE  pc[p] = "signing" /\ keyOf'[p] = keyOf[p] /\ requestOf'[p] = requestOf[p]
    <3>1. CASE \E spec \in DelegationSpec : CallDelegate(q, spec)
      BY <1>2, <3>1 DEF CallDelegate, TreeInv, CallInv, TypeOK
    <3>2. CASE \E k \in Keys, scope \in Scopes, request \in IssueRequest : CallIssue(q, k, scope, request)
      BY <1>2, <2>3, <3>2 DEF CallIssue, TreeInv, CallInv, TypeOK
    <3>3. CASE \E k \in Keys : ReadRoot(q, k)
      BY <1>2, <3>3 DEF ReadRoot, TreeInv, CallInv, TypeOK
    <3>4. CASE InsertChild(q) \/ Sign(q) \/ Fail(q)
      BY <1>2, <3>4 DEF InsertChild, Sign, Fail, Return, TreeInv, CallInv, TypeOK
    <3>5. QED
      BY <2>3, <3>1, <3>2, <3>3, <3>4 DEF CallerStep, CallStep
  <2>4. CASE UNCHANGED callVars
    BY <1>2, <2>1, <2>4 DEF callVars
  <2>5. QED
    BY <2>1, <2>2, <2>3, <2>4 DEF Next, CallerStep, Revoke, RevokeRoot, ClockTick, vars
<1>3. ASSUME NEW c \in credentials'
      PROVE  Vouched(c)'
  <2>1. CASE c \in credentials
    <3>1. c.key \in Keys
      BY <2>1 DEF TreeInv, CallInv, TypeOK, Credential
    <3>2. QED
      BY <1>1, <2>1, <3>1 DEF Vouched, Exists
  <2>2. ASSUME NEW p \in Callers, Sign(p), c = [key |-> keyOf[p], request |-> requestOf[p]]
        PROVE  Vouched(c)'
    <3>1. keyOf[p] \in Keys /\ Exists(keyOf[p]) /\ Says(children[keyOf[p]].spec, requestOf[p])
      BY <2>2 DEF Sign, TreeInv, CallInv, HoldsArguments, KeysApart
    <3>2. requestOf[p].learner # Empty /\ children' = children
      BY <2>2 DEF Sign, ValidRequest
    <3>3. c.key = keyOf[p] /\ c.request = requestOf[p]
      BY <2>2
    <3>4. QED
      BY <3>1, <3>2, <3>3 DEF Vouched, Says, Exists, IsBound
  <2>3. QED
    BY <2>1, <2>2
    DEF Next, CallStep, CallDelegate, CallIssue, ReadRoot, InsertChild, Sign, Fail,
        Revoke, RevokeRoot, ClockTick, vars
<1>4. TreeInv'
  BY TreeInductive
<1>5. QED
  BY <1>2, <1>3, <1>4

(* A document that verifies under a key is the one that was signed with it:
   the digest leaves nothing of the document out. *)
LEMMA VerifiedIsSigned ==
  ASSUME NEW document \in Documents, NEW k \in Keys, Verify(document, k)
  PROVE  \E c \in credentials :
           c.key = k /\ document = SignedDocument(c) /\ document.subject = c.request
<1>1. PICK c \in credentials : document.proofValue = SignedDocument(c).proofValue
  BY DEF Documents
<1>2. SignedDocument(c).proofValue =
        [key |-> c.key, digest |-> [ID |-> CredentialID(c.request), method |-> c.key, subject |-> c.request]]
  BY DEF SignedDocument, SignDigest, UnsignedDigest
<1>3. document.proofValue =
        [key |-> k, digest |-> [ID |-> document.ID, method |-> document.method, subject |-> document.subject]]
  BY DEF Verify, SignDigest, UnsignedDigest
<1>4. /\ c.key = k /\ document.ID = CredentialID(c.request)
      /\ document.method = c.key /\ document.subject = c.request
  <2>1. [ID |-> document.ID, method |-> document.method, subject |-> document.subject] =
          [ID |-> CredentialID(c.request), method |-> c.key, subject |-> c.request] /\ c.key = k
    BY <1>1, <1>2, <1>3
  <2>2. QED
    BY <2>1
<1>5. document =
        [ID |-> document.ID, method |-> document.method,
         subject |-> document.subject, proofValue |-> document.proofValue]
  BY DEF Documents
<1>6. SignedDocument(c) =
        [ID |-> CredentialID(c.request), method |-> c.key,
         subject |-> c.request, proofValue |-> SignedDocument(c).proofValue]
  BY DEF SignedDocument
<1>7. QED
  BY <1>1, <1>4, <1>5, <1>6

(* Whoever presents a document that verifies under a child's key presents what
   was signed with that key, for what the key was delegated for. *)
THEOREM VerifiedIsDelegated == Spec => []VerifiedWithinDelegation
<1>1. Init => SignedInv
  BY TreeInit DEF Init, SignedInv
<1>2. SignedInv => VerifiedWithinDelegation
  <2> SUFFICES ASSUME SignedInv, NEW document \in Documents, NEW k \in Keys, Verify(document, k)
               PROVE  /\ \E c \in credentials : c.key = k /\ document = SignedDocument(c)
                      /\ Exists(k) /\ IsBound(children[k].spec)
                      /\ document.subject.learner = children[k].spec.subject
                      /\ document.subject.skill = children[k].spec.skill
                      /\ document.subject.policy = children[k].spec.policy
    BY DEF VerifiedWithinDelegation
  <2>1. PICK c \in credentials : c.key = k /\ document = SignedDocument(c) /\ document.subject = c.request
    BY VerifiedIsSigned
  <2>2. Vouched(c)
    BY DEF SignedInv
  <2>3. QED
    BY <2>1, <2>2 DEF Vouched, Says
<1>3. QED
  BY <1>1, <1>2, SignedInductive, PTL DEF Spec

=============================================================================
