----------------------------- MODULE SkillRegistry -----------------------------
(***************************************************************************)
(* contracts/src/SkillRegistry.sol.  A transaction is atomic and a revert  *)
(* leaves the state as it was, so each external function is one action     *)
(* whose guard is the conjunction of the function's require conditions.    *)
(* Zero arguments, which every function rejects, are not in the parameter  *)
(* sets.  keccak256 is injective on what it is given, so the identifier of *)
(* an attestation is the pair it hashes and the two hashed fields are read *)
(* off the identifier.  skillIds is a set: an array that repeats a skill   *)
(* finds the pointer it has just written and reverts.                      *)
(*                                                                         *)
(* An operator whose comment begins with "Faulty:" is no part of the       *)
(* specification: it is the next operator with a programming error, kept   *)
(* to confirm that the properties would notice that error.                 *)
(***************************************************************************)
EXTENDS Naturals, FiniteSets

CONSTANTS Addresses,    \* every account that can send a transaction
          Root,         \* rootIssuer, the account that deployed the contract
          Delegates,    \* accounts the root may delegate to
          Holders,      \* accounts that may be bound as a holder
          Subjects,     \* subject commitments
          Credentials,  \* credential commitments
          Provable,     \* commitments the deployed verifier accepts a proof for
          Evidence,     \* evidence bindings
          Programs,     \* program (policy) identifiers
          Skills,       \* skill identifiers
          Scopes,       \* members of AttestationScope in use
          Zero,         \* bytes32(0) and address(0)
          Expiries,     \* expiry times that may be given
          MaxTime       \* bound on block.timestamp

ASSUME RootAssumption == Root \in Addresses
ASSUME AccountAssumption == Delegates \subseteq Addresses /\ Holders \subseteq Addresses
ASSUME ProvableAssumption == Provable \subseteq Credentials
ASSUME ScopeAssumption == "GitHubDeployment" \in Scopes
ASSUME ZeroAssumption ==
  Zero \notin Addresses \cup Subjects \cup Evidence \cup Programs \cup Skills \cup (Subjects \X Credentials)
ASSUME TimeAssumption == MaxTime \in Nat \ {0}
ASSUME ExpiriesAssumption == Expiries \subseteq Nat \ {0}

VARIABLES now,                     \* block.timestamp
          delegatedIssuers,        \* address -> DelegatedIssuer
          attestations,            \* id -> Attestation
          holderBindings,          \* id -> HolderBinding
          activeSkillAttestation,  \* subject, skill -> id
          successorOf,             \* id -> id
          predecessorOf            \* id -> id

recordVars == <<attestations, activeSkillAttestation>>
linkVars == <<successorOf, predecessorOf>>
vars == <<now, delegatedIssuers, holderBindings, recordVars, linkVars>>

AttestationIds == Subjects \X Credentials
DeriveAttestationId(subject, credential) == <<subject, credential>>
SubjectOf(id) == id[1]
CredentialOf(id) == id[2]

Masks == (SUBSET Scopes) \ {{}}

DelegatedIssuer ==
  [scopeMask : SUBSET Scopes, active : BOOLEAN, subjectCommitment : Subjects \cup {Zero},
   skillId : Skills \cup {Zero}, programId : Programs \cup {Zero}, expiresAt : Expiries \cup {0}]

Attestation ==
  [evidenceBinding : Evidence \cup {Zero}, programId : Programs \cup {Zero},
   issuer : Addresses \cup {Zero}, scope : Scopes, issuedAt : 0..MaxTime,
   revokedAt : 0..MaxTime, active : BOOLEAN, skillIds : SUBSET Skills]

(* boundBy is the issuer that the event HolderBound of this binding names: it
   is in the log and not in the storage, and no function reads it. *)
HolderBinding ==
  [holder : Holders \cup {Zero}, expiresAt : Expiries \cup {0}, active : BOOLEAN,
   boundBy : Addresses \cup {Zero}]

(* What a mapping yields for a key that was never written. *)
NoDelegation ==
  [scopeMask |-> {}, active |-> FALSE, subjectCommitment |-> Zero,
   skillId |-> Zero, programId |-> Zero, expiresAt |-> 0]
NoAttestation ==
  [evidenceBinding |-> Zero, programId |-> Zero, issuer |-> Zero, scope |-> "GitHubDeployment",
   issuedAt |-> 0, revokedAt |-> 0, active |-> FALSE, skillIds |-> {}]
NoBinding == [holder |-> Zero, expiresAt |-> 0, active |-> FALSE, boundBy |-> Zero]

Init ==
  /\ now = 1
  /\ delegatedIssuers = [a \in Addresses |-> NoDelegation]
  /\ attestations = [id \in AttestationIds |-> NoAttestation]
  /\ holderBindings = [id \in AttestationIds |-> NoBinding]
  /\ activeSkillAttestation = [slot \in Subjects \X Skills |-> Zero]
  /\ successorOf = [id \in AttestationIds |-> Zero]
  /\ predecessorOf = [id \in AttestationIds |-> Zero]

-----------------------------------------------------------------------------
(* Conditions the functions share. *)

IsIssued(id) == attestations[id].issuedAt # 0
IsActive(id) == attestations[id].active

(* Faulty: any delegation in force will do, whatever its mask. *)
IsIssuer(issuer, scope) == issuer = Root \/ delegatedIssuers[issuer].active

IsScopedIssuer(issuer, scope) ==
  \/ issuer = Root
  \/ delegatedIssuers[issuer].active /\ scope \in delegatedIssuers[issuer].scopeMask

(* Faulty: the delegation still holds in the block at which it expires. *)
MatchesThroughExpiry(delegation, subject, program, skillIds) ==
  \/ delegation.subjectCommitment = Zero
  \/ /\ now <= delegation.expiresAt
     /\ delegation.subjectCommitment = subject
     /\ delegation.programId = program
     /\ skillIds = {delegation.skillId}

(* A delegation with a subject is good for one subject, program and skill,
   and until it expires; one without a subject is bound by its scope only. *)
DelegationMatches(delegation, subject, program, skillIds) ==
  \/ delegation.subjectCommitment = Zero
  \/ /\ now < delegation.expiresAt
     /\ delegation.subjectCommitment = subject
     /\ delegation.programId = program
     /\ skillIds = {delegation.skillId}

(* Faulty: lets the root, whom every scope check passes, mint. *)
MayAttestRootToo(sender, scope, subject, program, skillIds) ==
  /\ IsScopedIssuer(sender, scope)
  /\ DelegationMatches(delegatedIssuers[sender], subject, program, skillIds)

MayAttest(sender, scope, subject, program, skillIds) ==
  /\ sender # Root
  /\ IsScopedIssuer(sender, scope)
  /\ DelegationMatches(delegatedIssuers[sender], subject, program, skillIds)

(* The proof's first public input is the credential and the verifier accepts. *)
AcceptsProof(credential) == credential \in Provable

(* Faulty: records over an identifier that is already taken. *)
AlwaysFresh(id) == TRUE
IsFresh(id) == ~IsIssued(id)

MayManageHolder(sender, id) ==
  \/ sender = Root
  \/ sender = attestations[id].issuer /\ IsScopedIssuer(sender, attestations[id].scope)

BindingIsLive(id) == holderBindings[id].active /\ holderBindings[id].expiresAt > now

-----------------------------------------------------------------------------
(* Issuer delegation. *)

DelegateIssuer(sender, child, mask) ==
  /\ sender = Root
  /\ delegatedIssuers' =
       [delegatedIssuers EXCEPT ![child] =
          [scopeMask |-> mask, active |-> TRUE, subjectCommitment |-> Zero,
           skillId |-> Zero, programId |-> Zero, expiresAt |-> 0]]
  /\ UNCHANGED <<now, holderBindings, recordVars, linkVars>>

DelegateIssuerFor(sender, child, mask, subject, skill, program, expiry) ==
  /\ sender = Root
  /\ expiry > now
  /\ delegatedIssuers' =
       [delegatedIssuers EXCEPT ![child] =
          [scopeMask |-> mask, active |-> TRUE, subjectCommitment |-> subject,
           skillId |-> skill, programId |-> program, expiresAt |-> expiry]]
  /\ UNCHANGED <<now, holderBindings, recordVars, linkVars>>

Disabled(delegation) == [delegation EXCEPT !.active = FALSE, !.scopeMask = {}]

RevokeIssuer(sender, child) ==
  /\ sender = Root
  /\ delegatedIssuers' = [delegatedIssuers EXCEPT ![child] = Disabled(delegatedIssuers[child])]
  /\ UNCHANGED <<now, holderBindings, recordVars, linkVars>>

-----------------------------------------------------------------------------
(* The records and the index from subject and skill to the record. *)

NewRecord(evidence, program, issuer, scope, skillIds) ==
  [evidenceBinding |-> evidence, programId |-> program, issuer |-> issuer, scope |-> scope,
   issuedAt |-> now, revokedAt |-> 0, active |-> TRUE, skillIds |-> skillIds]

(* Faulty: forgets the flag. *)
StillActive(record) == [record EXCEPT !.revokedAt = now]
(* Faulty: forgets the date. *)
Undated(record) == [record EXCEPT !.active = FALSE]
(* Faulty: dates a retirement at the next block. *)
DatedAhead(record) == [record EXCEPT !.active = FALSE, !.revokedAt = now + 1]
Retired(record) == [record EXCEPT !.active = FALSE, !.revokedAt = now]

PointTo(subject, skillIds, id) ==
  [slot \in Subjects \X Skills |->
     IF slot \in {subject} \X skillIds THEN id ELSE activeSkillAttestation[slot]]

AttestWithProof(sender, subject, credential, evidence, program, scope, skillIds) ==
  LET id == DeriveAttestationId(subject, credential) IN
  /\ MayAttest(sender, scope, subject, program, skillIds)
  /\ skillIds # {}
  /\ AcceptsProof(credential)
  /\ IsFresh(id)
  /\ \A skill \in skillIds : activeSkillAttestation[<<subject, skill>>] = Zero
  /\ attestations' =
       [attestations EXCEPT ![id] = NewRecord(evidence, program, sender, scope, skillIds)]
  /\ activeSkillAttestation' = PointTo(subject, skillIds, id)
  /\ UNCHANGED <<now, delegatedIssuers, holderBindings, linkVars>>

SupersedeWithProof(sender, predecessor, credential, evidence, program) ==
  LET previous == attestations[predecessor]
      successor == DeriveAttestationId(SubjectOf(predecessor), credential) IN
  /\ sender = Root
  /\ IsIssued(predecessor)
  /\ IsActive(predecessor)
  /\ AcceptsProof(credential)
  /\ IsFresh(successor)
  /\ attestations' =
       [attestations EXCEPT
          ![successor] = NewRecord(evidence, program, Root, previous.scope, previous.skillIds),
          ![predecessor] = Retired(previous)]
  /\ activeSkillAttestation' = PointTo(SubjectOf(predecessor), previous.skillIds, successor)
  /\ successorOf' = [successorOf EXCEPT ![predecessor] = successor]
  /\ predecessorOf' = [predecessorOf EXCEPT ![successor] = predecessor]
  /\ UNCHANGED <<now, delegatedIssuers, holderBindings>>

(* Faulty: leaves the index as it is. *)
RevokeKeepingPointers(sender, id) ==
  /\ IsIssued(id)
  /\ IsActive(id)
  /\ sender \in {Root, attestations[id].issuer}
  /\ attestations' = [attestations EXCEPT ![id] = Retired(attestations[id])]
  /\ UNCHANGED <<now, delegatedIssuers, holderBindings, activeSkillAttestation, linkVars>>

(* Faulty: clears every pointer of the subject. *)
RevokeClearingAll(sender, id) ==
  /\ IsIssued(id)
  /\ IsActive(id)
  /\ sender \in {Root, attestations[id].issuer}
  /\ attestations' = [attestations EXCEPT ![id] = Retired(attestations[id])]
  /\ activeSkillAttestation' = PointTo(SubjectOf(id), Skills, Zero)
  /\ UNCHANGED <<now, delegatedIssuers, holderBindings, linkVars>>

(* Faulty: revokes what is already revoked. *)
RevokeAgain(sender, id) ==
  /\ IsIssued(id)
  /\ sender \in {Root, attestations[id].issuer}
  /\ attestations' = [attestations EXCEPT ![id] = Retired(attestations[id])]
  /\ UNCHANGED <<now, delegatedIssuers, holderBindings, activeSkillAttestation, linkVars>>

(* The recorded issuer may withdraw its record even when its own delegation
   is gone; a pointer is cleared only if it still names this record. *)
RevokeAttestation(sender, id) ==
  LET own == {skill \in attestations[id].skillIds :
                activeSkillAttestation[<<SubjectOf(id), skill>>] = id} IN
  /\ IsIssued(id)
  /\ IsActive(id)
  /\ sender \in {Root, attestations[id].issuer}
  /\ attestations' = [attestations EXCEPT ![id] = Retired(attestations[id])]
  /\ activeSkillAttestation' = PointTo(SubjectOf(id), own, Zero)
  /\ UNCHANGED <<now, delegatedIssuers, holderBindings, linkVars>>

-----------------------------------------------------------------------------
(* Holder keys. *)

NewBinding(holder, expiry, issuer) ==
  [holder |-> holder, expiresAt |-> expiry, active |-> TRUE, boundBy |-> issuer]

(* Faulty: lets every issuer in good standing bind a holder to any record. *)
BindByAnyIssuer(sender, id, holder, expiry) ==
  /\ IsActive(id)
  /\ expiry > now
  /\ IsScopedIssuer(sender, attestations[id].scope)
  /\ ~BindingIsLive(id)
  /\ holderBindings' = [holderBindings EXCEPT ![id] = NewBinding(holder, expiry, sender)]
  /\ UNCHANGED <<now, delegatedIssuers, recordVars, linkVars>>

BindHolder(sender, id, holder, expiry) ==
  /\ IsIssued(id)
  /\ IsActive(id)
  /\ expiry > now
  /\ MayManageHolder(sender, id)
  /\ ~BindingIsLive(id)
  /\ holderBindings' = [holderBindings EXCEPT ![id] = NewBinding(holder, expiry, sender)]
  /\ UNCHANGED <<now, delegatedIssuers, recordVars, linkVars>>

RevokeHolderBinding(sender, id) ==
  /\ IsIssued(id)
  /\ MayManageHolder(sender, id)
  /\ holderBindings[id].active
  /\ holderBindings' = [holderBindings EXCEPT ![id].active = FALSE]
  /\ UNCHANGED <<now, delegatedIssuers, recordVars, linkVars>>

-----------------------------------------------------------------------------
(* The views. *)

HasSkill(subject, skill) ==
  LET id == activeSkillAttestation[<<subject, skill>>] IN id # Zero /\ IsActive(id)

(* Faulty: takes a revoked record for the tip of its lineage. *)
IsLast(id) == successorOf[id] = Zero
IsCurrent(id) == IsActive(id) /\ successorOf[id] = Zero

VerifyAttestation(id, evidence) ==
  /\ IsActive(id)
  /\ attestations[id].evidenceBinding = evidence
  /\ IsScopedIssuer(attestations[id].issuer, attestations[id].scope)

(* Faulty: asks the binding alone. *)
IsBoundHolder(id, holder) == holderBindings[id].holder = holder /\ BindingIsLive(id)

IsHolderAuthorized(id, holder) ==
  /\ IsActive(id)
  /\ holderBindings[id].active
  /\ holderBindings[id].holder = holder
  /\ holderBindings[id].expiresAt > now

-----------------------------------------------------------------------------
(* Blocks carry growing timestamps; transactions of one block share one. *)
NextBlock ==
  /\ now < MaxTime
  /\ now' = now + 1
  /\ UNCHANGED <<delegatedIssuers, holderBindings, recordVars, linkVars>>

IssuerStep(sender) ==
  \E child \in Delegates :
    \/ \E mask \in Masks : DelegateIssuer(sender, child, mask)
    \/ \E mask \in Masks, subject \in Subjects, skill \in Skills, program \in Programs, expiry \in Expiries :
         DelegateIssuerFor(sender, child, mask, subject, skill, program, expiry)
    \/ RevokeIssuer(sender, child)

RecordStep(sender) ==
  \/ \E subject \in Subjects, credential \in Credentials, evidence \in Evidence, program \in Programs,
        scope \in Scopes, skillIds \in SUBSET Skills :
       AttestWithProof(sender, subject, credential, evidence, program, scope, skillIds)
  \/ \E id \in AttestationIds, credential \in Credentials, evidence \in Evidence, program \in Programs :
       SupersedeWithProof(sender, id, credential, evidence, program)
  \/ \E id \in AttestationIds : RevokeAttestation(sender, id)

HolderStep(sender) ==
  \E id \in AttestationIds :
    \/ \E holder \in Holders, expiry \in Expiries : BindHolder(sender, id, holder, expiry)
    \/ RevokeHolderBinding(sender, id)

Next ==
  \/ NextBlock
  \/ \E sender \in Addresses : IssuerStep(sender) \/ RecordStep(sender) \/ HolderStep(sender)

Spec == Init /\ [][Next]_vars

-----------------------------------------------------------------------------
(* Invariants. *)

TypeOK ==
  /\ now \in 1..MaxTime
  /\ delegatedIssuers \in [Addresses -> DelegatedIssuer]
  /\ attestations \in [AttestationIds -> Attestation]
  /\ holderBindings \in [AttestationIds -> HolderBinding]
  /\ activeSkillAttestation \in [Subjects \X Skills -> AttestationIds \cup {Zero}]
  /\ successorOf \in [AttestationIds -> AttestationIds \cup {Zero}]
  /\ predecessorOf \in [AttestationIds -> AttestationIds \cup {Zero}]

(* The index and the records agree in both directions, whatever the order of
   issuing, superseding and revoking: activeSkillAttestation points from a
   subject and skill to a record exactly if that record is active, is about
   that subject and lists that skill. *)
IndexAgreesWithRecords ==
  \A subject \in Subjects, skill \in Skills, id \in AttestationIds :
    activeSkillAttestation[<<subject, skill>>] = id
      <=> IsActive(id) /\ SubjectOf(id) = subject /\ skill \in attestations[id].skillIds

(* No subject ever has two active credentials for one skill
   (error SkillAlreadyActive). *)
OneActivePerSkill ==
  \A a, b \in AttestationIds :
    IsActive(a) /\ IsActive(b) /\ SubjectOf(a) = SubjectOf(b)
      /\ attestations[a].skillIds \cap attestations[b].skillIds # {} => a = b

(* The two link mappings are inverse, join records that are about the same
   subject, skills and scope, and date the retirement of the older record at
   the issue of the newer (supersedeWithProof). *)
LineageLinksAgree ==
  /\ \A a, b \in AttestationIds : successorOf[a] = b <=> predecessorOf[b] = a
  /\ \A a, b \in AttestationIds : successorOf[a] = b =>
       /\ IsIssued(a) /\ ~IsActive(a) /\ IsIssued(b)
       /\ SubjectOf(a) = SubjectOf(b)
       /\ attestations[a].skillIds = attestations[b].skillIds
       /\ attestations[a].scope = attestations[b].scope
       /\ attestations[a].revokedAt = attestations[b].issuedAt

(* Following successorOf from any record ends: no set of records is closed
   under it, even when a whole lineage is written in one block. *)
LineageEnds ==
  \A S \in (SUBSET AttestationIds) \ {{}} : \E id \in S : successorOf[id] \notin S

(* An identifier nobody has issued has no record, no holder and no links to
   inherit; an issued one was proved, its dates tell whether it is active, and
   it is the root's exactly if it continues a lineage: the root opens none
   (error RootUpdateRequiresPredecessor). *)
RecordIsWellFormed(id) ==
  IF IsIssued(id)
  THEN /\ CredentialOf(id) \in Provable
       /\ attestations[id].issuer = Root <=> predecessorOf[id] # Zero
       /\ attestations[id].skillIds # {}
       /\ attestations[id].issuedAt <= now
       /\ IsActive(id) <=> attestations[id].revokedAt = 0
       /\ ~IsActive(id) => attestations[id].revokedAt \in attestations[id].issuedAt..now
       /\ holderBindings[id].active => holderBindings[id].holder # Zero
  ELSE /\ attestations[id] = NoAttestation
       /\ holderBindings[id] = NoBinding
       /\ successorOf[id] = Zero /\ predecessorOf[id] = Zero
RecordsWellFormed == \A id \in AttestationIds : RecordIsWellFormed(id)

(* The public surfaces never contradict each other: what verifyAttestation
   confirms is current, a current record answers hasSkill for each of its
   skills, and hasSkill holds only with exactly one current record behind it. *)
QuerySurfacesAgree ==
  /\ \A id \in AttestationIds, evidence \in Evidence :
       VerifyAttestation(id, evidence) => IsCurrent(id)
  /\ \A id \in AttestationIds : IsCurrent(id) =>
       \A skill \in attestations[id].skillIds : HasSkill(SubjectOf(id), skill)
  /\ \A subject \in Subjects, skill \in Skills : HasSkill(subject, skill) =>
       Cardinality({id \in AttestationIds : IsCurrent(id) /\ SubjectOf(id) = subject
                                            /\ skill \in attestations[id].skillIds}) = 1

-----------------------------------------------------------------------------
(* Action properties. *)

(* A record, once written, only ever changes by being retired once; it never
   becomes active again and links, once set, are kept. *)
HistoryIsImmutable ==
  [][\A id \in AttestationIds :
       /\ IsIssued(id) =>
            \/ attestations'[id] = attestations[id]
            \/ IsActive(id) /\ attestations'[id] = Retired(attestations[id])
       /\ successorOf[id] # Zero => successorOf'[id] = successorOf[id]
       /\ predecessorOf'[id] # predecessorOf[id] => ~IsIssued(id)]_vars

(* A record is added under a delegation that is active and covers its scope,
   or by the root; a delegation that names a subject adds records for that
   subject, skill and program only, and before it expires (attestWithProof). *)
ConfinedIssuance ==
  [][\A id \in AttestationIds :
       ~IsIssued(id) /\ IsIssued(id)' /\ attestations'[id].issuer # Root =>
         LET record == attestations'[id]
             grant == delegatedIssuers[record.issuer] IN
         /\ grant.active /\ record.scope \in grant.scopeMask
         /\ grant.subjectCommitment # Zero =>
              /\ SubjectOf(id) = grant.subjectCommitment
              /\ record.skillIds = {grant.skillId}
              /\ record.programId = grant.programId
              /\ now < grant.expiresAt]_vars

(* A wallet becomes the accepted holder of a credential in one way only:
   bindHolder binds it to that very record, which is active and has no other
   live binding, and the sender is the root or is the record's own issuer and
   holds the scope then (error UnauthorizedHolderBindingIssuer).  Once the
   record is revoked or superseded, no wallet is its accepted holder. *)
HolderAuthorityConfined ==
  [][\A id \in AttestationIds, h \in Holders :
       /\ ~IsHolderAuthorized(id, h) /\ IsHolderAuthorized(id, h)' =>
            LET binder == holderBindings'[id].boundBy IN
            /\ IsActive(id) /\ ~BindingIsLive(id)
            /\ \/ binder = Root
               \/ /\ binder = attestations[id].issuer
                  /\ IsScopedIssuer(binder, attestations[id].scope)
            /\ UNCHANGED <<now, delegatedIssuers, recordVars, linkVars>>
       /\ (attestations'[id].revokedAt # 0 \/ successorOf'[id] # Zero) =>
            ~IsHolderAuthorized(id, h)']_vars

-----------------------------------------------------------------------------
(* The registry implements the ledger: the pointers are the live credentials
   and the issued identifiers are the used ones. *)
Ledger == INSTANCE CredentialLedger WITH
            Ids <- AttestationIds, None <- Zero,
            used <- {id \in AttestationIds : IsIssued(id)},
            live <- activeSkillAttestation
ImplementsLedger == Ledger!LedgerSpec

(* What the ledger promises for the future: once a credential was revoked or
   superseded no sequence of transactions makes its identifier answer for any
   subject and skill again (error DuplicateAttestation). *)
RetiredForGood == Ledger!RetiredForGood

-----------------------------------------------------------------------------
(* A claim of the documentation that the code does not keep. *)

(* contracts/README.md:40: a copy of a credential verifies no more after the
   child key or the proof is revoked. *)
RevokedStaysUnverifiable ==
  [][\A id \in AttestationIds, evidence \in Evidence :
       IsIssued(id) /\ ~VerifyAttestation(id, evidence) => ~VerifyAttestation(id, evidence)']_vars
=============================================================================
