---------------------------- MODULE SkillMVPRegistry ----------------------------
(***************************************************************************)
(* contracts/src/SkillMVPRegistry.sol: one skill per record, no scope and  *)
(* no score proof, and a check of signatures made by the holder's wallet.  *)
(* As in SkillRegistry a transaction is one step, a revert no step, and an *)
(* identifier is the tuple that keccak256 hashes.                          *)
(*                                                                         *)
(* An operator whose comment begins with "Faulty:" is no part of the       *)
(* specification: it is the next operator with a programming error, kept   *)
(* to confirm that the properties would notice that error.                 *)
(***************************************************************************)
EXTENDS Naturals

CONSTANTS Addresses,   \* every account that can send a transaction
          Root,        \* rootIssuer
          Delegates,   \* accounts the root may delegate to
          Holders,     \* wallets of developers
          Subjects, Skills, Programs, Evidence,
          Projects,    \* project evidence bindings
          Zero,        \* bytes32(0) and address(0)
          Expiries,    \* expiry times that may be given
          MaxTime      \* bound on block.timestamp

ASSUME AccountAssumption ==
  Root \in Addresses /\ Delegates \subseteq Addresses /\ Holders \subseteq Addresses
ASSUME ZeroAssumption ==
  Zero \notin Addresses \cup Subjects \cup Skills \cup Programs \cup Evidence
                \cup (Subjects \X Skills \X Programs \X Evidence)
ASSUME TimeAssumption == MaxTime \in Nat \ {0}
ASSUME ExpiriesAssumption == Expiries \subseteq Nat \ {0}

VARIABLES now, delegatedIssuers, attestations, holderBindings,
          activeSkillAttestation, successorOf, predecessorOf,
          signatures   \* what holder wallets have signed, off chain

recordVars == <<attestations, activeSkillAttestation>>
linkVars == <<successorOf, predecessorOf>>
vars == <<now, delegatedIssuers, holderBindings, recordVars, linkVars, signatures>>

AttestationIds == Subjects \X Skills \X Programs \X Evidence
DeriveAttestationId(subject, skill, program, evidence) == <<subject, skill, program, evidence>>
SubjectOf(id) == id[1]
SkillOf(id) == id[2]
SlotOf(id) == <<id[1], id[2]>>
EvidenceOf(id) == id[4]

(* The fields that the identifier already tells are left out. *)
DelegatedIssuer ==
  [subjectCommitment : Subjects \cup {Zero}, skillId : Skills \cup {Zero},
   programId : Programs \cup {Zero}, expiresAt : Expiries \cup {0}, active : BOOLEAN]
Attestation ==
  [issuer : Addresses \cup {Zero}, issuedAt : 0..MaxTime, revokedAt : 0..MaxTime, active : BOOLEAN]
HolderBinding == [holder : Holders \cup {Zero}, expiresAt : Expiries \cup {0}, active : BOOLEAN]

NoDelegation ==
  [subjectCommitment |-> Zero, skillId |-> Zero, programId |-> Zero, expiresAt |-> 0, active |-> FALSE]
NoAttestation == [issuer |-> Zero, issuedAt |-> 0, revokedAt |-> 0, active |-> FALSE]
NoBinding == [holder |-> Zero, expiresAt |-> 0, active |-> FALSE]

Init ==
  /\ now = 1
  /\ delegatedIssuers = [a \in Addresses |-> NoDelegation]
  /\ attestations = [id \in AttestationIds |-> NoAttestation]
  /\ holderBindings = [id \in AttestationIds |-> NoBinding]
  /\ activeSkillAttestation = [slot \in Subjects \X Skills |-> Zero]
  /\ successorOf = [id \in AttestationIds |-> Zero]
  /\ predecessorOf = [id \in AttestationIds |-> Zero]
  /\ signatures = {}

IsIssued(id) == attestations[id].issuedAt # 0
IsActive(id) == attestations[id].active
MayManage(sender, id) == sender \in {Root, attestations[id].issuer}

-----------------------------------------------------------------------------
DelegateIssuerFor(sender, child, subject, skill, program, expiry) ==
  /\ sender = Root
  /\ expiry > now
  /\ delegatedIssuers' =
       [delegatedIssuers EXCEPT ![child] =
          [subjectCommitment |-> subject, skillId |-> skill, programId |-> program,
           expiresAt |-> expiry, active |-> TRUE]]
  /\ UNCHANGED <<now, holderBindings, recordVars, linkVars, signatures>>

RevokeIssuer(sender, child) ==
  /\ sender = Root
  /\ delegatedIssuers' = [delegatedIssuers EXCEPT ![child].active = FALSE]
  /\ UNCHANGED <<now, holderBindings, recordVars, linkVars, signatures>>

(* Faulty: forgets that delegations end. *)
IsDelegatedForever(issuer, subject, skill, program) ==
  LET delegation == delegatedIssuers[issuer] IN
  /\ delegation.active
  /\ delegation.subjectCommitment = subject
  /\ delegation.skillId = skill
  /\ delegation.programId = program

IsDelegated(issuer, subject, skill, program) ==
  LET delegation == delegatedIssuers[issuer] IN
  /\ delegation.active
  /\ delegation.expiresAt > now
  /\ delegation.subjectCommitment = subject
  /\ delegation.skillId = skill
  /\ delegation.programId = program

NewRecord(issuer) == [issuer |-> issuer, issuedAt |-> now, revokedAt |-> 0, active |-> TRUE]
(* Faulty: dates a retirement at the next block. *)
DatedAhead(record) == [record EXCEPT !.active = FALSE, !.revokedAt = now + 1]
Retired(record) == [record EXCEPT !.active = FALSE, !.revokedAt = now]

(* Faulty: records over an identifier that is already taken. *)
AlwaysFresh(id) == TRUE
IsFresh(id) == ~IsIssued(id)

(* Faulty: leaves the index as it is. *)
PointNowhere(slot, id) == activeSkillAttestation
PointTo(slot, id) == [activeSkillAttestation EXCEPT ![slot] = id]

(* Faulty: does not look at the record that the pointer already names. *)
AttestBesideActive(sender, subject, skill, program, evidence) ==
  LET id == DeriveAttestationId(subject, skill, program, evidence) IN
  /\ IsDelegated(sender, subject, skill, program)
  /\ IsFresh(id)
  /\ attestations' = [attestations EXCEPT ![id] = NewRecord(sender)]
  /\ activeSkillAttestation' = PointTo(SlotOf(id), id)
  /\ UNCHANGED <<now, delegatedIssuers, holderBindings, linkVars, signatures>>

Attest(sender, subject, skill, program, evidence) ==
  LET id == DeriveAttestationId(subject, skill, program, evidence) IN
  /\ IsDelegated(sender, subject, skill, program)
  /\ activeSkillAttestation[SlotOf(id)] = Zero
  /\ IsFresh(id)
  /\ attestations' = [attestations EXCEPT ![id] = NewRecord(sender)]
  /\ activeSkillAttestation' = PointTo(SlotOf(id), id)
  /\ UNCHANGED <<now, delegatedIssuers, holderBindings, linkVars, signatures>>

(* Faulty: does not ask whether the predecessor is still active. *)
MayRenewRetired(sender, predecessor) == sender = Root /\ IsIssued(predecessor)
MayRenew(sender, predecessor) == sender = Root /\ IsIssued(predecessor) /\ IsActive(predecessor)

Supersede(sender, predecessor, program, evidence) ==
  LET successor ==
        DeriveAttestationId(SubjectOf(predecessor), SkillOf(predecessor), program, evidence) IN
  /\ MayRenew(sender, predecessor)
  /\ IsFresh(successor)
  /\ attestations' = [attestations EXCEPT ![successor] = NewRecord(Root),
                                          ![predecessor] = Retired(attestations[predecessor])]
  /\ activeSkillAttestation' = PointTo(SlotOf(predecessor), successor)
  /\ successorOf' = [successorOf EXCEPT ![predecessor] = successor]
  /\ predecessorOf' = [predecessorOf EXCEPT ![successor] = predecessor]
  /\ UNCHANGED <<now, delegatedIssuers, holderBindings, signatures>>

RevokeAttestation(sender, id) ==
  LET pointer == activeSkillAttestation[SlotOf(id)] IN
  /\ IsIssued(id)
  /\ IsActive(id)
  /\ MayManage(sender, id)
  /\ attestations' = [attestations EXCEPT ![id] = Retired(attestations[id])]
  /\ activeSkillAttestation' = PointTo(SlotOf(id), IF pointer = id THEN Zero ELSE pointer)
  /\ UNCHANGED <<now, delegatedIssuers, holderBindings, linkVars, signatures>>

-----------------------------------------------------------------------------
BindingIsLive(id) == holderBindings[id].active /\ holderBindings[id].expiresAt > now

(* Faulty: takes the zero address for a wallet. *)
BindAnyone(sender, id, holder, expiry) ==
  /\ IsIssued(id)
  /\ IsActive(id)
  /\ expiry > now
  /\ MayManage(sender, id)
  /\ ~BindingIsLive(id)
  /\ holderBindings' =
       [holderBindings EXCEPT ![id] = [holder |-> holder, expiresAt |-> expiry, active |-> TRUE]]
  /\ UNCHANGED <<now, delegatedIssuers, recordVars, linkVars, signatures>>

(* Unlike SkillRegistry, the recorded issuer may still do this after its
   delegation was revoked. *)
BindHolder(sender, id, holder, expiry) ==
  /\ IsIssued(id)
  /\ IsActive(id)
  /\ holder # Zero
  /\ expiry > now
  /\ MayManage(sender, id)
  /\ ~BindingIsLive(id)
  /\ holderBindings' =
       [holderBindings EXCEPT ![id] = [holder |-> holder, expiresAt |-> expiry, active |-> TRUE]]
  /\ UNCHANGED <<now, delegatedIssuers, recordVars, linkVars, signatures>>

RevokeHolderBinding(sender, id) ==
  /\ IsIssued(id)
  /\ MayManage(sender, id)
  /\ holderBindings' = [holderBindings EXCEPT ![id].active = FALSE]
  /\ UNCHANGED <<now, delegatedIssuers, recordVars, linkVars, signatures>>

(* A wallet signs holderProjectDigest, which names chain, contract, record
   and project but no time, whenever its owner likes. *)
SignProject(holder, id, project) ==
  /\ signatures' = signatures \cup {[signer |-> holder, id |-> id, project |-> project]}
  /\ UNCHANGED <<now, delegatedIssuers, holderBindings, recordVars, linkVars>>

-----------------------------------------------------------------------------
HasSkill(subject, skill) ==
  LET id == activeSkillAttestation[<<subject, skill>>] IN id # Zero /\ IsActive(id)

IsCurrent(id) == IsActive(id) /\ successorOf[id] = Zero

IsHolderAuthorized(id, holder) ==
  IsActive(id) /\ BindingIsLive(id) /\ holder = holderBindings[id].holder

(* Faulty: takes any wallet's signature, if only some wallet is bound. *)
VerifyAnySigner(id, recovered) == IsActive(id) /\ BindingIsLive(id) /\ recovered # Zero

(* Faulty: asks for the binding but not for the credential. *)
VerifyBindingOnly(id, recovered) == BindingIsLive(id) /\ recovered = holderBindings[id].holder

(* _recover yields the signer of the digest, and zero for what is no
   signature at all: recovered is one of these. *)
VerifyHolderProject(id, recovered) ==
  IsActive(id) /\ BindingIsLive(id) /\ recovered = holderBindings[id].holder

NextBlock ==
  /\ now < MaxTime
  /\ now' = now + 1
  /\ UNCHANGED <<delegatedIssuers, holderBindings, recordVars, linkVars, signatures>>

IssuerStep(sender) ==
  \E child \in Delegates :
    \/ \E subject \in Subjects, skill \in Skills, program \in Programs, expiry \in Expiries :
         DelegateIssuerFor(sender, child, subject, skill, program, expiry)
    \/ RevokeIssuer(sender, child)

RecordStep(sender) ==
  \/ \E subject \in Subjects, skill \in Skills, program \in Programs, evidence \in Evidence :
       Attest(sender, subject, skill, program, evidence)
  \/ \E id \in AttestationIds, program \in Programs, evidence \in Evidence :
       Supersede(sender, id, program, evidence)
  \/ \E id \in AttestationIds : RevokeAttestation(sender, id)

HolderStep(sender) ==
  \E id \in AttestationIds :
    \/ \E holder \in Holders \cup {Zero}, expiry \in Expiries : BindHolder(sender, id, holder, expiry)
    \/ RevokeHolderBinding(sender, id)

Next ==
  \/ NextBlock
  \/ \E sender \in Addresses : IssuerStep(sender) \/ RecordStep(sender) \/ HolderStep(sender)
  \/ \E holder \in Holders, id \in AttestationIds, project \in Projects : SignProject(holder, id, project)

Spec == Init /\ [][Next]_vars

-----------------------------------------------------------------------------
TypeOK ==
  /\ now \in 1..MaxTime
  /\ delegatedIssuers \in [Addresses -> DelegatedIssuer]
  /\ attestations \in [AttestationIds -> Attestation]
  /\ holderBindings \in [AttestationIds -> HolderBinding]
  /\ activeSkillAttestation \in [Subjects \X Skills -> AttestationIds \cup {Zero}]
  /\ successorOf \in [AttestationIds -> AttestationIds \cup {Zero}]
  /\ predecessorOf \in [AttestationIds -> AttestationIds \cup {Zero}]
  /\ signatures \subseteq [signer : Holders, id : AttestationIds, project : Projects]

(* The pointer of a subject and skill names exactly the active record about
   them: currentAttestationId and the records never disagree. *)
IndexAgreesWithRecords ==
  \A id \in AttestationIds : activeSkillAttestation[SlotOf(id)] = id <=> IsActive(id)

(* The links are inverse, never close a circle, and date the retirement of
   the older record at the issue of the newer, which the root issued. *)
LineageWellFormed ==
  /\ \A a, b \in AttestationIds : successorOf[a] = b <=> predecessorOf[b] = a
  /\ \A a, b \in AttestationIds : successorOf[a] = b =>
       /\ IsIssued(a) /\ ~IsActive(a) /\ SlotOf(a) = SlotOf(b)
       /\ attestations[b].issuer = Root
       /\ attestations[a].revokedAt = attestations[b].issuedAt
  /\ \A S \in (SUBSET AttestationIds) \ {{}} : \E id \in S : successorOf[id] \notin S

Confined(id) ==
  ~IsIssued(id) /\ IsIssued(id)' =>
    LET issuer == attestations'[id].issuer IN
    \/ \E old \in AttestationIds : IsActive(old) /\ ~IsActive(old)' /\ successorOf'[old] = id
    \/ /\ delegatedIssuers[issuer].active /\ now < delegatedIssuers[issuer].expiresAt
       /\ DeriveAttestationId(delegatedIssuers[issuer].subjectCommitment,
            delegatedIssuers[issuer].skillId, delegatedIssuers[issuer].programId, EvidenceOf(id)) = id

(* A record is added by the root, for a record it retires in the same step,
   or under a delegation for its very subject, skill and program that has not
   expired (_requireDelegatedIssuer). *)
ConfinedIssuance == [][\A id \in AttestationIds : Confined(id)]_vars

(* The registry implements the ledger of whole credentials. *)
Ledger == INSTANCE CredentialLedger WITH
            Ids <- AttestationIds, None <- Zero,
            used <- {id \in AttestationIds : IsIssued(id)},
            live <- activeSkillAttestation
ImplementsLedger == Ledger!LedgerSpec

=============================================================================
