------------------------- MODULE SkillMVPRegistryProofs -------------------------
(***************************************************************************)
(* Theorems about SkillMVPRegistry, for every number of accounts,          *)
(* subjects, skills, programs and evidence bindings.  The lemmas are about *)
(* any step of the registry, so that a system which contains it can cite   *)
(* them.                                                                   *)
(***************************************************************************)
EXTENDS SkillMVPRegistry, TLAPS

LEMMA ExpiryIsNat == \A expiry \in Expiries \cup {0} : expiry \in Nat
BY ExpiriesAssumption

(* Identifiers and the slots of the index they belong to. *)
LEMMA DerivedIds ==
  ASSUME NEW subject \in Subjects, NEW skill \in Skills, NEW program \in Programs, NEW evidence \in Evidence
  PROVE  /\ DeriveAttestationId(subject, skill, program, evidence) \in AttestationIds
         /\ SlotOf(DeriveAttestationId(subject, skill, program, evidence)) = <<subject, skill>>
         /\ EvidenceOf(DeriveAttestationId(subject, skill, program, evidence)) = evidence
BY DEF DeriveAttestationId, AttestationIds, SlotOf, EvidenceOf

LEMMA IdParts ==
  ASSUME NEW id \in AttestationIds
  PROVE  /\ SubjectOf(id) \in Subjects /\ SkillOf(id) \in Skills
         /\ SlotOf(id) = <<SubjectOf(id), SkillOf(id)>>
         /\ SlotOf(id) \in Subjects \X Skills
BY DEF AttestationIds, SubjectOf, SkillOf, SlotOf

LEMMA ZeroIsNoId == Zero \notin AttestationIds
BY ZeroAssumption DEF AttestationIds

LEMMA RecordTypes ==
  ASSUME TypeOK
  PROVE  /\ \A issuer \in Addresses : NewRecord(issuer) \in Attestation
         /\ \A record \in Attestation : Retired(record) \in Attestation
<1>1. now \in 0..MaxTime /\ 0 \in 0..MaxTime
  BY TimeAssumption DEF TypeOK
<1>2. QED
  BY <1>1 DEF NewRecord, Retired, Attestation

(* What a retirement changes and what it leaves. *)
LEMMA RetiredFields ==
  ASSUME NEW record \in Attestation
  PROVE  /\ Retired(record).issuer = record.issuer /\ Retired(record).issuedAt = record.issuedAt
         /\ Retired(record).revokedAt = now /\ ~Retired(record).active
BY DEF Retired, Attestation

-----------------------------------------------------------------------------
(* Type correctness. *)

LEMMA InitType == Init => TypeOK
BY AccountAssumption, TimeAssumption
DEF Init, TypeOK, NoDelegation, NoAttestation, NoBinding, DelegatedIssuer, Attestation, HolderBinding

LEMMA IssuerStepType ==
  ASSUME TypeOK, NEW sender \in Addresses, IssuerStep(sender)
  PROVE  TypeOK'
<1>1. PICK child \in Delegates :
         \/ \E subject \in Subjects, skill \in Skills, program \in Programs, expiry \in Expiries :
              DelegateIssuerFor(sender, child, subject, skill, program, expiry)
         \/ RevokeIssuer(sender, child)
  BY DEF IssuerStep
<1>2. child \in Addresses
  BY AccountAssumption
<1>3. UNCHANGED <<now, holderBindings, recordVars, linkVars, signatures>>
  BY <1>1 DEF DelegateIssuerFor, RevokeIssuer
<1>4. delegatedIssuers' \in [Addresses -> DelegatedIssuer]
  <2>1. ASSUME NEW subject \in Subjects, NEW skill \in Skills, NEW program \in Programs,
               NEW expiry \in Expiries, DelegateIssuerFor(sender, child, subject, skill, program, expiry)
        PROVE  delegatedIssuers' \in [Addresses -> DelegatedIssuer]
    BY <1>2, <2>1 DEF TypeOK, DelegateIssuerFor, DelegatedIssuer
  <2>2. CASE RevokeIssuer(sender, child)
    BY <1>2, <2>2 DEF TypeOK, RevokeIssuer, DelegatedIssuer
  <2>3. QED
    BY <1>1, <2>1, <2>2
<1>5. QED
  BY <1>3, <1>4 DEF TypeOK, recordVars, linkVars

LEMMA RecordStepType ==
  ASSUME TypeOK, NEW sender \in Addresses, RecordStep(sender)
  PROVE  TypeOK'
<1>1. ASSUME NEW subject \in Subjects, NEW skill \in Skills, NEW program \in Programs,
             NEW evidence \in Evidence, Attest(sender, subject, skill, program, evidence)
      PROVE  TypeOK'
  <2> DEFINE id == DeriveAttestationId(subject, skill, program, evidence)
  <2>1. id \in AttestationIds /\ SlotOf(id) \in Subjects \X Skills /\ NewRecord(sender) \in Attestation
    BY DerivedIds, RecordTypes
  <2>2. attestations' \in [AttestationIds -> Attestation]
    BY <1>1, <2>1 DEF Attest, TypeOK
  <2>3. activeSkillAttestation' \in [Subjects \X Skills -> AttestationIds \cup {Zero}]
    BY <1>1, <2>1 DEF Attest, TypeOK, PointTo
  <2>4. QED
    BY <1>1, <2>2, <2>3 DEF Attest, TypeOK, linkVars
<1>2. ASSUME NEW old \in AttestationIds, NEW program \in Programs, NEW evidence \in Evidence,
             Supersede(sender, old, program, evidence)
      PROVE  TypeOK'
  <2> DEFINE new == DeriveAttestationId(SubjectOf(old), SkillOf(old), program, evidence)
  <2>1. new \in AttestationIds /\ SlotOf(old) \in Subjects \X Skills
    BY IdParts, DerivedIds
  <2>2. NewRecord(Root) \in Attestation /\ Retired(attestations[old]) \in Attestation
    BY RecordTypes, AccountAssumption DEF TypeOK
  <2>3. attestations' \in [AttestationIds -> Attestation]
    BY <1>2, <2>2 DEF Supersede, TypeOK
  <2>4. activeSkillAttestation' \in [Subjects \X Skills -> AttestationIds \cup {Zero}]
    BY <1>2, <2>1 DEF Supersede, TypeOK, PointTo
  <2>5. /\ successorOf' \in [AttestationIds -> AttestationIds \cup {Zero}]
        /\ predecessorOf' \in [AttestationIds -> AttestationIds \cup {Zero}]
    BY <1>2, <2>1 DEF Supersede, TypeOK
  <2>6. QED
    BY <1>2, <2>3, <2>4, <2>5 DEF Supersede, TypeOK
<1>3. ASSUME NEW id \in AttestationIds, RevokeAttestation(sender, id)
      PROVE  TypeOK'
  <2>1. Retired(attestations[id]) \in Attestation /\ SlotOf(id) \in Subjects \X Skills
    BY RecordTypes, IdParts DEF TypeOK
  <2>2. attestations' \in [AttestationIds -> Attestation]
    BY <1>3, <2>1 DEF RevokeAttestation, TypeOK
  <2>3. activeSkillAttestation' \in [Subjects \X Skills -> AttestationIds \cup {Zero}]
    BY <1>3, <2>1 DEF RevokeAttestation, TypeOK, PointTo
  <2>4. QED
    BY <1>3, <2>2, <2>3 DEF RevokeAttestation, TypeOK, linkVars
<1>4. QED
  BY <1>1, <1>2, <1>3 DEF RecordStep

LEMMA HolderStepType ==
  ASSUME TypeOK, NEW sender \in Addresses, HolderStep(sender)
  PROVE  TypeOK'
<1>1. PICK id \in AttestationIds :
         \/ \E holder \in Holders \cup {Zero}, expiry \in Expiries : BindHolder(sender, id, holder, expiry)
         \/ RevokeHolderBinding(sender, id)
  BY DEF HolderStep
<1>2. holderBindings' \in [AttestationIds -> HolderBinding]
  <2>1. ASSUME NEW holder \in Holders \cup {Zero}, NEW expiry \in Expiries, BindHolder(sender, id, holder, expiry)
        PROVE  holderBindings' \in [AttestationIds -> HolderBinding]
    BY <2>1 DEF TypeOK, BindHolder, HolderBinding
  <2>2. CASE RevokeHolderBinding(sender, id)
    BY <2>2 DEF TypeOK, RevokeHolderBinding, HolderBinding
  <2>3. QED
    BY <1>1, <2>1, <2>2
<1>3. UNCHANGED <<now, delegatedIssuers, recordVars, linkVars, signatures>>
  BY <1>1 DEF BindHolder, RevokeHolderBinding
<1>4. QED
  BY <1>2, <1>3 DEF TypeOK, recordVars, linkVars

LEMMA SignType ==
  ASSUME TypeOK, NEW holder \in Holders, NEW id \in AttestationIds, NEW project \in Projects,
         SignProject(holder, id, project)
  PROVE  TypeOK'
BY DEF TypeOK, SignProject, recordVars, linkVars

LEMMA NextType == TypeOK /\ [Next]_vars => TypeOK'
<1> SUFFICES ASSUME TypeOK, [Next]_vars PROVE TypeOK'
  OBVIOUS
<1>1. CASE NextBlock
  BY <1>1, TimeAssumption DEF TypeOK, NextBlock, recordVars, linkVars
<1>2. CASE UNCHANGED vars
  BY <1>2 DEF TypeOK, vars, recordVars, linkVars
<1>3. QED
  BY <1>1, <1>2, IssuerStepType, RecordStepType, HolderStepType, SignType DEF Next

-----------------------------------------------------------------------------
(* What the three record functions do, to one record at a time. *)

(* An identifier that was never issued has the record nobody wrote. *)
UnissuedIsBlank == \A id \in AttestationIds : ~IsIssued(id) => attestations[id] = NoAttestation

(* A pointer names a record of the very slot that holds it. *)
PointsHome ==
  \A slot \in Subjects \X Skills :
    activeSkillAttestation[slot] # Zero => SlotOf(activeSkillAttestation[slot]) = slot

IndexInv == TypeOK /\ UnissuedIsBlank /\ PointsHome /\ IndexAgreesWithRecords

LEMMA ActiveIsIssued ==
  ASSUME IndexInv, NEW id \in AttestationIds, IsActive(id)
  PROVE  IsIssued(id)
BY DEF IndexInv, UnissuedIsBlank, NoAttestation, IsActive

LEMMA AttestEffect ==
  ASSUME IndexInv, NEW sender \in Addresses,
         NEW subject \in Subjects, NEW skill \in Skills, NEW program \in Programs, NEW evidence \in Evidence,
         Attest(sender, subject, skill, program, evidence),
         NEW new, new = DeriveAttestationId(subject, skill, program, evidence)
  PROVE  /\ new \in AttestationIds /\ ~IsIssued(new)
         /\ \A id \in AttestationIds : SlotOf(id) = SlotOf(new) => ~IsActive(id)
         /\ attestations'[new] = NewRecord(sender)
         /\ IsIssued(new)' /\ IsActive(new)' /\ attestations'[new].issuer = sender
         /\ \A id \in AttestationIds : id # new => attestations'[id] = attestations[id]
         /\ \A id \in AttestationIds : activeSkillAttestation'[SlotOf(id)] =
              IF SlotOf(id) = SlotOf(new) THEN new ELSE activeSkillAttestation[SlotOf(id)]
         /\ UNCHANGED <<now, linkVars>>
<1>1. new \in AttestationIds /\ SlotOf(new) \in Subjects \X Skills
  BY DerivedIds
<1>2. ~IsIssued(new) /\ UNCHANGED <<now, linkVars>>
  BY DEF Attest, IsFresh
<1>3. \A id \in AttestationIds : SlotOf(id) = SlotOf(new) => ~IsActive(id)
  BY ZeroIsNoId DEF Attest, IndexInv, IndexAgreesWithRecords
<1>4. attestations'[new] = NewRecord(sender)
  BY <1>1 DEF Attest, IndexInv, TypeOK
<1>5. \A id \in AttestationIds : id # new => attestations'[id] = attestations[id]
  BY <1>1 DEF Attest, IndexInv, TypeOK
<1>6. \A id \in AttestationIds : activeSkillAttestation'[SlotOf(id)] =
        IF SlotOf(id) = SlotOf(new) THEN new ELSE activeSkillAttestation[SlotOf(id)]
  BY <1>1, IdParts DEF Attest, PointTo, IndexInv, TypeOK
<1>7. IsIssued(new)' /\ IsActive(new)' /\ attestations'[new].issuer = sender
  BY <1>4 DEF NewRecord, IsIssued, IsActive, IndexInv, TypeOK
<1>8. QED
  BY <1>1, <1>2, <1>3, <1>4, <1>5, <1>6, <1>7

LEMMA SupersedeEffect ==
  ASSUME IndexInv, NEW sender \in Addresses,
         NEW old \in AttestationIds, NEW program \in Programs, NEW evidence \in Evidence,
         Supersede(sender, old, program, evidence),
         NEW new, new = DeriveAttestationId(SubjectOf(old), SkillOf(old), program, evidence)
  PROVE  /\ new \in AttestationIds /\ SlotOf(new) = SlotOf(old) /\ new # old
         /\ IsIssued(old) /\ IsActive(old) /\ ~IsIssued(new) /\ ~IsActive(new)
         /\ attestations'[old] = Retired(attestations[old])
         /\ IsIssued(old)' /\ ~IsActive(old)' /\ attestations'[old].issuer = attestations[old].issuer
         /\ attestations'[old].revokedAt = now
         /\ IsIssued(new)' /\ IsActive(new)'
         /\ attestations'[new].issuer = Root /\ attestations'[new].issuedAt = now
         /\ \A id \in AttestationIds \ {old, new} : attestations'[id] = attestations[id]
         /\ \A id \in AttestationIds : activeSkillAttestation'[SlotOf(id)] =
              IF SlotOf(id) = SlotOf(old) THEN new ELSE activeSkillAttestation[SlotOf(id)]
         /\ \A id \in AttestationIds :
              /\ successorOf'[id] = IF id = old THEN new ELSE successorOf[id]
              /\ predecessorOf'[id] = IF id = new THEN old ELSE predecessorOf[id]
<1>1. /\ new \in AttestationIds /\ SlotOf(new) = SlotOf(old)
      /\ SlotOf(old) \in Subjects \X Skills
  BY IdParts, DerivedIds
<1>2. IsIssued(old) /\ IsActive(old) /\ ~IsIssued(new)
  BY DEF Supersede, MayRenew, IsFresh
<1>3. new # old /\ ~IsActive(new)
  BY <1>1, <1>2, ActiveIsIssued
<1>4. attestations' = [attestations EXCEPT ![new] = NewRecord(Root), ![old] = Retired(attestations[old])]
  BY DEF Supersede
<1>5. /\ attestations'[old] = Retired(attestations[old]) /\ attestations'[new] = NewRecord(Root)
      /\ \A id \in AttestationIds \ {old, new} : attestations'[id] = attestations[id]
  BY <1>1, <1>3, <1>4 DEF IndexInv, TypeOK
<1>6. attestations[old] \in Attestation /\ now # 0
  BY DEF IndexInv, TypeOK
<1>7. /\ IsIssued(old)' /\ ~IsActive(old)' /\ attestations'[old].issuer = attestations[old].issuer
      /\ attestations'[old].revokedAt = now
  BY <1>2, <1>5, <1>6, RetiredFields DEF IsIssued, IsActive
<1>8. /\ IsIssued(new)' /\ IsActive(new)'
      /\ attestations'[new].issuer = Root /\ attestations'[new].issuedAt = now
  BY <1>5, <1>6 DEF NewRecord, IsIssued, IsActive
<1>9. \A id \in AttestationIds : activeSkillAttestation'[SlotOf(id)] =
        IF SlotOf(id) = SlotOf(old) THEN new ELSE activeSkillAttestation[SlotOf(id)]
  BY <1>1, IdParts DEF Supersede, PointTo, IndexInv, TypeOK
<1>10. \A id \in AttestationIds :
         /\ successorOf'[id] = IF id = old THEN new ELSE successorOf[id]
         /\ predecessorOf'[id] = IF id = new THEN old ELSE predecessorOf[id]
  BY <1>1 DEF Supersede, IndexInv, TypeOK
<1>11. QED
  BY <1>1, <1>2, <1>3, <1>5, <1>7, <1>8, <1>9, <1>10

LEMMA RevokeEffect ==
  ASSUME IndexInv, NEW sender \in Addresses, NEW old \in AttestationIds, RevokeAttestation(sender, old)
  PROVE  /\ IsIssued(old) /\ IsActive(old)
         /\ attestations'[old] = Retired(attestations[old])
         /\ IsIssued(old)' /\ ~IsActive(old)' /\ attestations'[old].issuer = attestations[old].issuer
         /\ \A id \in AttestationIds : id # old => attestations'[id] = attestations[id]
         /\ \A id \in AttestationIds : activeSkillAttestation'[SlotOf(id)] =
              IF SlotOf(id) = SlotOf(old) THEN Zero ELSE activeSkillAttestation[SlotOf(id)]
         /\ UNCHANGED <<now, linkVars>>
<1>1. IsIssued(old) /\ IsActive(old) /\ UNCHANGED <<now, linkVars>>
  BY DEF RevokeAttestation
<1>2. /\ attestations'[old] = Retired(attestations[old])
      /\ \A id \in AttestationIds : id # old => attestations'[id] = attestations[id]
  BY DEF RevokeAttestation, IndexInv, TypeOK
<1>3. attestations[old] \in Attestation
  BY DEF IndexInv, TypeOK
<1>4. IsIssued(old)' /\ ~IsActive(old)' /\ attestations'[old].issuer = attestations[old].issuer
  BY <1>1, <1>2, <1>3, RetiredFields DEF IsIssued, IsActive
<1>5. activeSkillAttestation[SlotOf(old)] = old
  BY <1>1 DEF IndexInv, IndexAgreesWithRecords
<1>6. \A id \in AttestationIds : activeSkillAttestation'[SlotOf(id)] =
        IF SlotOf(id) = SlotOf(old) THEN Zero ELSE activeSkillAttestation[SlotOf(id)]
  BY <1>5, IdParts DEF RevokeAttestation, PointTo, IndexInv, TypeOK
<1>7. QED
  BY <1>1, <1>2, <1>4, <1>6

(* Only the three functions of RecordStep write records, pointers or links. *)
LEMMA OthersKeepRecords ==
  ASSUME [Next]_vars
  PROVE  \/ \E sender \in Addresses : RecordStep(sender)
         \/ UNCHANGED <<recordVars, linkVars>>
<1>1. ASSUME NEW sender \in Addresses, IssuerStep(sender)
      PROVE  UNCHANGED <<recordVars, linkVars>>
  BY <1>1 DEF IssuerStep, DelegateIssuerFor, RevokeIssuer
<1>2. ASSUME NEW sender \in Addresses, HolderStep(sender)
      PROVE  UNCHANGED <<recordVars, linkVars>>
  BY <1>2 DEF HolderStep, BindHolder, RevokeHolderBinding
<1>3. QED
  BY <1>1, <1>2 DEF Next, NextBlock, SignProject, vars

-----------------------------------------------------------------------------
(* The index. *)

LEMMA IndexInit == Init => IndexInv
<1> SUFFICES ASSUME Init PROVE IndexInv
  OBVIOUS
<1>1. TypeOK
  BY InitType
<1>2. \A id \in AttestationIds : attestations[id] = NoAttestation /\ ~IsActive(id)
  BY DEF Init, IsActive, NoAttestation
<1>3. /\ \A slot \in Subjects \X Skills : activeSkillAttestation[slot] = Zero
      /\ \A id \in AttestationIds : activeSkillAttestation[SlotOf(id)] = Zero
  BY IdParts DEF Init
<1>4. QED
  BY <1>1, <1>2, <1>3, ZeroIsNoId DEF IndexInv, UnissuedIsBlank, PointsHome, IndexAgreesWithRecords

(* Whatever a record function points a slot to belongs there. *)
LEMMA PointToKeepsHome ==
  ASSUME IndexInv, NEW slot \in Subjects \X Skills, NEW id, id = Zero \/ SlotOf(id) = slot,
         activeSkillAttestation' = PointTo(slot, id)
  PROVE  PointsHome'
BY DEF IndexInv, TypeOK, PointsHome, PointTo

LEMMA RecordStepKeepsIndex ==
  ASSUME IndexInv, NEW sender \in Addresses, RecordStep(sender)
  PROVE  UnissuedIsBlank' /\ PointsHome' /\ IndexAgreesWithRecords'
<1>1. ASSUME NEW subject \in Subjects, NEW skill \in Skills, NEW program \in Programs,
             NEW evidence \in Evidence, Attest(sender, subject, skill, program, evidence)
      PROVE  UnissuedIsBlank' /\ PointsHome' /\ IndexAgreesWithRecords'
  <2>1. UnissuedIsBlank' /\ IndexAgreesWithRecords'
    BY <1>1, AttestEffect DEF IndexInv, UnissuedIsBlank, IndexAgreesWithRecords, IsIssued, IsActive
  <2>2. PointsHome'
    BY <1>1, DerivedIds, IdParts, PointToKeepsHome DEF Attest
  <2>3. QED
    BY <2>1, <2>2
<1>2. ASSUME NEW old \in AttestationIds, NEW program \in Programs, NEW evidence \in Evidence,
             Supersede(sender, old, program, evidence)
      PROVE  UnissuedIsBlank' /\ PointsHome' /\ IndexAgreesWithRecords'
  <2>1. UnissuedIsBlank' /\ IndexAgreesWithRecords'
    BY <1>2, SupersedeEffect DEF IndexInv, UnissuedIsBlank, IndexAgreesWithRecords, IsIssued, IsActive
  <2>2. PointsHome'
    BY <1>2, DerivedIds, IdParts, PointToKeepsHome DEF Supersede
  <2>3. QED
    BY <2>1, <2>2
<1>3. ASSUME NEW old \in AttestationIds, RevokeAttestation(sender, old)
      PROVE  UnissuedIsBlank' /\ PointsHome' /\ IndexAgreesWithRecords'
  <2>1. UnissuedIsBlank' /\ IndexAgreesWithRecords'
    BY <1>3, RevokeEffect, ZeroIsNoId DEF IndexInv, UnissuedIsBlank, IndexAgreesWithRecords, IsIssued, IsActive
  <2>2. activeSkillAttestation' = PointTo(SlotOf(old), Zero)
    BY <1>3 DEF RevokeAttestation, IndexInv, IndexAgreesWithRecords
  <2>3. PointsHome'
    BY <2>2, IdParts, PointToKeepsHome
  <2>4. QED
    BY <2>1, <2>3
<1>4. QED
  BY <1>1, <1>2, <1>3 DEF RecordStep

LEMMA IndexInductive == IndexInv /\ [Next]_vars => IndexInv'
<1> SUFFICES ASSUME IndexInv, [Next]_vars PROVE IndexInv'
  OBVIOUS
<1>1. TypeOK'
  BY NextType DEF IndexInv
<1>2. CASE \E sender \in Addresses : RecordStep(sender)
  BY <1>1, <1>2, RecordStepKeepsIndex DEF IndexInv
<1>3. CASE UNCHANGED <<recordVars, linkVars>>
  BY <1>1, <1>3 DEF IndexInv, UnissuedIsBlank, PointsHome, IndexAgreesWithRecords, IsActive, IsIssued, recordVars
<1>4. QED
  BY <1>2, <1>3, OthersKeepRecords

-----------------------------------------------------------------------------
(* The lineage. *)

(* What a step leaves of a record: its issue, its issuer, and all of it once
   it is inactive. *)
LEMMA IssuedIsKept ==
  ASSUME IndexInv, NEW sender \in Addresses, RecordStep(sender), NEW id \in AttestationIds, IsIssued(id)
  PROVE  \/ attestations'[id] = attestations[id]
         \/ IsActive(id) /\ attestations'[id] = Retired(attestations[id])
<1>1. ASSUME NEW subject \in Subjects, NEW skill \in Skills, NEW program \in Programs,
             NEW evidence \in Evidence, Attest(sender, subject, skill, program, evidence)
      PROVE  attestations'[id] = attestations[id]
  BY <1>1, AttestEffect
<1>2. ASSUME NEW old \in AttestationIds, NEW program \in Programs, NEW evidence \in Evidence,
             Supersede(sender, old, program, evidence)
      PROVE  \/ attestations'[id] = attestations[id]
             \/ IsActive(id) /\ attestations'[id] = Retired(attestations[id])
  BY <1>2, SupersedeEffect
<1>3. ASSUME NEW old \in AttestationIds, RevokeAttestation(sender, old)
      PROVE  \/ attestations'[id] = attestations[id]
             \/ IsActive(id) /\ attestations'[id] = Retired(attestations[id])
  BY <1>3, RevokeEffect
<1>4. QED
  BY <1>1, <1>2, <1>3 DEF RecordStep

LineageInv == IndexInv /\ LineageWellFormed

LEMMA LineageInit == Init => LineageInv
<1> SUFFICES ASSUME Init PROVE LineageWellFormed
  BY IndexInit DEF LineageInv
<1>1. \A id \in AttestationIds : successorOf[id] = Zero /\ predecessorOf[id] = Zero
  BY DEF Init
<1>2. QED
  BY <1>1, ZeroIsNoId DEF LineageWellFormed

(* Steps that set no link: what the links say of the records still holds. *)
LEMMA SameLinks ==
  ASSUME LineageInv, UNCHANGED linkVars,
         \A id \in AttestationIds : IsIssued(id) =>
           /\ IsIssued(id)'
           /\ attestations'[id].issuer = attestations[id].issuer
           /\ attestations'[id].issuedAt = attestations[id].issuedAt
           /\ ~IsActive(id) => attestations'[id] = attestations[id]
  PROVE  LineageWellFormed'
<1>1. \A id \in AttestationIds : ~IsIssued(id) => attestations[id].issuer # Root
  BY AccountAssumption, ZeroAssumption DEF LineageInv, IndexInv, UnissuedIsBlank, NoAttestation
<1>2. \A a, b \in AttestationIds : successorOf'[a] = b =>
        /\ IsIssued(a)' /\ ~IsActive(a)' /\ SlotOf(a) = SlotOf(b)
        /\ attestations'[b].issuer = Root
        /\ attestations'[a].revokedAt = attestations'[b].issuedAt
  BY <1>1 DEF LineageInv, LineageWellFormed, linkVars, IsActive, IsIssued
<1>3. QED
  BY <1>2 DEF LineageInv, LineageWellFormed, linkVars

LEMMA SupersedeKeepsLineage ==
  ASSUME LineageInv, NEW sender \in Addresses,
         NEW old \in AttestationIds, NEW program \in Programs, NEW evidence \in Evidence,
         Supersede(sender, old, program, evidence)
  PROVE  LineageWellFormed'
<1> DEFINE new == DeriveAttestationId(SubjectOf(old), SkillOf(old), program, evidence)
<1> HIDE DEF new
<1>1. /\ new \in AttestationIds /\ SlotOf(new) = SlotOf(old) /\ new # old
      /\ IsActive(old) /\ ~IsIssued(new)
      /\ IsIssued(old)' /\ ~IsActive(old)' /\ attestations'[old].revokedAt = now
      /\ attestations'[new].issuer = Root /\ attestations'[new].issuedAt = now
      /\ attestations'[old].issuer = attestations[old].issuer
      /\ attestations'[old] = Retired(attestations[old])
      /\ \A id \in AttestationIds \ {old, new} : attestations'[id] = attestations[id]
      /\ \A id \in AttestationIds :
           /\ successorOf'[id] = IF id = old THEN new ELSE successorOf[id]
           /\ predecessorOf'[id] = IF id = new THEN old ELSE predecessorOf[id]
  BY SupersedeEffect DEF LineageInv, new
<1>2. attestations[new].issuer = Zero
  BY <1>1 DEF LineageInv, IndexInv, UnissuedIsBlank, NoAttestation
<1>3. \A id \in AttestationIds : successorOf[id] # new /\ predecessorOf[id] # old
  BY <1>1, <1>2, AccountAssumption, ZeroAssumption DEF LineageInv, LineageWellFormed
<1>4. successorOf[new] \notin AttestationIds /\ predecessorOf[new] \notin AttestationIds
  BY <1>1, <1>3 DEF LineageInv, LineageWellFormed
<1>5. \A a, b \in AttestationIds : successorOf'[a] = b <=> predecessorOf'[b] = a
  BY <1>1, <1>3, <1>4 DEF LineageInv, LineageWellFormed
<1>6. ASSUME NEW a \in AttestationIds, NEW b \in AttestationIds, successorOf'[a] = b
      PROVE  /\ IsIssued(a)' /\ ~IsActive(a)' /\ SlotOf(a) = SlotOf(b)
             /\ attestations'[b].issuer = Root
             /\ attestations'[a].revokedAt = attestations'[b].issuedAt
  <2>1. CASE a = old
    BY <1>1, <1>6, <2>1
  <2>2. CASE a # old
    <3>1. successorOf[a] = b /\ a # new /\ b # new
      BY <1>1, <1>3, <1>4, <1>6, <2>2
    <3>2. attestations'[a] = attestations[a]
      BY <1>1, <2>2, <3>1
    <3>3. attestations[old] \in Attestation
      BY DEF LineageInv, IndexInv, TypeOK
    <3>4. /\ attestations'[b].issuer = attestations[b].issuer
          /\ attestations'[b].issuedAt = attestations[b].issuedAt
      BY <1>1, <3>1, <3>3, RetiredFields
    <3>5. QED
      BY <3>1, <3>2, <3>4 DEF LineageInv, LineageWellFormed, IsIssued, IsActive
  <2>3. QED
    BY <2>1, <2>2
<1>7. ASSUME NEW S \in (SUBSET AttestationIds) \ {{}}
      PROVE  \E id \in S : successorOf'[id] \notin S
  <2>1. CASE new \in S
    BY <1>1, <1>4, <2>1
  <2>2. CASE new \notin S
    <3>1. PICK id \in S : successorOf[id] \notin S
      BY DEF LineageInv, LineageWellFormed
    <3>2. QED
      BY <1>1, <2>2, <3>1
  <2>3. QED
    BY <2>1, <2>2
<1>8. QED
  BY <1>5, <1>6, <1>7 DEF LineageWellFormed

LEMMA LineageInductive == LineageInv /\ [Next]_vars => LineageInv'
<1> SUFFICES ASSUME LineageInv, [Next]_vars PROVE LineageWellFormed'
  BY IndexInductive DEF LineageInv
<1>1. CASE UNCHANGED <<recordVars, linkVars>>
  BY <1>1, SameLinks DEF IsIssued, recordVars
<1>2. ASSUME NEW sender \in Addresses, RecordStep(sender), UNCHANGED linkVars
      PROVE  LineageWellFormed'
  <2>1. ASSUME NEW id \in AttestationIds, IsIssued(id)
        PROVE  /\ IsIssued(id)'
               /\ attestations'[id].issuer = attestations[id].issuer
               /\ attestations'[id].issuedAt = attestations[id].issuedAt
               /\ ~IsActive(id) => attestations'[id] = attestations[id]
    <3>1. attestations[id] \in Attestation
      BY DEF LineageInv, IndexInv, TypeOK
    <3>2. QED
      BY <1>2, <2>1, <3>1, IssuedIsKept, RetiredFields DEF LineageInv, IsIssued
  <2>2. QED
    BY <1>2, <2>1, SameLinks
<1>3. ASSUME NEW sender \in Addresses, RecordStep(sender)
      PROVE  LineageWellFormed'
  BY <1>2, <1>3, SupersedeKeepsLineage DEF RecordStep, Attest, RevokeAttestation
<1>4. QED
  BY <1>1, <1>3, OthersKeepRecords

LEMMA LineageInvariant == Spec => []LineageInv
BY LineageInit, LineageInductive, PTL DEF Spec

(* The pointer of a subject and skill names exactly the active record about
   them, in every reachable state. *)
THEOREM IndexAgreement == Spec => []IndexAgreesWithRecords
<1>1. LineageInv => IndexAgreesWithRecords
  BY DEF LineageInv, IndexInv
<1>2. QED
  BY <1>1, LineageInvariant, PTL

(* The links between records are inverse, join records of one slot whose
   retirement and issue are one moment, and never close a circle. *)
THEOREM LineageAgreement == Spec => []LineageWellFormed
<1>1. LineageInv => LineageWellFormed
  BY DEF LineageInv
<1>2. QED
  BY <1>1, LineageInvariant, PTL

-----------------------------------------------------------------------------
(* Authority. *)

LEMMA StepIsConfined ==
  ASSUME IndexInv, [Next]_vars, NEW id \in AttestationIds
  PROVE  Confined(id)
<1>1. CASE UNCHANGED <<recordVars, linkVars>>
  BY <1>1 DEF Confined, recordVars, IsIssued
<1>2. ASSUME NEW sender \in Addresses, NEW subject \in Subjects, NEW skill \in Skills,
             NEW program \in Programs, NEW evidence \in Evidence,
             Attest(sender, subject, skill, program, evidence), ~IsIssued(id), IsIssued(id)'
      PROVE  Confined(id)
  <2> DEFINE new == DeriveAttestationId(subject, skill, program, evidence)
  <2>1. id = new /\ attestations'[id].issuer = sender
    BY <1>2, AttestEffect DEF IsIssued
  <2>2. EvidenceOf(id) = evidence
    BY <2>1, DerivedIds
  <2>3. delegatedIssuers[sender] \in DelegatedIssuer
    BY DEF IndexInv, TypeOK
  <2>4. delegatedIssuers[sender].expiresAt \in Nat /\ now \in Nat
    BY <2>3, ExpiryIsNat DEF DelegatedIssuer, IndexInv, TypeOK
  <2>5. IsDelegated(sender, subject, skill, program)
    BY <1>2 DEF Attest
  <2>6. QED
    BY <2>1, <2>2, <2>4, <2>5 DEF Confined, IsDelegated
<1>3. ASSUME NEW sender \in Addresses, NEW old \in AttestationIds, NEW program \in Programs,
             NEW evidence \in Evidence, Supersede(sender, old, program, evidence),
             ~IsIssued(id), IsIssued(id)'
      PROVE  Confined(id)
  <2> DEFINE new == DeriveAttestationId(SubjectOf(old), SkillOf(old), program, evidence)
  <2>1. id = new
    BY <1>3, SupersedeEffect DEF IsIssued
  <2>2. IsActive(old) /\ ~IsActive(old)' /\ successorOf'[old] = new
    BY <1>3, SupersedeEffect
  <2>3. QED
    BY <2>1, <2>2 DEF Confined
<1>4. ASSUME NEW sender \in Addresses, NEW old \in AttestationIds, RevokeAttestation(sender, old)
      PROVE  ~IsIssued(id) => ~IsIssued(id)'
  BY <1>4, RevokeEffect DEF IsIssued
<1>5. QED
  BY <1>1, <1>2, <1>3, <1>4, OthersKeepRecords DEF RecordStep, Confined

(* A record is added by the root in place of one it retires, or by the child
   whose delegation names exactly its subject, skill and program. *)
THEOREM IssuanceConfined == Spec => ConfinedIssuance
<1>1. LineageInv /\ [Next]_vars => [\A id \in AttestationIds : Confined(id)]_vars
  BY StepIsConfined DEF LineageInv
<1>2. QED
  BY <1>1, LineageInvariant, PTL DEF Spec, ConfinedIssuance

-----------------------------------------------------------------------------
(* Refinement of CredentialLedger. *)

LEMMA LedgerInitial == Init => Ledger!LedgerInit
BY DEF Init, Ledger!LedgerInit, Ledger!Slots, IsIssued, NoAttestation

(* What the index holds of a record: its one slot. *)
LEMMA SlotOfRecord ==
  ASSUME IndexInv, NEW old \in AttestationIds, IsActive(old)
  PROVE  /\ \A slot \in Subjects \X Skills : activeSkillAttestation[slot] = old <=> slot = SlotOf(old)
         /\ Ledger!IsLive(old)
<1>1. ASSUME NEW slot \in Subjects \X Skills, activeSkillAttestation[slot] = old
      PROVE  slot = SlotOf(old)
  BY <1>1, ZeroIsNoId DEF IndexInv, PointsHome
<1>2. activeSkillAttestation[SlotOf(old)] = old /\ SlotOf(old) \in Subjects \X Skills
  BY IdParts DEF IndexInv, IndexAgreesWithRecords
<1>3. QED
  BY <1>1, <1>2 DEF Ledger!IsLive, Ledger!Slots

LEMMA AttestIsCertify ==
  ASSUME IndexInv, NEW sender \in Addresses,
         NEW subject \in Subjects, NEW skill \in Skills, NEW program \in Programs, NEW evidence \in Evidence,
         Attest(sender, subject, skill, program, evidence),
         NEW new, new = DeriveAttestationId(subject, skill, program, evidence)
  PROVE  new \in AttestationIds /\ Ledger!Certify(new, subject, {skill})
<1>1. /\ new \in AttestationIds /\ ~IsIssued(new) /\ IsIssued(new)'
      /\ \A id \in AttestationIds : id # new => (IsIssued(id)' <=> IsIssued(id))
  BY AttestEffect DEF IsIssued
<1>2. {id \in AttestationIds : IsIssued(id)}' = {id \in AttestationIds : IsIssued(id)} \cup {new}
  BY <1>1
<1>3. SlotOf(new) = <<subject, skill>> /\ <<subject, skill>> \in Subjects \X Skills
  BY DerivedIds
<1>4. /\ activeSkillAttestation[<<subject, skill>>] = Zero
      /\ activeSkillAttestation' = [activeSkillAttestation EXCEPT ![<<subject, skill>>] = new]
  BY <1>3 DEF Attest, PointTo
<1>5. activeSkillAttestation' =
        [slot \in Subjects \X Skills |->
           IF slot \in {subject} \X {skill} THEN new ELSE activeSkillAttestation[slot]]
  <2>1. \A slot \in Subjects \X Skills : slot \in {subject} \X {skill} <=> slot = <<subject, skill>>
    OBVIOUS
  <2>2. activeSkillAttestation = [slot \in Subjects \X Skills |-> activeSkillAttestation[slot]]
    BY DEF IndexInv, TypeOK
  <2>3. activeSkillAttestation' =
          [slot \in Subjects \X Skills |->
             IF slot = <<subject, skill>> THEN new ELSE activeSkillAttestation[slot]]
    BY <1>3, <1>4, <2>2
  <2>4. QED
    BY <2>1, <2>3
<1>6. QED
  BY <1>1, <1>2, <1>4, <1>5 DEF Ledger!Certify, Ledger!Slots

LEMMA HandedOver ==
  ASSUME IndexInv, NEW old \in AttestationIds, IsActive(old), NEW new
  PROVE  PointTo(SlotOf(old), new) = Ledger!HandOver(old, new)
<1>1. activeSkillAttestation = [slot \in Subjects \X Skills |-> activeSkillAttestation[slot]]
  BY DEF IndexInv, TypeOK
<1>2. QED
  BY <1>1, SlotOfRecord DEF PointTo, Ledger!HandOver, Ledger!Slots

LEMMA SupersedeIsReplace ==
  ASSUME IndexInv, NEW sender \in Addresses,
         NEW old \in AttestationIds, NEW program \in Programs, NEW evidence \in Evidence,
         Supersede(sender, old, program, evidence),
         NEW new, new = DeriveAttestationId(SubjectOf(old), SkillOf(old), program, evidence)
  PROVE  new \in AttestationIds /\ Ledger!Replace(old, new)
<1>1. /\ new \in AttestationIds /\ ~IsIssued(new) /\ IsActive(old)
      /\ \A id \in AttestationIds : IsIssued(id)' <=> IsIssued(id) \/ id = new
  BY SupersedeEffect DEF IsIssued
<1>2. {id \in AttestationIds : IsIssued(id)}' = {id \in AttestationIds : IsIssued(id)} \cup {new}
  BY <1>1
<1>3. activeSkillAttestation' = PointTo(SlotOf(old), new)
  BY DEF Supersede
<1>4. QED
  BY <1>1, <1>2, <1>3, HandedOver, SlotOfRecord DEF Ledger!Replace

LEMMA RevokeIsWithdraw ==
  ASSUME IndexInv, NEW sender \in Addresses, NEW old \in AttestationIds, RevokeAttestation(sender, old)
  PROVE  Ledger!Withdraw(old)
<1>1. IsActive(old) /\ \A id \in AttestationIds : IsIssued(id)' <=> IsIssued(id)
  BY RevokeEffect DEF IsIssued
<1>2. {id \in AttestationIds : IsIssued(id)}' = {id \in AttestationIds : IsIssued(id)}
  BY <1>1
<1>3. activeSkillAttestation' = PointTo(SlotOf(old), Zero)
  BY <1>1 DEF RevokeAttestation, IndexInv, IndexAgreesWithRecords
<1>4. QED
  BY <1>1, <1>2, <1>3, HandedOver, SlotOfRecord DEF Ledger!Withdraw

LEMMA LedgerStep == IndexInv /\ [Next]_vars => [Ledger!LedgerNext]_(Ledger!ledgerVars)
<1> SUFFICES ASSUME IndexInv, [Next]_vars PROVE [Ledger!LedgerNext]_(Ledger!ledgerVars)
  OBVIOUS
<1>1. CASE UNCHANGED <<recordVars, linkVars>>
  BY <1>1 DEF Ledger!ledgerVars, recordVars, IsIssued
<1>2. ASSUME NEW sender \in Addresses, NEW subject \in Subjects, NEW skill \in Skills,
             NEW program \in Programs, NEW evidence \in Evidence,
             Attest(sender, subject, skill, program, evidence)
      PROVE  Ledger!LedgerNext
  <2>1. PICK new \in AttestationIds : Ledger!Certify(new, subject, {skill})
    BY <1>2, AttestIsCertify
  <2>2. {skill} \in SUBSET Skills
    OBVIOUS
  <2>3. QED
    BY <2>1, <2>2 DEF Ledger!LedgerNext
<1>3. ASSUME NEW sender \in Addresses, RecordStep(sender)
      PROVE  Ledger!LedgerNext
  BY <1>2, <1>3, SupersedeIsReplace, RevokeIsWithdraw DEF RecordStep, Ledger!LedgerNext
<1>4. QED
  BY <1>1, <1>3, OthersKeepRecords

(* The registry implements the ledger of whole credentials: a record without
   a pointer, or a pointer that outlives its record, is no behaviour of it. *)
THEOREM Refinement == Spec => ImplementsLedger
<1>1. LineageInv => IndexInv
  BY DEF LineageInv
<1>2. QED
  BY <1>1, LedgerInitial, LedgerStep, LineageInvariant, PTL DEF Spec, ImplementsLedger, Ledger!LedgerSpec

-----------------------------------------------------------------------------
(* Holder keys. *)

(* bindHolder refuses the zero address, so a binding in force names a wallet. *)
BindingsNameWallets == \A id \in AttestationIds : holderBindings[id].active => holderBindings[id].holder # Zero

LEMMA WalletsInit == Init => BindingsNameWallets
BY DEF Init, BindingsNameWallets, NoBinding

(* A record once bound to a wallet never loses the name of one, and what is
   signed stays signed. *)
LEMMA WalletsStay ==
  ASSUME TypeOK, BindingsNameWallets, [Next]_vars
  PROVE  /\ BindingsNameWallets'
         /\ \A id \in AttestationIds : holderBindings[id].holder # Zero => holderBindings'[id].holder # Zero
         /\ signatures \subseteq signatures'
<1>1. ASSUME NEW sender \in Addresses, HolderStep(sender)
      PROVE  /\ BindingsNameWallets'
             /\ \A id \in AttestationIds : holderBindings[id].holder # Zero => holderBindings'[id].holder # Zero
             /\ UNCHANGED signatures
  <2>1. ASSUME NEW id \in AttestationIds, NEW holder \in Holders \cup {Zero}, NEW expiry \in Expiries,
               BindHolder(sender, id, holder, expiry)
        PROVE  /\ UNCHANGED signatures
               /\ \A other \in AttestationIds :
                    \/ holderBindings'[other] = holderBindings[other]
                    \/ holderBindings'[other].holder # Zero
    BY <2>1 DEF BindHolder, TypeOK
  <2>2. ASSUME NEW id \in AttestationIds, RevokeHolderBinding(sender, id)
        PROVE  /\ UNCHANGED signatures
               /\ \A other \in AttestationIds :
                    \/ holderBindings'[other] = holderBindings[other]
                    \/ /\ holderBindings'[other].holder = holderBindings[other].holder
                       /\ ~holderBindings'[other].active
    BY <2>2 DEF RevokeHolderBinding, TypeOK, HolderBinding
  <2>3. QED
    BY <1>1, <2>1, <2>2 DEF HolderStep, BindingsNameWallets
<1>2. ASSUME NEW sender \in Addresses, IssuerStep(sender) \/ RecordStep(sender)
      PROVE  UNCHANGED <<holderBindings, signatures>>
  BY <1>2 DEF IssuerStep, DelegateIssuerFor, RevokeIssuer, RecordStep, Attest, Supersede, RevokeAttestation
<1>3. ASSUME NEW holder \in Holders, NEW id \in AttestationIds, NEW project \in Projects,
             SignProject(holder, id, project)
      PROVE  holderBindings' = holderBindings /\ signatures \subseteq signatures'
  BY <1>3 DEF SignProject
<1>4. CASE NextBlock \/ UNCHANGED vars
  BY <1>4 DEF NextBlock, vars, BindingsNameWallets
<1>5. QED
  BY <1>1, <1>2, <1>3, <1>4 DEF Next, BindingsNameWallets

-----------------------------------------------------------------------------
(* What is never taken back. *)

(* A retired identifier never answers for its subject and skill again, after
   any transactions: the pointer names active records only, and a record that
   is not active stays so. *)
THEOREM RetiredStays == Spec => Ledger!RetiredForGood
<1>1. LineageInv /\ LineageInv' /\ [Next]_vars => [Ledger!KeepsRetired]_(Ledger!ledgerVars)
  <2> SUFFICES ASSUME LineageInv, LineageInv', [Next]_vars,
                      NEW id \in AttestationIds, IsIssued(id), ~Ledger!IsLive(id)
               PROVE  ~Ledger!IsLive(id)'
    BY DEF Ledger!KeepsRetired
  <2>1. ~IsActive(id)
    BY SlotOfRecord DEF LineageInv
  <2>2. ~IsActive(id)'
    BY <2>1, IssuedIsKept, OthersKeepRecords DEF LineageInv, IsActive, recordVars
  <2>3. \A slot \in Subjects \X Skills : activeSkillAttestation'[slot] # id
    BY <2>2, IdParts, ZeroIsNoId DEF LineageInv, IndexInv, IndexAgreesWithRecords, PointsHome
  <2>4. QED
    BY <2>3 DEF Ledger!IsLive, Ledger!Slots
<1>2. QED
  BY <1>1, LineageInvariant, PTL DEF Spec, Ledger!RetiredForGood

(* What a step may do to a record that is on file, and to its links. *)
IsKept(id) ==
  /\ IsIssued(id) =>
       \/ attestations'[id] = attestations[id]
       \/ IsActive(id) /\ attestations'[id] = Retired(attestations[id])
  /\ successorOf[id] # Zero => successorOf'[id] = successorOf[id]
  /\ predecessorOf'[id] # predecessorOf[id] => ~IsIssued(id)

(* No transaction rewrites a record that is on file, or a link once it is set. *)
HistoryIsImmutable == [][\A id \in AttestationIds : IsKept(id)]_vars

(* A record only ever changes by being retired once, its successor is named
   once, and its predecessor when it is issued or never. *)
THEOREM History == Spec => HistoryIsImmutable
<1>1. ASSUME LineageInv, [Next]_vars, NEW id \in AttestationIds
      PROVE  IsKept(id)
  <2>1. CASE UNCHANGED <<recordVars, linkVars>>
    BY <1>1, <2>1 DEF recordVars, linkVars, IsKept
  <2>2. ASSUME NEW sender \in Addresses, RecordStep(sender)
        PROVE  /\ successorOf[id] # Zero => successorOf'[id] = successorOf[id]
               /\ predecessorOf'[id] # predecessorOf[id] => ~IsIssued(id)
    <3>1. CASE UNCHANGED linkVars
      BY <3>1 DEF linkVars
    <3>2. ASSUME NEW old \in AttestationIds, NEW program \in Programs, NEW evidence \in Evidence,
                 Supersede(sender, old, program, evidence)
          PROVE  /\ successorOf[id] # Zero => successorOf'[id] = successorOf[id]
                 /\ predecessorOf'[id] # predecessorOf[id] => ~IsIssued(id)
      <4>1. successorOf[old] = Zero
        BY <1>1, <3>2, SupersedeEffect DEF LineageInv, LineageWellFormed, IndexInv, TypeOK
      <4>2. QED
        BY <1>1, <3>2, <4>1, SupersedeEffect DEF LineageInv
    <3>3. QED
      BY <2>2, <3>1, <3>2 DEF RecordStep, Attest, RevokeAttestation
  <2>3. QED
    BY <1>1, <2>1, <2>2, IssuedIsKept, OthersKeepRecords DEF LineageInv, IsKept
<1>2. LineageInv /\ [Next]_vars => [\A id \in AttestationIds : IsKept(id)]_vars
  BY <1>1
<1>3. QED
  BY <1>2, LineageInvariant, PTL DEF Spec, HistoryIsImmutable

-----------------------------------------------------------------------------
(* Who is confirmed as the holder. *)

(* Only a record on file has a binding in force: attest and supersede write
   no binding, so that a new record must not find one. *)
BindingsAreOfRecords == \A id \in AttestationIds : holderBindings[id].active => IsIssued(id)

HolderInv == LineageInv /\ BindingsNameWallets /\ BindingsAreOfRecords

LEMMA HolderInit == Init => HolderInv
BY LineageInit, WalletsInit DEF HolderInv, Init, BindingsAreOfRecords, NoBinding

LEMMA HolderInductive == HolderInv /\ [Next]_vars => HolderInv'
<1> SUFFICES ASSUME HolderInv, [Next]_vars PROVE BindingsAreOfRecords'
  BY LineageInductive, WalletsStay DEF HolderInv, LineageInv, IndexInv
<1>1. \A id \in AttestationIds : IsIssued(id) => IsIssued(id)'
  <2>1. CASE UNCHANGED <<recordVars, linkVars>>
    BY <2>1 DEF recordVars, IsIssued
  <2>2. ASSUME NEW sender \in Addresses, RecordStep(sender), NEW id \in AttestationIds, IsIssued(id)
        PROVE  IsIssued(id)'
    <3>1. attestations[id] \in Attestation
      BY DEF HolderInv, LineageInv, IndexInv, TypeOK
    <3>2. QED
      BY <2>2, <3>1, IssuedIsKept, RetiredFields DEF HolderInv, LineageInv, IsIssued
  <2>3. QED
    BY <2>1, <2>2, OthersKeepRecords
<1>2. ASSUME NEW id \in AttestationIds, holderBindings'[id].active
      PROVE  holderBindings[id].active \/ IsIssued(id)
  <2>1. ASSUME NEW sender \in Addresses, HolderStep(sender)
        PROVE  holderBindings[id].active \/ IsIssued(id)
    BY <1>2, <2>1 DEF HolderStep, BindHolder, RevokeHolderBinding, HolderInv, LineageInv, IndexInv, TypeOK
  <2>2. QED
    BY <1>2, <2>1 DEF Next, NextBlock, IssuerStep, DelegateIssuerFor, RevokeIssuer, RecordStep, Attest,
                      Supersede, RevokeAttestation, SignProject, vars
<1>3. QED
  BY <1>1, <1>2 DEF HolderInv, BindingsAreOfRecords

LEMMA HolderInvariant == Spec => []HolderInv
BY HolderInit, HolderInductive, PTL DEF Spec

(* Whom _recover yields for what is no signature is nobody's holder: the zero
   address passes verifyHolderProject for no record. *)
NobodyIsConfirmed == \A id \in AttestationIds : ~VerifyHolderProject(id, Zero)

(* A binding on file always names a wallet, so that nobody passes as Zero. *)
THEOREM NobodyHolds == Spec => []NobodyIsConfirmed
<1>1. HolderInv => NobodyIsConfirmed
  BY DEF HolderInv, BindingsNameWallets, NobodyIsConfirmed, VerifyHolderProject, BindingIsLive
<1>2. QED
  BY <1>1, HolderInvariant, PTL

(* A wallet that begins to pass for a record is bound to it in that step, by
   the root or the record's issuer. *)
Appointed(id, holder) ==
  ~VerifyHolderProject(id, holder) /\ VerifyHolderProject(id, holder)' =>
    \E sender \in Addresses, expiry \in Expiries : BindHolder(sender, id, holder, expiry)

(* Every start of a holder's authority is such an appointment. *)
AuthorityIsGiven == [][\A id \in AttestationIds, holder \in Holders : Appointed(id, holder)]_vars

LEMMA StepAppoints ==
  ASSUME HolderInv, [Next]_vars, NEW id \in AttestationIds, NEW holder \in Holders
  PROVE  Appointed(id, holder)
<1> SUFFICES ASSUME ~VerifyHolderProject(id, holder), VerifyHolderProject(id, holder)'
             PROVE  \E sender \in Addresses, expiry \in Expiries : BindHolder(sender, id, holder, expiry)
  BY DEF Appointed
<1>1. /\ holderBindings \in [AttestationIds -> HolderBinding] /\ now \in Nat
      /\ holderBindings[id].expiresAt \in Nat
  BY TimeAssumption, ExpiryIsNat DEF HolderInv, LineageInv, IndexInv, TypeOK, HolderBinding
<1>2. CASE NextBlock
  BY <1>1, <1>2 DEF NextBlock, VerifyHolderProject, BindingIsLive, IsActive, recordVars
<1>3. ASSUME NEW sender \in Addresses, RecordStep(sender)
      PROVE  FALSE
  <2>1. UNCHANGED <<now, holderBindings>>
    BY <1>3 DEF RecordStep, Attest, Supersede, RevokeAttestation
  <2>2. IsIssued(id) /\ ~IsActive(id) /\ IsActive(id)'
    BY <2>1 DEF VerifyHolderProject, BindingIsLive, HolderInv, BindingsAreOfRecords
  <2>3. QED
    BY <1>3, <2>2, IssuedIsKept DEF HolderInv, LineageInv, IsActive
<1>4. ASSUME NEW sender \in Addresses, HolderStep(sender)
      PROVE  \E expiry \in Expiries : BindHolder(sender, id, holder, expiry)
  <2>1. PICK touched \in AttestationIds :
          \/ \E named \in Holders \cup {Zero}, expiry \in Expiries : BindHolder(sender, touched, named, expiry)
          \/ RevokeHolderBinding(sender, touched)
    BY <1>4 DEF HolderStep
  <2>2. CASE RevokeHolderBinding(sender, touched)
    BY <1>1, <2>2 DEF RevokeHolderBinding, VerifyHolderProject, BindingIsLive, IsActive, HolderBinding, recordVars
  <2>3. ASSUME NEW named \in Holders \cup {Zero}, NEW expiry \in Expiries,
               BindHolder(sender, touched, named, expiry)
        PROVE  touched = id /\ named = holder
    BY <1>1, <2>3 DEF BindHolder, VerifyHolderProject, BindingIsLive, IsActive, recordVars
  <2>4. QED
    BY <2>1, <2>2, <2>3
<1>5. QED
  BY <1>2, <1>3, <1>4
  DEF Next, IssuerStep, DelegateIssuerFor, RevokeIssuer, SignProject, vars,
      VerifyHolderProject, BindingIsLive, IsActive, recordVars

(* The authority of a holder starts by bindHolder only: time only takes it
   away, and no transaction brings a record or a binding back. *)
THEOREM AuthorityStarts == Spec => AuthorityIsGiven
<1>1. HolderInv /\ [Next]_vars => [\A id \in AttestationIds, holder \in Holders : Appointed(id, holder)]_vars
  BY StepAppoints
<1>2. QED
  BY <1>1, HolderInvariant, PTL DEF Spec, AuthorityIsGiven
=============================================================================
