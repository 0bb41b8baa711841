-------------------------- MODULE SkillRegistryProofs --------------------------
(***************************************************************************)
(* Theorems about SkillRegistry, for every number of accounts, subjects,   *)
(* skills and credentials.                                                 *)
(***************************************************************************)
EXTENDS SkillRegistry, FiniteSetTheorems, TLAPS

(* What reading a slot of the index yields after PointTo. *)
LEMMA PointToValue ==
  ASSUME NEW subject \in Subjects, NEW skillIds \in SUBSET Skills, NEW id,
         NEW s \in Subjects, NEW k \in Skills
  PROVE  PointTo(subject, skillIds, id)[<<s, k>>] =
           IF s = subject /\ k \in skillIds THEN id ELSE activeSkillAttestation[<<s, k>>]
BY DEF PointTo

LEMMA PointToType ==
  ASSUME NEW subject, NEW skillIds, NEW id \in AttestationIds \cup {Zero},
         activeSkillAttestation \in [Subjects \X Skills -> AttestationIds \cup {Zero}]
  PROVE  PointTo(subject, skillIds, id) \in [Subjects \X Skills -> AttestationIds \cup {Zero}]
BY DEF PointTo

(* The identifiers the two issuing functions compute. *)
LEMMA DerivedIds ==
  ASSUME NEW subject \in Subjects, NEW credential \in Credentials
  PROVE  /\ DeriveAttestationId(subject, credential) \in AttestationIds
         /\ SubjectOf(DeriveAttestationId(subject, credential)) = subject
BY DEF DeriveAttestationId, AttestationIds, SubjectOf

LEMMA SubjectType ==
  ASSUME NEW id \in AttestationIds
  PROVE  SubjectOf(id) \in Subjects
BY DEF AttestationIds, SubjectOf

LEMMA RecordTypes ==
  ASSUME TypeOK
  PROVE  /\ \A evidence \in Evidence, program \in Programs, issuer \in Addresses, scope \in Scopes,
               skillIds \in SUBSET Skills :
              NewRecord(evidence, program, issuer, scope, skillIds) \in Attestation
         /\ \A record \in Attestation : Retired(record) \in Attestation
<1>1. now \in 0..MaxTime /\ 0 \in 0..MaxTime
  BY TimeAssumption DEF TypeOK
<1>2. ASSUME NEW evidence \in Evidence, NEW program \in Programs, NEW issuer \in Addresses,
             NEW scope \in Scopes, NEW skillIds \in SUBSET Skills
      PROVE  NewRecord(evidence, program, issuer, scope, skillIds) \in Attestation
  BY <1>1 DEF NewRecord, Attestation
<1>3. ASSUME NEW record \in Attestation
      PROVE  Retired(record) \in Attestation
  BY <1>1 DEF Retired, Attestation
<1>4. QED
  BY <1>2, <1>3

-----------------------------------------------------------------------------
(* Type correctness. *)

LEMMA InitType == Init => TypeOK
BY RootAssumption, ScopeAssumption, TimeAssumption
DEF Init, TypeOK, NoDelegation, NoAttestation, NoBinding, DelegatedIssuer, Attestation, HolderBinding

LEMMA IssuerStepType ==
  ASSUME TypeOK, NEW sender \in Addresses, IssuerStep(sender)
  PROVE  TypeOK'
<1>1. PICK child \in Delegates :
         \/ \E mask \in Masks : DelegateIssuer(sender, child, mask)
         \/ \E mask \in Masks, subject \in Subjects, skill \in Skills, program \in Programs, expiry \in Expiries :
              DelegateIssuerFor(sender, child, mask, subject, skill, program, expiry)
         \/ RevokeIssuer(sender, child)
  BY DEF IssuerStep
<1>2. child \in Addresses
  BY AccountAssumption
<1>3. UNCHANGED <<now, holderBindings, recordVars, linkVars>>
  BY <1>1 DEF DelegateIssuer, DelegateIssuerFor, RevokeIssuer
<1>4. delegatedIssuers' \in [Addresses -> DelegatedIssuer]
  <2>1. ASSUME NEW mask \in Masks, DelegateIssuer(sender, child, mask)
        PROVE  delegatedIssuers' \in [Addresses -> DelegatedIssuer]
    BY <1>2, <2>1 DEF TypeOK, DelegateIssuer, DelegatedIssuer, Masks
  <2>2. ASSUME NEW mask \in Masks, NEW subject \in Subjects, NEW skill \in Skills,
               NEW program \in Programs, NEW expiry \in Expiries,
               DelegateIssuerFor(sender, child, mask, subject, skill, program, expiry)
        PROVE  delegatedIssuers' \in [Addresses -> DelegatedIssuer]
    BY <1>2, <2>2 DEF TypeOK, DelegateIssuerFor, DelegatedIssuer, Masks
  <2>3. CASE RevokeIssuer(sender, child)
    <3>1. \A delegation \in DelegatedIssuer : Disabled(delegation) \in DelegatedIssuer
      BY DEF Disabled, DelegatedIssuer
    <3>2. QED
      BY <1>2, <2>3, <3>1 DEF TypeOK, RevokeIssuer
  <2>4. QED
    BY <1>1, <2>1, <2>2, <2>3
<1>5. QED
  BY <1>3, <1>4 DEF TypeOK, recordVars, linkVars

LEMMA RecordStepType ==
  ASSUME TypeOK, NEW sender \in Addresses, RecordStep(sender)
  PROVE  TypeOK'
<1>1. ASSUME NEW subject \in Subjects, NEW credential \in Credentials, NEW evidence \in Evidence,
             NEW program \in Programs, NEW scope \in Scopes, NEW skillIds \in SUBSET Skills,
             AttestWithProof(sender, subject, credential, evidence, program, scope, skillIds)
      PROVE  TypeOK'
  <2> DEFINE id == DeriveAttestationId(subject, credential)
  <2>1. NewRecord(evidence, program, sender, scope, skillIds) \in Attestation
    BY RecordTypes
  <2>2. attestations' \in [AttestationIds -> Attestation]
    BY <1>1, <2>1 DEF AttestWithProof, TypeOK
  <2>3. activeSkillAttestation' \in [Subjects \X Skills -> AttestationIds \cup {Zero}]
    BY <1>1, DerivedIds, PointToType DEF AttestWithProof, TypeOK
  <2>4. QED
    BY <1>1, <2>2, <2>3 DEF AttestWithProof, TypeOK, linkVars
<1>2. ASSUME NEW id \in AttestationIds, NEW credential \in Credentials, NEW evidence \in Evidence,
             NEW program \in Programs, SupersedeWithProof(sender, id, credential, evidence, program)
      PROVE  TypeOK'
  <2> DEFINE previous == attestations[id]
             successor == DeriveAttestationId(SubjectOf(id), credential)
  <2>1. previous \in Attestation /\ successor \in AttestationIds
    BY SubjectType, DerivedIds DEF TypeOK
  <2>2. NewRecord(evidence, program, Root, previous.scope, previous.skillIds) \in Attestation
    <3>1. previous.scope \in Scopes /\ previous.skillIds \in SUBSET Skills
      BY <2>1 DEF Attestation
    <3>2. QED
      BY <3>1, RootAssumption, RecordTypes
  <2>3. Retired(previous) \in Attestation
    BY <2>1, RecordTypes
  <2>4. attestations' \in [AttestationIds -> Attestation]
    BY <1>2, <2>2, <2>3 DEF SupersedeWithProof, TypeOK
  <2>5. activeSkillAttestation' \in [Subjects \X Skills -> AttestationIds \cup {Zero}]
    BY <1>2, <2>1, PointToType DEF SupersedeWithProof, TypeOK
  <2>6. /\ successorOf' \in [AttestationIds -> AttestationIds \cup {Zero}]
        /\ predecessorOf' \in [AttestationIds -> AttestationIds \cup {Zero}]
    BY <1>2, <2>1 DEF SupersedeWithProof, TypeOK
  <2>7. QED
    BY <1>2, <2>4, <2>5, <2>6 DEF SupersedeWithProof, TypeOK
<1>3. ASSUME NEW id \in AttestationIds, RevokeAttestation(sender, id)
      PROVE  TypeOK'
  <2>1. Retired(attestations[id]) \in Attestation
    BY RecordTypes DEF TypeOK
  <2>2. attestations' \in [AttestationIds -> Attestation]
    BY <1>3, <2>1 DEF RevokeAttestation, TypeOK
  <2>3. activeSkillAttestation' \in [Subjects \X Skills -> AttestationIds \cup {Zero}]
    BY <1>3, PointToType DEF RevokeAttestation, TypeOK
  <2>4. QED
    BY <1>3, <2>2, <2>3 DEF RevokeAttestation, TypeOK, linkVars
<1>4. QED
  BY <1>1, <1>2, <1>3 DEF RecordStep

LEMMA HolderStepType ==
  ASSUME TypeOK, NEW sender \in Addresses, HolderStep(sender)
  PROVE  TypeOK'
<1>1. PICK id \in AttestationIds :
         \/ \E holder \in Holders, expiry \in Expiries : BindHolder(sender, id, holder, expiry)
         \/ RevokeHolderBinding(sender, id)
  BY DEF HolderStep
<1>2. holderBindings' \in [AttestationIds -> HolderBinding]
  <2>1. ASSUME NEW holder \in Holders, NEW expiry \in Expiries, BindHolder(sender, id, holder, expiry)
        PROVE  holderBindings' \in [AttestationIds -> HolderBinding]
    BY <2>1 DEF TypeOK, BindHolder, NewBinding, HolderBinding
  <2>2. CASE RevokeHolderBinding(sender, id)
    BY <2>2 DEF TypeOK, RevokeHolderBinding, HolderBinding
  <2>3. QED
    BY <1>1, <2>1, <2>2
<1>3. UNCHANGED <<now, delegatedIssuers, recordVars, linkVars>>
  BY <1>1 DEF BindHolder, RevokeHolderBinding
<1>4. QED
  BY <1>2, <1>3 DEF TypeOK, recordVars, linkVars

LEMMA NextType == TypeOK /\ [Next]_vars => TypeOK'
<1> SUFFICES ASSUME TypeOK, [Next]_vars PROVE TypeOK'
  OBVIOUS
<1>1. CASE NextBlock
  BY <1>1, TimeAssumption DEF TypeOK, NextBlock, recordVars, linkVars
<1>2. CASE UNCHANGED vars
  BY <1>2 DEF TypeOK, vars, recordVars, linkVars
<1>3. QED
  BY <1>1, <1>2, IssuerStepType, RecordStepType, HolderStepType DEF Next

(* Every reachable state is well typed. *)
THEOREM TypeCorrect == Spec => []TypeOK
BY InitType, NextType, PTL DEF Spec

-----------------------------------------------------------------------------
(* The index. *)

(* Index agreement is inductive together with two facts about the records:
   the code never reads the record behind a pointer before it moves or clears
   the pointer, so an active record must be an issued one with skills. *)
ActiveIsIssued ==
  \A id \in AttestationIds : IsActive(id) => IsIssued(id) /\ attestations[id].skillIds # {}

IndexInv == TypeOK /\ ActiveIsIssued /\ IndexAgreesWithRecords

LEMMA ZeroIsNoId == Zero \notin AttestationIds
BY ZeroAssumption DEF AttestationIds

LEMMA AttestKeepsIndex ==
  ASSUME IndexInv,
         NEW sender \in Addresses, NEW subject \in Subjects, NEW credential \in Credentials,
         NEW evidence \in Evidence, NEW program \in Programs, NEW scope \in Scopes,
         NEW skillIds \in SUBSET Skills,
         AttestWithProof(sender, subject, credential, evidence, program, scope, skillIds)
  PROVE  ActiveIsIssued' /\ IndexAgreesWithRecords'
<1> DEFINE new == DeriveAttestationId(subject, credential)
           record == NewRecord(evidence, program, sender, scope, skillIds)
<1>1. new \in AttestationIds /\ SubjectOf(new) = subject
  BY DerivedIds
<1>2. attestations' = [attestations EXCEPT ![new] = record]
  BY DEF AttestWithProof
<1>3. ASSUME NEW id \in AttestationIds
      PROVE  attestations'[id] = IF id = new THEN record ELSE attestations[id]
  BY <1>1, <1>2 DEF IndexInv, TypeOK
<1>4. record.active /\ record.skillIds = skillIds /\ record.issuedAt # 0 /\ skillIds # {}
  BY DEF NewRecord, AttestWithProof, IndexInv, TypeOK
<1>5. ~IsActive(new)
  BY <1>1 DEF AttestWithProof, IsFresh, IndexInv, ActiveIsIssued
<1>6. ActiveIsIssued'
  BY <1>3, <1>4 DEF IndexInv, ActiveIsIssued, IsActive, IsIssued
<1>7. ASSUME NEW s \in Subjects, NEW k \in Skills, NEW id \in AttestationIds
      PROVE  activeSkillAttestation'[<<s, k>>] = id
               <=> IsActive(id)' /\ SubjectOf(id) = s /\ k \in attestations'[id].skillIds
  <2>1. activeSkillAttestation'[<<s, k>>] =
          IF s = subject /\ k \in skillIds THEN new ELSE activeSkillAttestation[<<s, k>>]
    BY PointToValue DEF AttestWithProof
  <2>2. s = subject /\ k \in skillIds => activeSkillAttestation[<<s, k>>] = Zero
    BY DEF AttestWithProof
  <2>3. activeSkillAttestation[<<s, k>>] = id
          <=> IsActive(id) /\ SubjectOf(id) = s /\ k \in attestations[id].skillIds
    BY DEF IndexInv, IndexAgreesWithRecords
  <2>4. CASE id = new
    BY <2>1, <2>3, <2>4, <1>1, <1>3, <1>4, <1>5 DEF IsActive
  <2>5. CASE id # new
    BY <2>1, <2>2, <2>3, <2>5, <1>3, ZeroIsNoId DEF IsActive
  <2>6. QED
    BY <2>4, <2>5
<1>8. QED
  BY <1>6, <1>7 DEF IndexAgreesWithRecords

LEMMA SupersedeKeepsIndex ==
  ASSUME IndexInv,
         NEW sender \in Addresses, NEW old \in AttestationIds, NEW credential \in Credentials,
         NEW evidence \in Evidence, NEW program \in Programs,
         SupersedeWithProof(sender, old, credential, evidence, program)
  PROVE  ActiveIsIssued' /\ IndexAgreesWithRecords'
<1> DEFINE previous == attestations[old]
           new == DeriveAttestationId(SubjectOf(old), credential)
           record == NewRecord(evidence, program, Root, previous.scope, previous.skillIds)
<1>1. new \in AttestationIds /\ SubjectOf(new) = SubjectOf(old) /\ SubjectOf(old) \in Subjects
  BY SubjectType, DerivedIds
<1>2. attestations' = [attestations EXCEPT ![new] = record, ![old] = Retired(previous)]
  BY DEF SupersedeWithProof
<1>3. IsActive(old) /\ IsIssued(old) /\ ~IsIssued(new)
  BY DEF SupersedeWithProof, IsFresh
<1>4. old # new /\ ~IsActive(new)
  BY <1>1, <1>3 DEF IndexInv, ActiveIsIssued
<1>5. previous \in Attestation
  BY DEF IndexInv, TypeOK
<1>6. previous.skillIds \in SUBSET Skills /\ previous.skillIds # {}
  BY <1>3, <1>5 DEF Attestation, IndexInv, ActiveIsIssued
<1>7. ASSUME NEW id \in AttestationIds
      PROVE  attestations'[id] = IF id = old THEN Retired(previous)
                                 ELSE IF id = new THEN record ELSE attestations[id]
  BY <1>1, <1>2, <1>4 DEF IndexInv, TypeOK
<1>8. record.active /\ record.skillIds = previous.skillIds /\ record.issuedAt # 0
  BY DEF NewRecord, IndexInv, TypeOK
<1>9. ~Retired(previous).active
  BY <1>5 DEF Retired, Attestation
<1>10. ActiveIsIssued'
  BY <1>6, <1>7, <1>8, <1>9 DEF IndexInv, ActiveIsIssued, IsActive, IsIssued
<1>11. ASSUME NEW s \in Subjects, NEW k \in Skills, NEW id \in AttestationIds
       PROVE  activeSkillAttestation'[<<s, k>>] = id
                <=> IsActive(id)' /\ SubjectOf(id) = s /\ k \in attestations'[id].skillIds
  <2>1. activeSkillAttestation'[<<s, k>>] =
          IF s = SubjectOf(old) /\ k \in previous.skillIds THEN new ELSE activeSkillAttestation[<<s, k>>]
    BY <1>1, <1>6, PointToValue DEF SupersedeWithProof
  <2>2. \A i \in AttestationIds : activeSkillAttestation[<<s, k>>] = i
          <=> IsActive(i) /\ SubjectOf(i) = s /\ k \in attestations[i].skillIds
    BY DEF IndexInv, IndexAgreesWithRecords
  <2>3. CASE id = old
    BY <2>1, <2>2, <2>3, <1>4, <1>7, <1>9 DEF IsActive
  <2>4. CASE id = new
    BY <2>1, <2>2, <2>4, <1>1, <1>4, <1>7, <1>8 DEF IsActive
  <2>5. CASE id # old /\ id # new
    BY <2>1, <2>2, <2>5, <1>3, <1>7 DEF IsActive
  <2>6. QED
    BY <2>3, <2>4, <2>5
<1>12. QED
  BY <1>10, <1>11 DEF IndexAgreesWithRecords

LEMMA RevokeKeepsIndex ==
  ASSUME IndexInv, NEW sender \in Addresses, NEW old \in AttestationIds, RevokeAttestation(sender, old)
  PROVE  ActiveIsIssued' /\ IndexAgreesWithRecords'
<1> DEFINE own == {skill \in attestations[old].skillIds : activeSkillAttestation[<<SubjectOf(old), skill>>] = old}
<1>1. attestations[old] \in Attestation /\ SubjectOf(old) \in Subjects
  BY SubjectType DEF IndexInv, TypeOK
<1>2. own \in SUBSET Skills
  BY <1>1 DEF Attestation
<1>3. ASSUME NEW id \in AttestationIds
      PROVE  attestations'[id] = IF id = old THEN Retired(attestations[old]) ELSE attestations[id]
  BY DEF RevokeAttestation, IndexInv, TypeOK
<1>4. ~Retired(attestations[old]).active
  BY <1>1 DEF Retired, Attestation
<1>5. ActiveIsIssued'
  BY <1>3, <1>4 DEF IndexInv, ActiveIsIssued, IsActive, IsIssued
<1>6. ASSUME NEW s \in Subjects, NEW k \in Skills, NEW id \in AttestationIds
      PROVE  activeSkillAttestation'[<<s, k>>] = id
               <=> IsActive(id)' /\ SubjectOf(id) = s /\ k \in attestations'[id].skillIds
  <2>1. activeSkillAttestation'[<<s, k>>] =
          IF s = SubjectOf(old) /\ k \in own THEN Zero ELSE activeSkillAttestation[<<s, k>>]
    <3>1. activeSkillAttestation' = PointTo(SubjectOf(old), own, Zero)
      BY DEF RevokeAttestation
    <3> HIDE DEF own
    <3>2. QED
      BY <3>1, <1>1, <1>2, PointToValue
  <2>2. \A i \in AttestationIds : activeSkillAttestation[<<s, k>>] = i
          <=> IsActive(i) /\ SubjectOf(i) = s /\ k \in attestations[i].skillIds
    BY DEF IndexInv, IndexAgreesWithRecords
  <2>3. CASE id = old
    BY <2>1, <2>2, <2>3, <1>3, <1>4, ZeroIsNoId DEF IsActive
  <2>4. CASE id # old
    BY <2>1, <2>2, <2>4, <1>3, ZeroIsNoId DEF IsActive
  <2>5. QED
    BY <2>3, <2>4
<1>7. QED
  BY <1>5, <1>6 DEF IndexAgreesWithRecords

(* Only the three functions of RecordStep write records, pointers or links. *)
LEMMA OthersKeepRecords ==
  ASSUME [Next]_vars
  PROVE  \/ \E sender \in Addresses : RecordStep(sender)
         \/ UNCHANGED <<recordVars, linkVars>>
<1>1. ASSUME NEW sender \in Addresses, IssuerStep(sender)
      PROVE  UNCHANGED <<recordVars, linkVars>>
  BY <1>1 DEF IssuerStep, DelegateIssuer, DelegateIssuerFor, RevokeIssuer
<1>2. ASSUME NEW sender \in Addresses, HolderStep(sender)
      PROVE  UNCHANGED <<recordVars, linkVars>>
  BY <1>2 DEF HolderStep, BindHolder, RevokeHolderBinding
<1>3. QED
  BY <1>1, <1>2 DEF Next, NextBlock, vars

LEMMA IndexInductive == IndexInv /\ [Next]_vars => IndexInv'
<1> SUFFICES ASSUME IndexInv, [Next]_vars PROVE IndexInv'
  OBVIOUS
<1>1. TypeOK'
  BY NextType DEF IndexInv
<1>2. CASE \E sender \in Addresses : RecordStep(sender)
  BY <1>1, <1>2, AttestKeepsIndex, SupersedeKeepsIndex, RevokeKeepsIndex DEF RecordStep, IndexInv
<1>3. CASE UNCHANGED <<recordVars, linkVars>>
  BY <1>1, <1>3 DEF IndexInv, ActiveIsIssued, IndexAgreesWithRecords, IsActive, IsIssued, recordVars
<1>4. QED
  BY <1>2, <1>3, OthersKeepRecords

LEMMA IndexInit == Init => IndexInv
<1> SUFFICES ASSUME Init PROVE IndexInv
  OBVIOUS
<1>1. TypeOK
  BY InitType
<1>2. \A id \in AttestationIds : ~IsActive(id)
  BY DEF Init, IsActive, NoAttestation
<1>3. \A s \in Subjects, k \in Skills : activeSkillAttestation[<<s, k>>] = Zero
  BY DEF Init
<1>4. QED
  BY <1>1, <1>2, <1>3, ZeroIsNoId DEF IndexInv, ActiveIsIssued, IndexAgreesWithRecords

LEMMA IndexInvariant == Spec => []IndexInv
BY IndexInit, IndexInductive, PTL DEF Spec

(* The index and the records agree in every reachable state. *)
THEOREM IndexAgreement == Spec => []IndexAgreesWithRecords
<1>1. IndexInv => IndexAgreesWithRecords
  BY DEF IndexInv
<1>2. QED
  BY <1>1, IndexInvariant, PTL

(* No subject ever has two active credentials for one skill: two of them
   would have to be the target of one pointer. *)
THEOREM OneActive == Spec => []OneActivePerSkill
<1>1. IndexInv => OneActivePerSkill
  <2> SUFFICES ASSUME IndexInv, NEW a \in AttestationIds, NEW b \in AttestationIds,
                      IsActive(a), IsActive(b), SubjectOf(a) = SubjectOf(b),
                      NEW k \in attestations[a].skillIds \cap attestations[b].skillIds
               PROVE  a = b
    BY DEF OneActivePerSkill
  <2>1. k \in Skills /\ SubjectOf(a) \in Subjects
    BY SubjectType DEF IndexInv, TypeOK, Attestation
  <2>2. activeSkillAttestation[<<SubjectOf(a), k>>] = a /\ activeSkillAttestation[<<SubjectOf(a), k>>] = b
    BY <2>1 DEF IndexInv, IndexAgreesWithRecords
  <2>3. QED
    BY <2>2
<1>2. QED
  BY <1>1, IndexInvariant, PTL

-----------------------------------------------------------------------------
(* The lineage. *)

LineageInv == IndexInv /\ LineageLinksAgree

LEMMA LineageInit == Init => LineageLinksAgree /\ LineageEnds
<1> SUFFICES ASSUME Init PROVE LineageLinksAgree /\ LineageEnds
  OBVIOUS
<1>1. \A id \in AttestationIds : successorOf[id] = Zero /\ predecessorOf[id] = Zero
  BY DEF Init
<1>2. LineageLinksAgree
  BY <1>1, ZeroIsNoId DEF LineageLinksAgree
<1>3. ASSUME NEW S \in SUBSET AttestationIds, S # {}
      PROVE  \E id \in S : successorOf[id] \notin S
  BY <1>1, <1>3, ZeroIsNoId
<1>4. QED
  BY <1>2, <1>3 DEF LineageEnds

(* What a supersession does to the records and the links. *)
LEMMA SupersedeEffect ==
  ASSUME IndexInv,
         NEW sender \in Addresses, NEW old \in AttestationIds, NEW credential \in Credentials,
         NEW evidence \in Evidence, NEW program \in Programs,
         SupersedeWithProof(sender, old, credential, evidence, program),
         NEW new, new = DeriveAttestationId(SubjectOf(old), credential)
  PROVE  /\ new \in AttestationIds /\ SubjectOf(new) = SubjectOf(old) /\ new # old
         /\ IsIssued(old) /\ IsActive(old) /\ ~IsIssued(new) /\ ~IsActive(new)
         /\ attestations'[old] = Retired(attestations[old])
         /\ attestations'[old].revokedAt = now /\ ~attestations'[old].active
         /\ attestations'[old].issuedAt = attestations[old].issuedAt
         /\ attestations'[old].skillIds = attestations[old].skillIds
         /\ attestations'[old].scope = attestations[old].scope
         /\ attestations'[new].issuedAt = now
         /\ attestations'[new].skillIds = attestations[old].skillIds
         /\ attestations'[new].scope = attestations[old].scope
         /\ \A id \in AttestationIds \ {old, new} : attestations'[id] = attestations[id]
         /\ \A id \in AttestationIds :
              /\ successorOf'[id] = IF id = old THEN new ELSE successorOf[id]
              /\ predecessorOf'[id] = IF id = new THEN old ELSE predecessorOf[id]
         /\ now # 0
<1>1. new \in AttestationIds /\ SubjectOf(new) = SubjectOf(old)
  BY SubjectType, DerivedIds
<1>2. IsIssued(old) /\ IsActive(old) /\ ~IsIssued(new)
  BY DEF SupersedeWithProof, IsFresh
<1>3. new # old /\ ~IsActive(new)
  BY <1>1, <1>2 DEF IndexInv, ActiveIsIssued
<1>4. attestations[old] \in Attestation
  BY DEF IndexInv, TypeOK
<1>5. attestations' =
        [attestations EXCEPT
           ![new] = NewRecord(evidence, program, Root, attestations[old].scope, attestations[old].skillIds),
           ![old] = Retired(attestations[old])]
  BY DEF SupersedeWithProof
<1>6. /\ attestations'[old] = Retired(attestations[old])
      /\ attestations'[new] =
           NewRecord(evidence, program, Root, attestations[old].scope, attestations[old].skillIds)
      /\ \A id \in AttestationIds \ {old, new} : attestations'[id] = attestations[id]
  BY <1>1, <1>3, <1>5 DEF IndexInv, TypeOK
<1>7. /\ Retired(attestations[old]).revokedAt = now /\ ~Retired(attestations[old]).active
      /\ Retired(attestations[old]).issuedAt = attestations[old].issuedAt
      /\ Retired(attestations[old]).skillIds = attestations[old].skillIds
      /\ Retired(attestations[old]).scope = attestations[old].scope
  BY <1>4 DEF Retired, Attestation
<1>8. /\ attestations'[new].issuedAt = now
      /\ attestations'[new].skillIds = attestations[old].skillIds
      /\ attestations'[new].scope = attestations[old].scope
  BY <1>6 DEF NewRecord
<1>9. \A id \in AttestationIds :
        /\ successorOf'[id] = IF id = old THEN new ELSE successorOf[id]
        /\ predecessorOf'[id] = IF id = new THEN old ELSE predecessorOf[id]
  BY <1>1 DEF SupersedeWithProof, IndexInv, TypeOK
<1>10. now # 0
  BY DEF IndexInv, TypeOK
<1>11. QED
  BY <1>1, <1>2, <1>3, <1>6, <1>7, <1>8, <1>9, <1>10

(* What a linked record does not lose: a step keeps a record issued and, once
   it is inactive, as it is. *)
LEMMA RetiredIsKept ==
  ASSUME IndexInv, NEW sender \in Addresses, RecordStep(sender), NEW id \in AttestationIds, IsIssued(id)
  PROVE  \/ attestations'[id] = attestations[id]
         \/ IsActive(id) /\ attestations'[id] = Retired(attestations[id])
<1>1. ASSUME NEW subject \in Subjects, NEW credential \in Credentials, NEW evidence \in Evidence,
             NEW program \in Programs, NEW scope \in Scopes, NEW skillIds \in SUBSET Skills,
             AttestWithProof(sender, subject, credential, evidence, program, scope, skillIds)
      PROVE  attestations'[id] = attestations[id]
  BY <1>1, DerivedIds DEF AttestWithProof, IsFresh, IndexInv, TypeOK
<1>2. ASSUME NEW old \in AttestationIds, NEW credential \in Credentials, NEW evidence \in Evidence,
             NEW program \in Programs, SupersedeWithProof(sender, old, credential, evidence, program)
      PROVE  \/ attestations'[id] = attestations[id]
             \/ IsActive(id) /\ attestations'[id] = Retired(attestations[id])
  BY <1>2, SupersedeEffect
<1>3. ASSUME NEW old \in AttestationIds, RevokeAttestation(sender, old)
      PROVE  \/ attestations'[id] = attestations[id]
             \/ IsActive(id) /\ attestations'[id] = Retired(attestations[id])
  BY <1>3 DEF RevokeAttestation, IndexInv, TypeOK
<1>4. QED
  BY <1>1, <1>2, <1>3 DEF RecordStep

LEMMA LineageInductive == LineageInv /\ [Next]_vars => LineageLinksAgree'
<1> SUFFICES ASSUME LineageInv, [Next]_vars PROVE LineageLinksAgree'
  OBVIOUS
<1> USE DEF LineageInv
<1>1. CASE UNCHANGED <<recordVars, linkVars>>
  BY <1>1 DEF LineageLinksAgree, IsActive, IsIssued, recordVars, linkVars
<1>2. ASSUME NEW sender \in Addresses, RecordStep(sender), UNCHANGED linkVars
      PROVE  LineageLinksAgree'
  <2>1. \A id \in AttestationIds : IsIssued(id) =>
          /\ IsIssued(id)'
          /\ attestations'[id].issuedAt = attestations[id].issuedAt
          /\ attestations'[id].skillIds = attestations[id].skillIds
          /\ attestations'[id].scope = attestations[id].scope
          /\ ~IsActive(id) => attestations'[id] = attestations[id]
    <3> SUFFICES ASSUME NEW id \in AttestationIds, IsIssued(id)
                 PROVE  /\ IsIssued(id)'
                        /\ attestations'[id].issuedAt = attestations[id].issuedAt
                        /\ attestations'[id].skillIds = attestations[id].skillIds
                        /\ attestations'[id].scope = attestations[id].scope
                        /\ ~IsActive(id) => attestations'[id] = attestations[id]
      OBVIOUS
    <3>1. attestations[id] \in Attestation
      BY DEF IndexInv, TypeOK
    <3>2. /\ Retired(attestations[id]).issuedAt = attestations[id].issuedAt
          /\ Retired(attestations[id]).skillIds = attestations[id].skillIds
          /\ Retired(attestations[id]).scope = attestations[id].scope
      BY <3>1 DEF Retired, Attestation
    <3>3. QED
      BY <1>2, <3>2, RetiredIsKept DEF IsIssued
  <2>2. QED
    BY <1>2, <2>1 DEF LineageLinksAgree, IsActive, linkVars
<1>3. ASSUME NEW sender \in Addresses, NEW old \in AttestationIds, NEW credential \in Credentials,
             NEW evidence \in Evidence, NEW program \in Programs,
             SupersedeWithProof(sender, old, credential, evidence, program)
      PROVE  LineageLinksAgree'
  <2> DEFINE new == DeriveAttestationId(SubjectOf(old), credential)
  <2> HIDE DEF new
  <2>1. \A id \in AttestationIds : successorOf[id] # new /\ predecessorOf[id] # old
    BY <1>3, SupersedeEffect, ZeroIsNoId DEF LineageLinksAgree, IndexInv, TypeOK, new
  <2>2. \A a, b \in AttestationIds : successorOf'[a] = b <=> predecessorOf'[b] = a
    BY <1>3, <2>1, SupersedeEffect DEF LineageLinksAgree, new
  <2>3. ASSUME NEW a \in AttestationIds, NEW b \in AttestationIds, successorOf'[a] = b, a = old
        PROVE  b = new
    BY <1>3, <2>3, SupersedeEffect DEF new
  <2>4. ASSUME NEW a \in AttestationIds, NEW b \in AttestationIds, successorOf'[a] = b, a # old
        PROVE  successorOf[a] = b /\ a # new
    BY <1>3, <2>4, SupersedeEffect DEF LineageLinksAgree, new
  <2>5. \A a, b \in AttestationIds : successorOf'[a] = b =>
          /\ IsIssued(a)' /\ ~IsActive(a)' /\ IsIssued(b)'
          /\ SubjectOf(a) = SubjectOf(b)
          /\ attestations'[a].skillIds = attestations'[b].skillIds
          /\ attestations'[a].scope = attestations'[b].scope
          /\ attestations'[a].revokedAt = attestations'[b].issuedAt
    <3> SUFFICES ASSUME NEW a \in AttestationIds, NEW b \in AttestationIds, successorOf'[a] = b
                 PROVE  /\ IsIssued(a)' /\ ~IsActive(a)' /\ IsIssued(b)'
                        /\ SubjectOf(a) = SubjectOf(b)
                        /\ attestations'[a].skillIds = attestations'[b].skillIds
                        /\ attestations'[a].scope = attestations'[b].scope
                        /\ attestations'[a].revokedAt = attestations'[b].issuedAt
      OBVIOUS
    <3>1. CASE a = old
      BY <1>3, <3>1, <2>3, SupersedeEffect DEF IsIssued, IsActive, new
    <3>2. CASE a # old
      <4>1. successorOf[a] = b /\ a # new
        BY <2>4, <3>2
      <4>2. attestations'[a] = attestations[a]
        BY <1>3, <3>2, <4>1, SupersedeEffect DEF new
      <4>3. /\ attestations'[b].issuedAt = attestations[b].issuedAt
            /\ attestations'[b].skillIds = attestations[b].skillIds
            /\ attestations'[b].scope = attestations[b].scope
        BY <1>3, <4>1, SupersedeEffect DEF LineageLinksAgree, new
      <4>4. QED
        BY <4>1, <4>2, <4>3 DEF LineageLinksAgree, IsIssued, IsActive
    <3>3. QED
      BY <3>1, <3>2
  <2>6. QED
    BY <2>2, <2>5 DEF LineageLinksAgree
<1>4. ASSUME NEW sender \in Addresses, RecordStep(sender)
      PROVE  LineageLinksAgree'
  BY <1>2, <1>3, <1>4 DEF RecordStep, AttestWithProof, RevokeAttestation
<1>5. QED
  BY <1>1, <1>4, OthersKeepRecords

LEMMA LineageInvariant == Spec => []LineageInv
<1>1. Init => LineageInv
  BY IndexInit, LineageInit DEF LineageInv
<1>2. LineageInv /\ [Next]_vars => LineageInv'
  BY IndexInductive, LineageInductive DEF LineageInv
<1>3. QED
  BY <1>1, <1>2, PTL DEF Spec

(* The successor and predecessor links are inverse and join records of one
   subject, with the same skills and scope, retired and issued together. *)
THEOREM LineageAgreement == Spec => []LineageLinksAgree
<1>1. LineageInv => LineageLinksAgree
  BY DEF LineageInv
<1>2. QED
  BY <1>1, LineageInvariant, PTL

(* No set of records is closed under successorOf: following it from any
   record ends, in the tip of the lineage. *)
THEOREM LineageTerminates == Spec => []LineageEnds
<1>1. Init => LineageEnds
  BY LineageInit
<1>2. LineageInv /\ LineageEnds /\ [Next]_vars => LineageEnds'
  <2> SUFFICES ASSUME LineageInv, LineageEnds, [Next]_vars PROVE LineageEnds'
    OBVIOUS
  <2>1. CASE UNCHANGED linkVars
    BY <2>1 DEF LineageEnds, linkVars
  <2>2. ASSUME NEW sender \in Addresses, NEW old \in AttestationIds, NEW credential \in Credentials,
               NEW evidence \in Evidence, NEW program \in Programs,
               SupersedeWithProof(sender, old, credential, evidence, program)
        PROVE  LineageEnds'
    <3> DEFINE new == DeriveAttestationId(SubjectOf(old), credential)
    <3>1. /\ new \in AttestationIds /\ ~IsIssued(new)
          /\ \A id \in AttestationIds : successorOf'[id] = IF id = old THEN new ELSE successorOf[id]
          /\ new # old
      BY <2>2, SupersedeEffect DEF LineageInv
    <3>2. successorOf'[new] = Zero
      BY <3>1 DEF LineageInv, LineageLinksAgree, IndexInv, TypeOK
    <3>3. ASSUME NEW S \in (SUBSET AttestationIds) \ {{}}
          PROVE  \E id \in S : successorOf'[id] \notin S
      <4>1. CASE new \in S
        BY <3>2, <4>1, ZeroIsNoId
      <4>2. CASE new \notin S
        <5>1. PICK id \in S : successorOf[id] \notin S
          BY DEF LineageEnds
        <5>2. QED
          BY <3>1, <4>2, <5>1
      <4>3. QED
        BY <4>1, <4>2
    <3>4. QED
      BY <3>3 DEF LineageEnds
  <2>3. ASSUME NEW sender \in Addresses, RecordStep(sender)
        PROVE  LineageEnds'
    BY <2>1, <2>2, <2>3 DEF RecordStep, AttestWithProof, RevokeAttestation
  <2>4. QED
    BY <2>1, <2>3, OthersKeepRecords
<1>3. QED
  BY <1>1, <1>2, LineageInvariant, PTL DEF Spec

-----------------------------------------------------------------------------
(* History. *)

(* A record only ever changes by being retired once, and set links are kept. *)
THEOREM History == Spec => HistoryIsImmutable
<1>1. LineageInv /\ [Next]_vars =>
        [\A id \in AttestationIds :
           /\ IsIssued(id) =>
                \/ attestations'[id] = attestations[id]
                \/ IsActive(id) /\ attestations'[id] = Retired(attestations[id])
           /\ successorOf[id] # Zero => successorOf'[id] = successorOf[id]
           /\ predecessorOf'[id] # predecessorOf[id] => ~IsIssued(id)]_vars
  <2> SUFFICES ASSUME LineageInv, [Next]_vars, NEW id \in AttestationIds
               PROVE  /\ IsIssued(id) =>
                           \/ attestations'[id] = attestations[id]
                           \/ IsActive(id) /\ attestations'[id] = Retired(attestations[id])
                      /\ successorOf[id] # Zero => successorOf'[id] = successorOf[id]
                      /\ predecessorOf'[id] # predecessorOf[id] => ~IsIssued(id)
    OBVIOUS
  <2>1. CASE UNCHANGED <<recordVars, linkVars>>
    BY <2>1 DEF recordVars, linkVars
  <2>2. ASSUME NEW sender \in Addresses, RecordStep(sender)
        PROVE  /\ successorOf[id] # Zero => successorOf'[id] = successorOf[id]
               /\ predecessorOf'[id] # predecessorOf[id] => ~IsIssued(id)
    <3>1. CASE UNCHANGED linkVars
      BY <3>1 DEF linkVars
    <3>2. ASSUME NEW old \in AttestationIds, NEW credential \in Credentials,
                 NEW evidence \in Evidence, NEW program \in Programs,
                 SupersedeWithProof(sender, old, credential, evidence, program)
          PROVE  /\ successorOf[id] # Zero => successorOf'[id] = successorOf[id]
                 /\ predecessorOf'[id] # predecessorOf[id] => ~IsIssued(id)
      <4>1. successorOf[old] = Zero
        BY <3>2, SupersedeEffect DEF LineageInv, LineageLinksAgree, IndexInv, TypeOK
      <4>2. QED
        BY <3>2, <4>1, SupersedeEffect DEF LineageInv
    <3>3. QED
      BY <2>2, <3>1, <3>2 DEF RecordStep, AttestWithProof, RevokeAttestation
  <2>3. QED
    BY <2>1, <2>2, RetiredIsKept, OthersKeepRecords DEF LineageInv
<1>2. QED
  BY <1>1, LineageInvariant, PTL DEF Spec, HistoryIsImmutable

-----------------------------------------------------------------------------
(* Records. *)

RecordInv == LineageInv /\ RecordsWellFormed

LEMMA RecordInit == Init => RecordsWellFormed
BY DEF Init, RecordsWellFormed, RecordIsWellFormed, IsIssued, NoAttestation

LEMMA AttestKeepsRecords ==
  ASSUME RecordInv,
         NEW sender \in Addresses, NEW subject \in Subjects, NEW credential \in Credentials,
         NEW evidence \in Evidence, NEW program \in Programs, NEW scope \in Scopes,
         NEW skillIds \in SUBSET Skills,
         AttestWithProof(sender, subject, credential, evidence, program, scope, skillIds)
  PROVE  RecordsWellFormed'
<1> DEFINE new == DeriveAttestationId(subject, credential)
           record == NewRecord(evidence, program, sender, scope, skillIds)
<1>1. new \in AttestationIds /\ CredentialOf(new) \in Provable
  BY DerivedIds DEF AttestWithProof, AcceptsProof, CredentialOf, DeriveAttestationId
<1>2. \A id \in AttestationIds : attestations'[id] = IF id = new THEN record ELSE attestations[id]
  BY <1>1 DEF AttestWithProof, RecordInv, LineageInv, IndexInv, TypeOK
<1>3. /\ record.issuer = sender /\ record.skillIds = skillIds
      /\ record.issuedAt = now /\ record.revokedAt = 0 /\ record.active
  BY DEF NewRecord
<1>4. UNCHANGED <<now, holderBindings, linkVars>> /\ ~IsIssued(new) /\ sender # Root /\ skillIds # {}
  BY DEF AttestWithProof, IsFresh, MayAttest
<1>5. now \in Nat /\ now # 0
  BY DEF RecordInv, LineageInv, IndexInv, TypeOK
<1>6. RecordIsWellFormed(new)'
  <2>1. holderBindings[new] = NoBinding /\ predecessorOf[new] = Zero
    BY <1>1, <1>4 DEF RecordInv, RecordsWellFormed, RecordIsWellFormed
  <2>2. ~holderBindings[new].active
    BY <2>1 DEF NoBinding
  <2>3. QED
    BY <1>1, <1>2, <1>3, <1>4, <1>5, <2>1, <2>2 DEF RecordIsWellFormed, IsIssued, IsActive, linkVars
<1>7. ASSUME NEW id \in AttestationIds, id # new
      PROVE  RecordIsWellFormed(id)'
  BY <1>2, <1>4, <1>7 DEF RecordInv, RecordsWellFormed, RecordIsWellFormed, IsIssued, IsActive, linkVars
<1>8. QED
  BY <1>6, <1>7 DEF RecordsWellFormed

LEMMA SupersedeKeepsRecords ==
  ASSUME RecordInv,
         NEW sender \in Addresses, NEW old \in AttestationIds, NEW credential \in Credentials,
         NEW evidence \in Evidence, NEW program \in Programs,
         SupersedeWithProof(sender, old, credential, evidence, program)
  PROVE  RecordsWellFormed'
<1> DEFINE new == DeriveAttestationId(SubjectOf(old), credential)
           record == NewRecord(evidence, program, Root, attestations[old].scope, attestations[old].skillIds)
<1>1. CredentialOf(new) \in Provable
  BY DEF SupersedeWithProof, AcceptsProof, CredentialOf, DeriveAttestationId
<1>2. /\ new \in AttestationIds /\ new # old /\ IsIssued(old) /\ IsActive(old) /\ ~IsIssued(new)
      /\ \A id \in AttestationIds \ {old, new} : attestations'[id] = attestations[id]
      /\ \A id \in AttestationIds :
           /\ successorOf'[id] = IF id = old THEN new ELSE successorOf[id]
           /\ predecessorOf'[id] = IF id = new THEN old ELSE predecessorOf[id]
      /\ attestations'[old] = Retired(attestations[old])
  BY SupersedeEffect DEF RecordInv, LineageInv
<1>3. attestations'[new] = record
  BY <1>2 DEF SupersedeWithProof, RecordInv, LineageInv, IndexInv, TypeOK
<1>4. /\ record.issuer = Root /\ record.skillIds = attestations[old].skillIds
      /\ record.issuedAt = now /\ record.revokedAt = 0 /\ record.active
  BY DEF NewRecord
<1>5. UNCHANGED <<now, holderBindings>>
  BY DEF SupersedeWithProof
<1>6. now \in Nat /\ now # 0 /\ attestations[old] \in Attestation
  BY DEF RecordInv, LineageInv, IndexInv, TypeOK
<1>7. /\ Retired(attestations[old]).issuer = attestations[old].issuer
      /\ Retired(attestations[old]).skillIds = attestations[old].skillIds
      /\ Retired(attestations[old]).issuedAt = attestations[old].issuedAt
      /\ Retired(attestations[old]).revokedAt = now
      /\ ~Retired(attestations[old]).active
      /\ attestations[old].issuedAt \in Nat
  BY <1>6 DEF Retired, Attestation
<1>8. RecordIsWellFormed(old) /\ RecordIsWellFormed(new)
  BY <1>2 DEF RecordInv, RecordsWellFormed
<1>9. RecordIsWellFormed(old)'
  BY <1>2, <1>5, <1>6, <1>7, <1>8 DEF RecordIsWellFormed, IsIssued, IsActive
<1>10. RecordIsWellFormed(new)'
  <2>1. ~holderBindings[new].active
    BY <1>2, <1>8 DEF RecordIsWellFormed, NoBinding
  <2>2. attestations[old].skillIds # {}
    BY <1>2, <1>8 DEF RecordIsWellFormed
  <2>3. old # Zero
    BY ZeroIsNoId
  <2>4. QED
    BY <1>1, <1>2, <1>3, <1>4, <1>5, <1>6, <2>1, <2>2, <2>3 DEF RecordIsWellFormed, IsIssued, IsActive
<1>11. ASSUME NEW id \in AttestationIds, id # old, id # new
       PROVE  RecordIsWellFormed(id)'
  BY <1>2, <1>5, <1>11 DEF RecordInv, RecordsWellFormed, RecordIsWellFormed, IsIssued, IsActive
<1>12. QED
  BY <1>9, <1>10, <1>11 DEF RecordsWellFormed

LEMMA RevokeKeepsRecords ==
  ASSUME RecordInv, NEW sender \in Addresses, NEW old \in AttestationIds, RevokeAttestation(sender, old)
  PROVE  RecordsWellFormed'
<1>1. \A id \in AttestationIds :
        attestations'[id] = IF id = old THEN Retired(attestations[old]) ELSE attestations[id]
  BY DEF RevokeAttestation, RecordInv, LineageInv, IndexInv, TypeOK
<1>2. UNCHANGED <<now, holderBindings, linkVars>> /\ IsIssued(old) /\ IsActive(old)
  BY DEF RevokeAttestation
<1>3. now \in Nat /\ now # 0 /\ attestations[old] \in Attestation
  BY DEF RecordInv, LineageInv, IndexInv, TypeOK
<1>4. /\ Retired(attestations[old]).issuer = attestations[old].issuer
      /\ Retired(attestations[old]).skillIds = attestations[old].skillIds
      /\ Retired(attestations[old]).issuedAt = attestations[old].issuedAt
      /\ Retired(attestations[old]).revokedAt = now
      /\ ~Retired(attestations[old]).active
      /\ attestations[old].issuedAt \in Nat
  BY <1>3 DEF Retired, Attestation
<1>5. ASSUME NEW id \in AttestationIds
      PROVE  RecordIsWellFormed(id)'
  <2>1. RecordIsWellFormed(id)
    BY DEF RecordInv, RecordsWellFormed
  <2>2. CASE id = old
    BY <1>1, <1>2, <1>3, <1>4, <2>1, <2>2 DEF RecordIsWellFormed, IsIssued, IsActive, linkVars
  <2>3. CASE id # old
    BY <1>1, <1>2, <2>1, <2>3 DEF RecordIsWellFormed, IsIssued, IsActive, linkVars
  <2>4. QED
    BY <2>2, <2>3
<1>6. QED
  BY <1>5 DEF RecordsWellFormed

(* The block and the holder functions, which write no records. *)
LEMMA OthersKeepWellFormed ==
  ASSUME RecordInv, [Next]_vars, UNCHANGED <<recordVars, linkVars>>
  PROVE  RecordsWellFormed'
<1>1. now \in Nat /\ now' \in Nat /\ now <= now'
  <2>1. now \in Nat
    BY DEF RecordInv, LineageInv, IndexInv, TypeOK
  <2>2. ASSUME NEW sender \in Addresses, IssuerStep(sender) \/ RecordStep(sender) \/ HolderStep(sender)
        PROVE  UNCHANGED now
    BY <2>2 DEF IssuerStep, DelegateIssuer, DelegateIssuerFor, RevokeIssuer, RecordStep, AttestWithProof,
                SupersedeWithProof, RevokeAttestation, HolderStep, BindHolder, RevokeHolderBinding
  <2>3. QED
    BY <2>1, <2>2 DEF Next, NextBlock, vars
<1>2. ASSUME NEW id \in AttestationIds, holderBindings'[id] # holderBindings[id]
      PROVE  IsIssued(id) /\ (holderBindings'[id].active => holderBindings'[id].holder # Zero)
  <2>1. PICK sender \in Addresses : HolderStep(sender) \/ RecordStep(sender)
    BY <1>2 DEF Next, NextBlock, vars, IssuerStep, DelegateIssuer, DelegateIssuerFor, RevokeIssuer
  <2>2. HolderStep(sender)
    BY <1>2, <2>1 DEF RecordStep, AttestWithProof, SupersedeWithProof, RevokeAttestation
  <2>3. PICK at \in AttestationIds :
          \/ \E holder \in Holders, expiry \in Expiries : BindHolder(sender, at, holder, expiry)
          \/ RevokeHolderBinding(sender, at)
    BY <2>2 DEF HolderStep
  <2>4. Zero \notin Holders
    BY AccountAssumption, ZeroAssumption
  <2>5. holderBindings \in [AttestationIds -> HolderBinding]
    BY DEF RecordInv, LineageInv, IndexInv, TypeOK
  <2>6. CASE \E holder \in Holders, expiry \in Expiries : BindHolder(sender, at, holder, expiry)
    BY <1>2, <2>4, <2>5, <2>6 DEF BindHolder, NewBinding
  <2>7. CASE RevokeHolderBinding(sender, at)
    BY <1>2, <2>5, <2>7 DEF RevokeHolderBinding, HolderBinding
  <2>8. QED
    BY <2>3, <2>6, <2>7
<1>3. ASSUME NEW id \in AttestationIds
      PROVE  RecordIsWellFormed(id)'
  <2>1. RecordIsWellFormed(id)
    BY DEF RecordInv, RecordsWellFormed
  <2>2. attestations[id] \in Attestation
    BY DEF RecordInv, LineageInv, IndexInv, TypeOK
  <2>3. attestations[id].issuedAt \in Nat /\ attestations[id].revokedAt \in Nat
    BY <2>2 DEF Attestation
  <2>4. QED
    BY <1>1, <1>2, <2>1, <2>3 DEF RecordIsWellFormed, IsIssued, IsActive, recordVars, linkVars
<1>4. QED
  BY <1>3 DEF RecordsWellFormed

LEMMA RecordInvariant == Spec => []RecordInv
<1>1. Init => RecordInv
  BY IndexInit, LineageInit, RecordInit DEF RecordInv, LineageInv
<1>2. RecordInv /\ [Next]_vars => RecordInv'
  <2> SUFFICES ASSUME RecordInv, [Next]_vars PROVE RecordInv'
    OBVIOUS
  <2>1. LineageInv'
    BY IndexInductive, LineageInductive DEF RecordInv, LineageInv
  <2>2. CASE \E sender \in Addresses : RecordStep(sender)
    BY <2>1, <2>2, AttestKeepsRecords, SupersedeKeepsRecords, RevokeKeepsRecords DEF RecordStep, RecordInv
  <2>3. CASE UNCHANGED <<recordVars, linkVars>>
    BY <2>1, <2>3, OthersKeepWellFormed DEF RecordInv
  <2>4. QED
    BY <2>2, <2>3, OthersKeepRecords
<1>3. QED
  BY <1>1, <1>2, PTL DEF Spec

(* Unissued identifiers have nothing to inherit; issued ones were proved, are
   dated by their state, and are the root's exactly if they continue a lineage. *)
THEOREM WellFormedRecords == Spec => []RecordsWellFormed
<1>1. RecordInv => RecordsWellFormed
  BY DEF RecordInv
<1>2. QED
  BY <1>1, RecordInvariant, PTL

(* verifyAttestation, isCurrent and hasSkill never contradict each other, and
   one current record stands behind each skill that hasSkill confirms. *)
THEOREM SurfacesAgree == Spec => []QuerySurfacesAgree
<1>1. LineageInv => QuerySurfacesAgree
  <2> SUFFICES ASSUME LineageInv PROVE QuerySurfacesAgree
    OBVIOUS
  <2>1. \A id \in AttestationIds : IsActive(id) => IsCurrent(id)
    BY DEF LineageInv, LineageLinksAgree, IndexInv, TypeOK, IsCurrent
  <2>2. \A id \in AttestationIds, evidence \in Evidence : VerifyAttestation(id, evidence) => IsCurrent(id)
    BY <2>1 DEF VerifyAttestation
  <2>3. ASSUME NEW id \in AttestationIds, IsCurrent(id), NEW skill \in attestations[id].skillIds
        PROVE  HasSkill(SubjectOf(id), skill)
    <3>1. skill \in Skills /\ SubjectOf(id) \in Subjects /\ IsActive(id)
      BY <2>3, SubjectType DEF LineageInv, IndexInv, TypeOK, Attestation, IsCurrent
    <3>2. activeSkillAttestation[<<SubjectOf(id), skill>>] = id
      BY <3>1 DEF LineageInv, IndexInv, IndexAgreesWithRecords
    <3>3. QED
      BY <3>1, <3>2, ZeroIsNoId DEF HasSkill
  <2>4. ASSUME NEW subject \in Subjects, NEW skill \in Skills, HasSkill(subject, skill)
        PROVE  Cardinality({id \in AttestationIds : IsCurrent(id) /\ SubjectOf(id) = subject
                                                     /\ skill \in attestations[id].skillIds}) = 1
    <3> DEFINE tip == activeSkillAttestation[<<subject, skill>>]
    <3>1. tip \in AttestationIds /\ IsActive(tip)
      BY <2>4 DEF HasSkill, LineageInv, IndexInv, TypeOK
    <3>2. \A id \in AttestationIds :
            IsCurrent(id) /\ SubjectOf(id) = subject /\ skill \in attestations[id].skillIds <=> id = tip
      BY <2>1, <3>1 DEF LineageInv, IndexInv, IndexAgreesWithRecords, IsCurrent
    <3>3. {id \in AttestationIds : IsCurrent(id) /\ SubjectOf(id) = subject
                                     /\ skill \in attestations[id].skillIds} = {tip}
      BY <3>1, <3>2
    <3>4. QED
      BY <3>3, FS_Singleton
  <2>5. QED
    BY <2>2, <2>3, <2>4 DEF QuerySurfacesAgree
<1>2. QED
  BY <1>1, LineageInvariant, PTL

-----------------------------------------------------------------------------
(* Authority. *)

(* A child records nothing outside the delegation it holds at that moment. *)
THEOREM IssuanceConfined == Spec => ConfinedIssuance
<1> DEFINE Confined(id) ==
      ~IsIssued(id) /\ IsIssued(id)' /\ attestations'[id].issuer # Root =>
        LET record == attestations'[id]
            grant == delegatedIssuers[record.issuer] IN
        /\ grant.active /\ record.scope \in grant.scopeMask
        /\ grant.subjectCommitment # Zero =>
             /\ SubjectOf(id) = grant.subjectCommitment
             /\ record.skillIds = {grant.skillId}
             /\ record.programId = grant.programId
             /\ now < grant.expiresAt
<1>1. IndexInv /\ [Next]_vars => [\A id \in AttestationIds : Confined(id)]_vars
  <2> SUFFICES ASSUME IndexInv, [Next]_vars, NEW id \in AttestationIds PROVE Confined(id)
    OBVIOUS
  <2>1. CASE UNCHANGED <<recordVars, linkVars>>
    BY <2>1 DEF recordVars, IsIssued
  <2>2. ASSUME NEW sender \in Addresses, NEW subject \in Subjects, NEW credential \in Credentials,
               NEW evidence \in Evidence, NEW program \in Programs, NEW scope \in Scopes,
               NEW skillIds \in SUBSET Skills,
               AttestWithProof(sender, subject, credential, evidence, program, scope, skillIds)
        PROVE  Confined(id)
    <3> DEFINE new == DeriveAttestationId(subject, credential)
    <3>1. new \in AttestationIds /\ SubjectOf(new) = subject
      BY DerivedIds
    <3>2. attestations' = [attestations EXCEPT ![new] = NewRecord(evidence, program, sender, scope, skillIds)]
      BY <2>2 DEF AttestWithProof
    <3>3. CASE id = new
      <4>1. attestations'[id] = NewRecord(evidence, program, sender, scope, skillIds)
        BY <3>1, <3>2, <3>3 DEF IndexInv, TypeOK
      <4>2. /\ attestations'[id].issuer = sender /\ attestations'[id].scope = scope
            /\ attestations'[id].programId = program /\ attestations'[id].skillIds = skillIds
        BY <4>1 DEF NewRecord
      <4>3. /\ sender # Root /\ IsScopedIssuer(sender, scope)
            /\ DelegationMatches(delegatedIssuers[sender], subject, program, skillIds)
        BY <2>2 DEF AttestWithProof, MayAttest
      <4>4. QED
        BY <3>1, <3>3, <4>2, <4>3 DEF IsScopedIssuer, DelegationMatches
    <3>4. CASE id # new
      BY <3>1, <3>2, <3>4 DEF IsIssued, IndexInv, TypeOK
    <3>5. QED
      BY <3>3, <3>4
  <2>3. ASSUME NEW sender \in Addresses, NEW old \in AttestationIds, NEW credential \in Credentials,
               NEW evidence \in Evidence, NEW program \in Programs,
               SupersedeWithProof(sender, old, credential, evidence, program)
        PROVE  Confined(id)
    <3> DEFINE new == DeriveAttestationId(SubjectOf(old), credential)
    <3>1. /\ new \in AttestationIds /\ new # old
          /\ IsIssued(old)
          /\ \A i \in AttestationIds \ {old, new} : attestations'[i] = attestations[i]
      BY <2>3, SupersedeEffect
    <3>2. attestations'[new] =
            NewRecord(evidence, program, Root, attestations[old].scope, attestations[old].skillIds)
      BY <2>3, <3>1 DEF SupersedeWithProof, IndexInv, TypeOK
    <3>3. attestations'[new].issuer = Root
      BY <3>2 DEF NewRecord
    <3>4. QED
      BY <3>1, <3>3 DEF IsIssued
  <2>4. ASSUME NEW sender \in Addresses, NEW old \in AttestationIds, RevokeAttestation(sender, old)
        PROVE  Confined(id)
    <3>1. IsIssued(old)
      BY <2>4 DEF RevokeAttestation
    <3>2. id # old => attestations'[id] = attestations[id]
      BY <2>4 DEF RevokeAttestation, IndexInv, TypeOK
    <3>3. QED
      BY <3>1, <3>2 DEF IsIssued
  <2> HIDE DEF Confined
  <2>5. QED
    BY <2>1, <2>2, <2>3, <2>4, OthersKeepRecords DEF RecordStep
<1>2. QED
  BY <1>1, IndexInvariant, PTL DEF Spec, ConfinedIssuance

(* The authority of a holder starts by bindHolder only, in the hands of the
   root or of the record's own issuer: a new record has no binding to inherit,
   time only takes authority away, and no transaction brings a record or a
   binding back.  It ends with the record: one that is dated or followed is not
   active, and IsHolderAuthorized asks for that. *)
THEOREM HolderAuthority == Spec => HolderAuthorityConfined
<1> DEFINE Starts(id) ==
      LET binder == holderBindings'[id].boundBy IN
      /\ IsActive(id) /\ ~BindingIsLive(id)
      /\ \/ binder = Root
         \/ /\ binder = attestations[id].issuer
            /\ IsScopedIssuer(binder, attestations[id].scope)
      /\ UNCHANGED <<now, delegatedIssuers, recordVars, linkVars>>
<1> DEFINE Ended(id, h) ==
      (attestations[id].revokedAt # 0 \/ successorOf[id] # Zero) => ~IsHolderAuthorized(id, h)
<1>1. RecordInv /\ [Next]_vars =>
        [\A id \in AttestationIds, h \in Holders :
           ~IsHolderAuthorized(id, h) /\ IsHolderAuthorized(id, h)' => Starts(id)]_vars
  <2> SUFFICES ASSUME RecordInv, [Next]_vars, NEW id \in AttestationIds, NEW h \in Holders,
                      ~IsHolderAuthorized(id, h), IsHolderAuthorized(id, h)'
               PROVE  Starts(id)
    OBVIOUS
  <2>1. holderBindings \in [AttestationIds -> HolderBinding] /\ now \in Nat
    BY DEF RecordInv, LineageInv, IndexInv, TypeOK
  <2>2. holderBindings[id].expiresAt \in Nat
    <3>1. holderBindings[id].expiresAt \in Expiries \cup {0}
      BY <2>1 DEF HolderBinding
    <3>2. Expiries \cup {0} \subseteq Nat
      BY ExpiriesAssumption
    <3>3. QED
      BY <3>1, <3>2, Zenon
  <2>3. CASE NextBlock
    BY <2>1, <2>2, <2>3 DEF NextBlock, IsHolderAuthorized, IsActive, recordVars
  <2>4. CASE UNCHANGED vars
    BY <2>4 DEF vars, IsHolderAuthorized, IsActive, recordVars
  <2>5. ASSUME NEW sender \in Addresses, IssuerStep(sender)
        PROVE  FALSE
    BY <2>5 DEF IssuerStep, DelegateIssuer, DelegateIssuerFor, RevokeIssuer,
                IsHolderAuthorized, IsActive, recordVars
  <2>6. ASSUME NEW sender \in Addresses, RecordStep(sender)
        PROVE  FALSE
    <3>1. UNCHANGED <<now, holderBindings>>
      BY <2>6 DEF RecordStep, AttestWithProof, SupersedeWithProof, RevokeAttestation
    <3>2. CASE IsIssued(id)
      <4>1. \/ attestations'[id] = attestations[id]
            \/ IsActive(id) /\ attestations'[id] = Retired(attestations[id])
        BY <2>6, <3>2, RetiredIsKept DEF RecordInv, LineageInv
      <4>2. QED
        BY <3>1, <4>1 DEF IsHolderAuthorized, IsActive
    <3>3. CASE ~IsIssued(id)
      <4>1. ~holderBindings[id].active
        BY <3>3 DEF RecordInv, RecordsWellFormed, RecordIsWellFormed, NoBinding
      <4>2. QED
        BY <3>1, <4>1 DEF IsHolderAuthorized
    <3>4. QED
      BY <3>2, <3>3
  <2>7. ASSUME NEW sender \in Addresses, HolderStep(sender)
        PROVE  Starts(id)
    <3>1. PICK at \in AttestationIds :
            \/ \E holder \in Holders, expiry \in Expiries : BindHolder(sender, at, holder, expiry)
            \/ RevokeHolderBinding(sender, at)
      BY <2>7 DEF HolderStep
    <3>2. UNCHANGED <<now, delegatedIssuers, recordVars, linkVars>>
      BY <3>1 DEF BindHolder, RevokeHolderBinding
    <3>3. holderBindings'[id] # holderBindings[id]
      BY <3>2 DEF IsHolderAuthorized, IsActive, recordVars
    <3>4. CASE RevokeHolderBinding(sender, at)
      BY <2>1, <3>3, <3>4 DEF RevokeHolderBinding, IsHolderAuthorized, HolderBinding
    <3>5. ASSUME NEW holder \in Holders, NEW expiry \in Expiries, BindHolder(sender, at, holder, expiry)
          PROVE  Starts(id)
      <4>1. at = id /\ holderBindings'[id].boundBy = sender
        BY <2>1, <3>3, <3>5 DEF BindHolder, NewBinding
      <4>2. IsActive(id) /\ ~BindingIsLive(id) /\ MayManageHolder(sender, id)
        BY <3>5, <4>1 DEF BindHolder
      <4>3. QED
        BY <3>2, <4>1, <4>2 DEF MayManageHolder
    <3>6. QED
      BY <3>1, <3>4, <3>5
  <2>8. QED
    BY <2>3, <2>4, <2>5, <2>6, <2>7 DEF Next
<1>2. RecordInv => \A id \in AttestationIds, h \in Holders : Ended(id, h)
  <2> SUFFICES ASSUME RecordInv, NEW id \in AttestationIds, NEW h \in Holders, IsActive(id)
               PROVE  attestations[id].revokedAt = 0 /\ successorOf[id] = Zero
    BY DEF IsHolderAuthorized
  <2>1. IsIssued(id)
    BY DEF RecordInv, RecordsWellFormed, RecordIsWellFormed, IsActive, NoAttestation
  <2>2. attestations[id].revokedAt = 0
    BY <2>1 DEF RecordInv, RecordsWellFormed, RecordIsWellFormed
  <2>3. successorOf[id] = Zero
    BY DEF RecordInv, LineageInv, IndexInv, LineageLinksAgree, TypeOK
  <2>4. QED
    BY <2>2, <2>3
<1>3. RecordInv' => (\A id \in AttestationIds, h \in Holders : Ended(id, h))'
  BY <1>2, PTL
<1>4. RecordInv /\ RecordInv' /\ [Next]_vars =>
        [\A id \in AttestationIds, h \in Holders :
           /\ ~IsHolderAuthorized(id, h) /\ IsHolderAuthorized(id, h)' => Starts(id)
           /\ (attestations'[id].revokedAt # 0 \/ successorOf'[id] # Zero) =>
                ~IsHolderAuthorized(id, h)']_vars
  BY <1>1, <1>3
<1>5. QED
  BY <1>4, RecordInvariant, PTL DEF Spec, HolderAuthorityConfined

-----------------------------------------------------------------------------
(* Refinement of CredentialLedger. *)

LEMMA LedgerInitial == Init => Ledger!LedgerInit
BY DEF Init, Ledger!LedgerInit, Ledger!Slots, IsIssued, NoAttestation

LEMMA AttestIsCertify ==
  ASSUME IndexInv,
         NEW sender \in Addresses, NEW subject \in Subjects, NEW credential \in Credentials,
         NEW evidence \in Evidence, NEW program \in Programs, NEW scope \in Scopes,
         NEW skillIds \in SUBSET Skills,
         AttestWithProof(sender, subject, credential, evidence, program, scope, skillIds)
  PROVE  Ledger!Certify(DeriveAttestationId(subject, credential), subject, skillIds)
<1> DEFINE new == DeriveAttestationId(subject, credential)
           record == NewRecord(evidence, program, sender, scope, skillIds)
<1>1. new \in AttestationIds
  BY DerivedIds
<1>2. \A id \in AttestationIds : attestations'[id] = IF id = new THEN record ELSE attestations[id]
  BY <1>1 DEF AttestWithProof, IndexInv, TypeOK
<1>3. record.issuedAt # 0
  BY DEF NewRecord, IndexInv, TypeOK
<1>4. \A id \in AttestationIds : IsIssued(id)' <=> IsIssued(id) \/ id = new
  BY <1>2, <1>3 DEF IsIssued
<1>5. {id \in AttestationIds : IsIssued(id)}' = {id \in AttestationIds : IsIssued(id)} \cup {new}
  BY <1>1, <1>4
<1>6. new \notin {id \in AttestationIds : IsIssued(id)}
  BY DEF AttestWithProof, IsFresh
<1>7. /\ skillIds # {}
      /\ \A k \in skillIds : activeSkillAttestation[<<subject, k>>] = Zero
      /\ activeSkillAttestation' = PointTo(subject, skillIds, new)
  BY DEF AttestWithProof
<1>8. QED
  BY <1>5, <1>6, <1>7 DEF Ledger!Certify, Ledger!Slots, PointTo

(* By index agreement the slots that hold a record are those of its skills. *)
LEMMA SlotsOfRecord ==
  ASSUME IndexInv, NEW old \in AttestationIds, IsActive(old)
  PROVE  /\ \A slot \in Subjects \X Skills :
              activeSkillAttestation[slot] = old <=> slot \in {SubjectOf(old)} \X attestations[old].skillIds
         /\ Ledger!IsLive(old)
<1>1. attestations[old].skillIds \in SUBSET Skills /\ attestations[old].skillIds # {}
  BY DEF IndexInv, TypeOK, Attestation, ActiveIsIssued
<1>2. SubjectOf(old) \in Subjects
  BY SubjectType
<1>3. ASSUME NEW s \in Subjects, NEW k \in Skills
      PROVE  activeSkillAttestation[<<s, k>>] = old
               <=> <<s, k>> \in {SubjectOf(old)} \X attestations[old].skillIds
  BY DEF IndexInv, IndexAgreesWithRecords
<1>4. \A slot \in Subjects \X Skills :
        activeSkillAttestation[slot] = old <=> slot \in {SubjectOf(old)} \X attestations[old].skillIds
  BY <1>3
<1>5. PICK k \in attestations[old].skillIds : k \in Skills
  BY <1>1
<1>6. <<SubjectOf(old), k>> \in Subjects \X Skills /\ activeSkillAttestation[<<SubjectOf(old), k>>] = old
  BY <1>2, <1>3, <1>5
<1>7. QED
  BY <1>4, <1>6 DEF Ledger!IsLive, Ledger!Slots

LEMMA SupersedeIsReplace ==
  ASSUME IndexInv,
         NEW sender \in Addresses, NEW old \in AttestationIds, NEW credential \in Credentials,
         NEW evidence \in Evidence, NEW program \in Programs,
         SupersedeWithProof(sender, old, credential, evidence, program),
         NEW new, new = DeriveAttestationId(SubjectOf(old), credential)
  PROVE  new \in AttestationIds /\ Ledger!Replace(old, new)
<1>1. /\ new \in AttestationIds /\ ~IsIssued(new) /\ IsActive(old)
      /\ \A id \in AttestationIds : IsIssued(id)' <=> IsIssued(id) \/ id = new
  BY SupersedeEffect DEF IsIssued
<1>2. {id \in AttestationIds : IsIssued(id)}' = {id \in AttestationIds : IsIssued(id)} \cup {new}
  BY <1>1
<1>3. activeSkillAttestation' = PointTo(SubjectOf(old), attestations[old].skillIds, new)
  BY DEF SupersedeWithProof
<1>4. activeSkillAttestation' = Ledger!HandOver(old, new)
  BY <1>1, <1>3, SlotsOfRecord DEF PointTo, Ledger!HandOver, Ledger!Slots
<1>5. QED
  BY <1>1, <1>2, <1>4, SlotsOfRecord DEF Ledger!Replace

LEMMA RevokeIsWithdraw ==
  ASSUME IndexInv, NEW sender \in Addresses, NEW old \in AttestationIds, RevokeAttestation(sender, old)
  PROVE  Ledger!Withdraw(old)
<1> DEFINE own == {skill \in attestations[old].skillIds : activeSkillAttestation[<<SubjectOf(old), skill>>] = old}
<1>1. IsActive(old) /\ IsIssued(old)
  BY DEF RevokeAttestation
<1>2. attestations[old] \in Attestation
  BY DEF IndexInv, TypeOK
<1>3. Retired(attestations[old]).issuedAt = attestations[old].issuedAt
  BY <1>2 DEF Retired, Attestation
<1>4. \A id \in AttestationIds : IsIssued(id)' <=> IsIssued(id)
  BY <1>3 DEF RevokeAttestation, IsIssued, IndexInv, TypeOK
<1>5. {id \in AttestationIds : IsIssued(id)}' = {id \in AttestationIds : IsIssued(id)}
  BY <1>4
<1>6. own = attestations[old].skillIds
  <2>1. attestations[old].skillIds \in SUBSET Skills /\ SubjectOf(old) \in Subjects
    BY <1>2, SubjectType DEF Attestation
  <2>2. QED
    BY <1>1, <2>1 DEF IndexInv, IndexAgreesWithRecords
<1>7. activeSkillAttestation' = PointTo(SubjectOf(old), attestations[old].skillIds, Zero)
  BY <1>6 DEF RevokeAttestation
<1>8. activeSkillAttestation' = Ledger!HandOver(old, Zero)
  BY <1>1, <1>7, SlotsOfRecord DEF PointTo, Ledger!HandOver, Ledger!Slots
<1>9. QED
  BY <1>1, <1>5, <1>8, SlotsOfRecord DEF Ledger!Withdraw

LEMMA LedgerStep == IndexInv /\ [Next]_vars => [Ledger!LedgerNext]_(Ledger!ledgerVars)
<1> SUFFICES ASSUME IndexInv, [Next]_vars PROVE [Ledger!LedgerNext]_(Ledger!ledgerVars)
  OBVIOUS
<1>1. CASE UNCHANGED <<recordVars, linkVars>>
  BY <1>1 DEF Ledger!ledgerVars, recordVars, IsIssued
<1>2. ASSUME NEW sender \in Addresses, RecordStep(sender)
      PROVE  Ledger!LedgerNext
  BY <1>2, AttestIsCertify, SupersedeIsReplace, RevokeIsWithdraw, DerivedIds
  DEF RecordStep, Ledger!LedgerNext
<1>3. QED
  BY <1>1, <1>2, OthersKeepRecords

(* The registry, with its loops over skill arrays, its guarded deletes and
   its links, implements the ledger of whole credentials. *)
THEOREM Refinement == Spec => ImplementsLedger
BY LedgerInitial, LedgerStep, IndexInvariant, PTL DEF Spec, ImplementsLedger, Ledger!LedgerSpec

-----------------------------------------------------------------------------
(* A retired identifier answers for nothing, after any transactions: a record
   that is not active stays so, and the index points to active records only. *)
THEOREM RetiredStays == Spec => RetiredForGood
<1>1. IndexInv /\ IndexInv' /\ [Next]_vars => [Ledger!KeepsRetired]_(Ledger!ledgerVars)
  <2> SUFFICES ASSUME IndexInv, IndexInv', [Next]_vars,
                      NEW id \in AttestationIds, IsIssued(id), ~Ledger!IsLive(id)
               PROVE  ~Ledger!IsLive(id)'
    BY DEF Ledger!KeepsRetired
  <2>1. ~IsActive(id)
    BY SlotsOfRecord
  <2>2. ~IsActive(id)'
    <3>1. CASE UNCHANGED <<recordVars, linkVars>>
      BY <2>1, <3>1 DEF recordVars, IsActive
    <3>2. ASSUME NEW sender \in Addresses, RecordStep(sender)
          PROVE  ~IsActive(id)'
      BY <2>1, <3>2, RetiredIsKept DEF IsActive
    <3>3. QED
      BY <3>1, <3>2, OthersKeepRecords
  <2>3. \A s \in Subjects, k \in Skills : activeSkillAttestation'[<<s, k>>] # id
    BY <2>2 DEF IndexInv, IndexAgreesWithRecords
  <2>4. QED
    BY <2>3 DEF Ledger!IsLive, Ledger!Slots
<1>2. QED
  BY <1>1, IndexInvariant, PTL DEF Spec, RetiredForGood, Ledger!RetiredForGood
=============================================================================
