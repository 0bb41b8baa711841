-------------------------- MODULE HolderReportsProofs --------------------------
(***************************************************************************)
(* Theorems about HolderReports.  Its steps are steps of the registry, or  *)
(* leave the registry alone, so that all theorems about SkillMVPRegistry   *)
(* hold of the registry in it; what is left is what the commands export.   *)
(***************************************************************************)
EXTENDS HolderReports, SkillMVPRegistryProofs

(* The steps of one command, in which the registry has no part. *)
CheckStep(c) ==
  \/ \E id \in AttestationIds, input \in Inputs :
       \/ \E sig \in signatures : StartCheck(c, id, input, Recovered(sig, id, input))
       \/ StartCheck(c, id, input, Zero)
  \/ Call(c) \/ StartTelemetry(c) \/ Record(c) \/ Flush(c) \/ Abort(c)

LEMMA RegistryBeneath == [ReportNext]_reportVars => [Next]_vars
<1> SUFFICES ASSUME [ReportNext]_reportVars PROVE [Next]_vars
  OBVIOUS
<1>1. CASE RegistryStep
  BY <1>1 DEF RegistryStep, Next
<1>2. ASSUME NEW holder \in Holders, NEW id \in AttestationIds, NEW input \in Inputs,
             SignProject(holder, id, Binding[input])
      PROVE  Next
  <2>1. Binding[input] \in Projects
    BY BindingAssumption DEF Inputs
  <2>2. QED
    BY <1>2, <2>1 DEF Next
<1>3. ASSUME NEW c \in Checks, CheckStep(c)
      PROVE  UNCHANGED vars
  BY <1>3 DEF CheckStep, StartCheck, Call, StartTelemetry, Record, Flush, Abort
<1>4. CASE UNCHANGED reportVars
  BY <1>4 DEF reportVars
<1>5. QED
  BY <1>1, <1>2, <1>3, <1>4 DEF ReportNext, CheckStep, SignText, SignMetric, Inputs

(* The registry beside the commands behaves as SkillMVPRegistry says. *)
THEOREM RegistryBehaves == ReportSpec => Spec
<1>1. ReportInit => Init
  BY DEF ReportInit
<1>2. QED
  BY <1>1, RegistryBeneath, PTL DEF ReportSpec, Spec

(* So nothing the commands do disturbs its index, its lineage, its issuance
   or the ledger it implements. *)
THEOREM RegistryUndisturbed ==
  ReportSpec => /\ []IndexAgreesWithRecords /\ []LineageWellFormed
                /\ ConfinedIssuance /\ ImplementsLedger
BY RegistryBehaves, IndexAgreement, LineageAgreement, IssuanceConfined, Refinement, PTL

(* Nor do they bring back what was retired, rewrite a record, or make anyone
   a holder who was not appointed. *)
THEOREM NothingIsTakenBack ==
  ReportSpec => /\ Ledger!RetiredForGood /\ HistoryIsImmutable
                /\ AuthorityIsGiven /\ []NobodyIsConfirmed
BY RegistryBehaves, RetiredStays, History, AuthorityStarts, NobodyHolds, PTL

-----------------------------------------------------------------------------
(* One step of one command. *)

Stages == {"off", "call", "start", "record", "flush"}
Confirmed == {"start", "record", "flush"}

(* A signature stands behind the report. *)
WasSigned(report) ==
  \E sig \in signatures :
    sig.signer = report.signer /\ sig.id = report.id /\ sig.project = Binding[report.input]
WasAuthorized(report) == <<report.id, report.signer>> \in authorized

LEMMA NoFlagsIsNone == NoFlags \notin Flags
BY ZeroIsNoId DEF NoFlags, Flags

(* Whom the contract recovers signed just what it was asked about. *)
LEMMA RecoveredSigned ==
  ASSUME TypeOK, NEW sig \in signatures, NEW id \in AttestationIds, NEW input \in Inputs,
         NEW asked, asked = [id |-> id, input |-> input, signer |-> Recovered(sig, id, input)]
  PROVE  /\ asked \in Flags
         /\ asked.signer # Zero => WasSigned(asked)
<1>1. sig.signer \in Holders
  BY DEF TypeOK
<1>2. QED
  BY <1>1 DEF Recovered, Flags, WasSigned

(* The three things a step does to a command: it ends it, perhaps with an
   export, it asks the contract for a report, or it goes on with the report
   that the contract has confirmed, now or before. *)
MayGoOn(c) ==
  \/ stage[c] \in Confirmed
  \/ /\ stage[c] = "call" /\ flags[c].input \in Metrics
     /\ VerifyHolderProject(flags[c].id, flags[c].signer)

CheckEffect(c) ==
  /\ UNCHANGED <<vars, authorized>>
  /\ stage' \in [Checks -> Stages] /\ flags' \in [Checks -> Flags \cup {NoFlags}]
  /\ \A d \in Checks \ {c} : stage'[d] = stage[d] /\ flags'[d] = flags[d]
  /\ exported' = exported \/ (stage[c] = "flush" /\ exported' = exported \cup {flags[c]})
  /\ \/ stage'[c] = "off" /\ flags'[c] = NoFlags
     \/ /\ stage'[c] = "call" /\ flags'[c] \in Flags
        /\ flags'[c].signer # Zero => WasSigned(flags'[c])
     \/ /\ stage'[c] \in Confirmed /\ flags'[c] = flags[c] /\ MayGoOn(c)

LEMMA CheckStepEffect ==
  ASSUME ReportTypeOK, NEW c \in Checks, CheckStep(c)
  PROVE  CheckEffect(c)
<1>1. ASSUME NEW next \in Stages, stage' = [stage EXCEPT ![c] = next]
      PROVE  /\ stage' \in [Checks -> Stages] /\ stage'[c] = next
             /\ \A d \in Checks \ {c} : stage'[d] = stage[d]
  BY <1>1 DEF ReportTypeOK, Stages
<1>2. ASSUME NEW asked \in Flags \cup {NoFlags}, flags' = [flags EXCEPT ![c] = asked]
      PROVE  /\ flags' \in [Checks -> Flags \cup {NoFlags}] /\ flags'[c] = asked
             /\ \A d \in Checks \ {c} : flags'[d] = flags[d]
  BY <1>2 DEF ReportTypeOK
<1>3. ASSUME End(c), UNCHANGED <<vars, authorized>>,
             exported' = exported \/ (stage[c] = "flush" /\ exported' = exported \cup {flags[c]})
      PROVE  CheckEffect(c)
  <2>1. stage' = [stage EXCEPT ![c] = "off"] /\ flags' = [flags EXCEPT ![c] = NoFlags]
    BY <1>3 DEF End
  <2>2. QED
    BY <1>1, <1>2, <1>3, <2>1 DEF CheckEffect, Stages
<1>4. ASSUME NEW next \in Confirmed, stage' = [stage EXCEPT ![c] = next],
             UNCHANGED <<vars, flags, exported, authorized>>, MayGoOn(c)
      PROVE  CheckEffect(c)
  <2>1. next \in Stages
    BY DEF Confirmed, Stages
  <2>2. flags \in [Checks -> Flags \cup {NoFlags}]
    BY DEF ReportTypeOK
  <2>3. QED
    BY <1>1, <1>4, <2>1, <2>2 DEF CheckEffect
<1>5. ASSUME NEW id \in AttestationIds, NEW input \in Inputs, NEW signer, StartCheck(c, id, input, signer),
             NEW asked \in Flags, asked = [id |-> id, input |-> input, signer |-> signer],
             asked.signer # Zero => WasSigned(asked)
      PROVE  CheckEffect(c)
  <2>1. /\ stage' = [stage EXCEPT ![c] = "call"] /\ flags' = [flags EXCEPT ![c] = asked]
        /\ UNCHANGED <<vars, exported, authorized>>
    BY <1>5 DEF StartCheck
  <2>2. QED
    BY <1>1, <1>2, <1>5, <2>1 DEF CheckEffect, Stages
<1>6. CASE Call(c)
  BY <1>3, <1>4, <1>6 DEF Call, IsToBeRecorded, Confirmed, MayGoOn
<1>7. CASE StartTelemetry(c) \/ Record(c)
  BY <1>3, <1>4, <1>7 DEF StartTelemetry, Record, Confirmed, MayGoOn
<1>8. CASE Flush(c) \/ Abort(c)
  BY <1>3, <1>8 DEF Flush, Abort
<1>9. ASSUME NEW id \in AttestationIds, NEW input \in Inputs, NEW sig \in signatures,
             StartCheck(c, id, input, Recovered(sig, id, input))
      PROVE  CheckEffect(c)
  <2> DEFINE asked == [id |-> id, input |-> input, signer |-> Recovered(sig, id, input)]
  <2>1. asked \in Flags /\ (asked.signer # Zero => WasSigned(asked))
    BY RecoveredSigned DEF ReportTypeOK
  <2> HIDE DEF asked
  <2>2. asked = [id |-> id, input |-> input, signer |-> Recovered(sig, id, input)]
    BY DEF asked
  <2>3. QED
    BY <1>5, <1>9, <2>1, <2>2
<1>10. ASSUME NEW id \in AttestationIds, NEW input \in Inputs, StartCheck(c, id, input, Zero)
       PROVE  CheckEffect(c)
  <2>1. [id |-> id, input |-> input, signer |-> Zero] \in Flags
    BY DEF Flags
  <2>2. QED
    BY <1>5, <1>10, <2>1
<1>11. QED
  BY <1>6, <1>7, <1>8, <1>9, <1>10 DEF CheckStep

-----------------------------------------------------------------------------
(* Type correctness and what is exported, in one invariant: the type of a
   report needs that only metrics are confirmed, and that what is exported was
   signed by a holder needs that its signature was made, and its signer
   authorised, when it was confirmed: whom isHolderAuthorized confirms now is on
   the record of those whom it ever did. *)

CheckIsBacked(c) ==
  /\ flags[c].signer # Zero => WasSigned(flags[c])
  /\ stage[c] \in Confirmed =>
       flags[c].input \in Metrics /\ flags[c].signer # Zero /\ WasAuthorized(flags[c])

AuthorityIsNoted == AuthorizedNow \subseteq authorized

ReportInv ==
  /\ ReportTypeOK
  /\ BindingsNameWallets
  /\ AuthorityIsNoted
  /\ \A c \in Checks : CheckIsBacked(c)
  /\ ExportedWasSigned

LEMMA ReportInvInit == ReportInit => ReportInv
<1> SUFFICES ASSUME ReportInit PROVE ReportInv
  OBVIOUS
<1>1. TypeOK /\ BindingsNameWallets
  BY InitType, WalletsInit DEF ReportInit
<1>2. AuthorizedNow = {}
  BY DEF ReportInit, Init, NoAttestation, AuthorizedNow, IsHolderAuthorized, IsActive
<1>3. QED
  BY <1>1, <1>2
  DEF ReportInit, ReportInv, ReportTypeOK, CheckIsBacked, AuthorityIsNoted, ExportedWasSigned, NoFlags, Confirmed

(* Reports stay backed whatever the registry does. *)
LEMMA BackedStays ==
  ASSUME ReportInv, [Next]_vars, authorized \subseteq authorized', NEW report
  PROVE  /\ WasSigned(report) => WasSigned(report)'
         /\ WasAuthorized(report) => WasAuthorized(report)'
BY WalletsStay DEF ReportInv, ReportTypeOK, WasSigned, WasAuthorized

(* The steps of the commands that sign and those of the registry: whoever
   becomes an accepted holder is noted in the same step. *)
LEMMA AuthorityStaysNoted ==
  ASSUME ReportInv, [ReportNext]_reportVars, UNCHANGED checkVars
  PROVE  /\ authorized \subseteq authorized'
         /\ authorized' \subseteq AttestationIds \X Holders
         /\ AuthorityIsNoted'
<1>1. CASE RegistryStep
  BY <1>1 DEF RegistryStep, AuthorityIsNoted, AuthorizedNow, ReportInv, ReportTypeOK
<1>2. CASE UNCHANGED <<now, attestations, holderBindings, authorized>>
  BY <1>2 DEF AuthorityIsNoted, AuthorizedNow, IsHolderAuthorized, IsActive, BindingIsLive, ReportInv, ReportTypeOK
<1>3. ASSUME NEW holder \in Holders, NEW id \in AttestationIds, NEW input,
             SignProject(holder, id, Binding[input]), UNCHANGED authorized
      PROVE  UNCHANGED <<now, attestations, holderBindings, authorized>>
  BY <1>3 DEF SignProject, recordVars
<1>4. ASSUME NEW c \in Checks, CheckStep(c)
      PROVE  UNCHANGED <<now, attestations, holderBindings, authorized>>
  BY <1>4, CheckStepEffect DEF CheckEffect, vars, recordVars, ReportInv
<1>5. CASE UNCHANGED reportVars
  BY <1>2, <1>5 DEF reportVars, vars, recordVars
<1>6. QED
  BY <1>1, <1>2, <1>3, <1>4, <1>5 DEF ReportNext, CheckStep, SignText, SignMetric

LEMMA RegistryKeepsReports ==
  ASSUME ReportInv, [ReportNext]_reportVars, UNCHANGED checkVars
  PROVE  ReportInv'
<1> USE RegistryBeneath
<1>1. TypeOK' /\ BindingsNameWallets'
  BY NextType, WalletsStay DEF ReportInv, ReportTypeOK
<1>2. /\ authorized \subseteq authorized' /\ AuthorityIsNoted'
      /\ authorized' \subseteq AttestationIds \X Holders
  BY AuthorityStaysNoted
<1>3. ReportTypeOK'
  BY <1>1, <1>2 DEF ReportInv, ReportTypeOK, checkVars
<1>4. ASSUME NEW c \in Checks
      PROVE  CheckIsBacked(c)'
  <2>1. CheckIsBacked(c) /\ UNCHANGED <<stage, flags>>
    BY DEF ReportInv, checkVars
  <2>2. /\ WasSigned(flags[c]) => WasSigned(flags[c])'
        /\ WasAuthorized(flags[c]) => WasAuthorized(flags[c])'
    BY <1>2, <2>1, BackedStays DEF WasSigned, WasAuthorized
  <2>3. QED
    BY <2>1, <2>2 DEF CheckIsBacked
<1>5. ASSUME NEW report \in exported
      PROVE  WasAuthorized(report)' /\ WasSigned(report)'
  <2>1. WasAuthorized(report) /\ WasSigned(report)
    BY DEF ReportInv, ExportedWasSigned, WasAuthorized, WasSigned
  <2>2. QED
    BY <1>2, <2>1, BackedStays
<1>6. ExportedWasSigned'
  BY <1>5 DEF ExportedWasSigned, WasAuthorized, WasSigned, checkVars
<1>7. QED
  BY <1>1, <1>2, <1>3, <1>4, <1>6 DEF ReportInv

LEMMA CheckKeepsReports ==
  ASSUME ReportInv, NEW c \in Checks, CheckStep(c)
  PROVE  ReportInv'
<1>1. ReportTypeOK /\ CheckIsBacked(c)
  BY DEF ReportInv
<1>2. CheckEffect(c)
  BY <1>1, CheckStepEffect
<1>3. stage[c] # "off" => flags[c] \in Flags
  BY <1>1 DEF ReportTypeOK
<1>4. /\ UNCHANGED <<now, attestations, holderBindings, signatures, authorized>>
      /\ TypeOK' /\ BindingsNameWallets' /\ AuthorityIsNoted'
  <2>1. UNCHANGED <<now, attestations, holderBindings, signatures, authorized>>
    BY <1>2 DEF CheckEffect, vars, recordVars
  <2>2. AuthorityIsNoted'
    BY <2>1 DEF AuthorityIsNoted, AuthorizedNow, IsHolderAuthorized, IsActive, BindingIsLive, ReportInv
  <2>3. QED
    BY <1>2, <2>1, <2>2, WalletsStay, NextType DEF CheckEffect, ReportInv, ReportTypeOK
<1>5. \A d \in Checks : stage'[d] = "off" <=> flags'[d] = NoFlags
  BY <1>1, <1>2, <1>3, NoFlagsIsNone DEF CheckEffect, MayGoOn, ReportTypeOK, Confirmed
<1>6. exported' \subseteq [id : AttestationIds, input : Metrics, signer : Holders \cup {Zero}]
  <2>1. stage[c] = "flush" => flags[c] \in [id : AttestationIds, input : Metrics, signer : Holders \cup {Zero}]
    BY <1>1, <1>3 DEF CheckIsBacked, Confirmed, Flags
  <2>2. QED
    BY <1>1, <1>2, <2>1 DEF CheckEffect, ReportTypeOK
<1>7. ReportTypeOK'
  BY <1>1, <1>2, <1>4, <1>5, <1>6 DEF CheckEffect, ReportTypeOK, Stages
<1>8. ASSUME NEW d \in Checks
      PROVE  CheckIsBacked(d)'
  <2>1. CASE d # c
    BY <1>2, <1>4, <2>1 DEF CheckEffect, ReportInv, CheckIsBacked, WasSigned, WasAuthorized
  <2>2. CASE d = c /\ stage'[c] = "off" /\ flags'[c] = NoFlags
    BY <2>2 DEF CheckIsBacked, Confirmed, NoFlags
  <2>3. CASE d = c /\ stage'[c] = "call" /\ (flags'[c].signer # Zero => WasSigned(flags'[c]))
    BY <1>4, <2>3 DEF CheckIsBacked, Confirmed, WasSigned
  <2>4. CASE d = c /\ flags'[c] = flags[c] /\ stage[c] \in Confirmed
    BY <1>1, <1>4, <2>4 DEF CheckIsBacked, WasSigned, WasAuthorized
  <2>5. CASE /\ d = c /\ flags'[c] = flags[c] /\ stage[c] = "call" /\ flags[c].input \in Metrics
             /\ VerifyHolderProject(flags[c].id, flags[c].signer)
    <3>1. flags[c].id \in AttestationIds
      BY <1>3, <2>5 DEF Flags
    <3>2. flags[c].signer # Zero /\ flags[c].signer \in Holders
      BY <1>3, <2>5, <3>1 DEF VerifyHolderProject, BindingIsLive, ReportInv, BindingsNameWallets, Flags
    <3>3. IsHolderAuthorized(flags[c].id, flags[c].signer)
      BY <2>5 DEF VerifyHolderProject, IsHolderAuthorized
    <3>4. WasAuthorized(flags[c])
      BY <3>1, <3>2, <3>3 DEF ReportInv, AuthorityIsNoted, AuthorizedNow, WasAuthorized
    <3>5. QED
      BY <1>1, <1>4, <2>5, <3>2, <3>4 DEF CheckIsBacked, WasSigned, WasAuthorized
  <2>6. QED
    BY <1>2, <2>1, <2>2, <2>3, <2>4, <2>5 DEF CheckEffect, MayGoOn
<1>9. ExportedWasSigned'
  <2>1. stage[c] = "flush" => WasAuthorized(flags[c]) /\ WasSigned(flags[c])
    BY <1>1 DEF CheckIsBacked, Confirmed
  <2>2. QED
    BY <1>2, <1>4, <2>1 DEF CheckEffect, ReportInv, ExportedWasSigned, WasAuthorized, WasSigned
<1>10. QED
  BY <1>4, <1>7, <1>8, <1>9 DEF ReportInv

LEMMA ReportInvariant == ReportSpec => []ReportInv
<1>1. ReportInv /\ [ReportNext]_reportVars => ReportInv'
  <2> SUFFICES ASSUME ReportInv, [ReportNext]_reportVars PROVE ReportInv'
    OBVIOUS
  <2>1. CASE \E c \in Checks : CheckStep(c)
    BY <2>1, CheckKeepsReports
  <2>2. CASE UNCHANGED checkVars
    BY <2>2, RegistryKeepsReports
  <2>3. QED
    BY <2>1, <2>2 DEF ReportNext, CheckStep, RegistryStep, SignText, SignMetric, reportVars
<1>2. QED
  BY <1>1, ReportInvInit, PTL DEF ReportSpec

(* Every reachable state of the registry and the commands is well typed. *)
THEOREM ReportTypeCorrect == ReportSpec => []ReportTypeOK
<1>1. ReportInv => ReportTypeOK
  BY DEF ReportInv
<1>2. QED
  BY <1>1, ReportInvariant, PTL

(* What the pipeline receives was signed, for that credential and for a report
   of that binding, by a wallet that has been its accepted holder. *)
THEOREM ExportsAreSigned == ReportSpec => []ExportedWasSigned
<1>1. ReportInv => ExportedWasSigned
  BY DEF ReportInv
<1>2. QED
  BY <1>1, ReportInvariant, PTL

(* A retired credential has no report confirmed any more. *)
THEOREM RetirementStops == ReportSpec => RetirementStopsReports
<1>1. ReportInv /\ [ReportNext]_reportVars =>
        [\A id \in AttestationIds : IsIssued(id) /\ ~IsActive(id) =>
           PendingFor(id)' \subseteq PendingFor(id)]_reportVars
  <2> SUFFICES ASSUME ReportInv, [ReportNext]_reportVars, NEW id \in AttestationIds, ~IsActive(id),
                      NEW d \in PendingFor(id)'
               PROVE  d \in PendingFor(id)
    OBVIOUS
  <2>1. ASSUME NEW c \in Checks, CheckStep(c)
        PROVE  d \in PendingFor(id)
    BY <2>1, CheckStepEffect DEF CheckEffect, MayGoOn, ReportInv, PendingFor, Confirmed, VerifyHolderProject
  <2>2. CASE UNCHANGED checkVars
    BY <2>2 DEF PendingFor, checkVars
  <2>3. QED
    BY <2>1, <2>2 DEF ReportNext, CheckStep, RegistryStep, SignText, SignMetric, reportVars
<1>2. QED
  BY <1>1, ReportInvariant, PTL DEF ReportSpec, RetirementStopsReports
=============================================================================
