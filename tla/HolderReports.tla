----------------------------- MODULE HolderReports -----------------------------
(***************************************************************************)
(* cmd/issuer-demo: sign-project and sign-telemetry, by which a holder     *)
(* signs for its credential, and verify-project and verify-telemetry,      *)
(* which ask SkillMVPRegistry whether a signature holds.  The registry     *)
(* lives on beside them: a credential may be superseded, revoked or bound  *)
(* anew between the answer and what verify-telemetry does with it, which   *)
(* is to start OpenTelemetry, record the metric and shut down, the step    *)
(* that exports.  Errors of these three steps are dropped.                 *)
(*                                                                         *)
(* What is signed and asked for is the evidence binding of the text or the *)
(* metric.  It is not injective: a metric is hashed with six decimals, and *)
(* a text that is a hash in hexadecimal stands for itself.                 *)
(*                                                                         *)
(* An operator whose comment begins with "Faulty:" is no part of the       *)
(* specification: it is the next operator with a programming error, kept   *)
(* to confirm that the properties would notice that error.                 *)
(***************************************************************************)
EXTENDS SkillMVPRegistry, FiniteSets

CONSTANTS Checks,      \* runs of verify-project and verify-telemetry
          Texts,       \* project evidence given to the project commands
          Metrics,     \* name, value and time given to the telemetry commands
          Binding,     \* holderEvidenceCommitment and telemetryEvidenceBinding
          MaxSigned    \* bound: signatures made

ASSUME InputAssumption == Texts \cap Metrics = {}
ASSUME BindingAssumption == Binding \in [Texts \cup Metrics -> Projects]
ASSUME SignedAssumption == MaxSigned \in Nat

VARIABLES stage,       \* check -> where it is
          flags,       \* check -> attestation, input and whom the signature recovers to
          exported,    \* reports that the observability pipeline has received
          authorized   \* history: wallets isHolderAuthorized has ever confirmed, with the record

checkVars == <<stage, flags, exported>>
reportVars == <<vars, checkVars, authorized>>

Inputs == Texts \cup Metrics
Flags == [id : AttestationIds, input : Inputs, signer : Holders \cup {Zero}]
NoFlags == [id |-> Zero, input |-> Zero, signer |-> Zero]

ReportInit ==
  /\ Init
  /\ stage = [c \in Checks |-> "off"]
  /\ flags = [c \in Checks |-> NoFlags]
  /\ exported = {} /\ authorized = {}

-----------------------------------------------------------------------------
(* Signing reads the digest, which names no state, and asks nobody whether
   the key is bound or the credential active. *)

SignText(holder, id, text) ==
  /\ Cardinality(signatures) < MaxSigned
  /\ SignProject(holder, id, Binding[text])
  /\ UNCHANGED <<checkVars, authorized>>

SignMetric(holder, id, metric) ==
  /\ Cardinality(signatures) < MaxSigned
  /\ SignProject(holder, id, Binding[metric])
  /\ UNCHANGED <<checkVars, authorized>>

-----------------------------------------------------------------------------
(* Whom the contract recovers from a signature, if asked about this record
   and input: a signature of anything else recovers to nobody's address. *)
Recovered(sig, id, input) ==
  IF sig.id = id /\ sig.project = Binding[input] THEN sig.signer ELSE Zero

StartCheck(c, id, input, signer) ==
  /\ stage[c] = "off"
  /\ stage' = [stage EXCEPT ![c] = "call"]
  /\ flags' = [flags EXCEPT ![c] = [id |-> id, input |-> input, signer |-> signer]]
  /\ UNCHANGED <<vars, exported, authorized>>

(* The command ends, with an answer or an error, and may be given again. *)
End(c) ==
  /\ stage' = [stage EXCEPT ![c] = "off"]
  /\ flags' = [flags EXCEPT ![c] = NoFlags]

IsToBeRecorded(input, verified) == input \in Metrics /\ verified

Call(c) ==
  LET verified == VerifyHolderProject(flags[c].id, flags[c].signer) IN
  /\ stage[c] = "call"
  /\ IF IsToBeRecorded(flags[c].input, verified)
     THEN stage' = [stage EXCEPT ![c] = "start"] /\ UNCHANGED flags
     ELSE End(c)
  /\ UNCHANGED <<vars, exported, authorized>>

(* Telemetry.Start installs the providers; its error is dropped, and the
   report with it. *)
StartTelemetry(c) ==
  /\ stage[c] = "start"
  /\ \/ stage' = [stage EXCEPT ![c] = "record"] /\ UNCHANGED flags
     \/ End(c)
  /\ UNCHANGED <<vars, exported, authorized>>

(* The gauge records the value, or cannot be made; then Telemetry.Stop finds
   nothing to export. *)
Record(c) ==
  /\ stage[c] = "record"
  /\ \/ stage' = [stage EXCEPT ![c] = "flush"] /\ UNCHANGED flags
     \/ End(c)
  /\ UNCHANGED <<vars, exported, authorized>>

(* The deferred Telemetry.Stop exports what was recorded. *)
Flush(c) ==
  /\ stage[c] = "flush"
  /\ exported' = exported \cup {flags[c]}
  /\ End(c)
  /\ UNCHANGED <<vars, authorized>>

(* The call or the export fails, or the process is killed. *)
Abort(c) ==
  /\ stage[c] # "off"
  /\ End(c)
  /\ UNCHANGED <<vars, exported, authorized>>

AuthorizedNow == {pair \in AttestationIds \X Holders : IsHolderAuthorized(pair[1], pair[2])}

RegistryStep ==
  /\ \/ NextBlock
     \/ \E sender \in Addresses : IssuerStep(sender) \/ RecordStep(sender) \/ HolderStep(sender)
  /\ authorized' = authorized \cup AuthorizedNow'
  /\ UNCHANGED checkVars

ReportNext ==
  \/ RegistryStep
  \/ \E holder \in Holders, id \in AttestationIds :
       \/ \E text \in Texts : SignText(holder, id, text)
       \/ \E metric \in Metrics : SignMetric(holder, id, metric)
  \/ \E c \in Checks :
       \/ \E id \in AttestationIds, input \in Inputs :
            \/ \E sig \in signatures : StartCheck(c, id, input, Recovered(sig, id, input))
            \/ StartCheck(c, id, input, Zero)
       \/ Call(c) \/ StartTelemetry(c) \/ Record(c) \/ Flush(c) \/ Abort(c)

ReportSpec == ReportInit /\ [][ReportNext]_reportVars

-----------------------------------------------------------------------------
(* Types, those of the registry included. *)
ReportTypeOK ==
  /\ TypeOK
  /\ stage \in [Checks -> {"off", "call", "start", "record", "flush"}]
  /\ flags \in [Checks -> Flags \cup {NoFlags}]
  /\ \A c \in Checks : stage[c] = "off" <=> flags[c] = NoFlags
  /\ exported \subseteq [id : AttestationIds, input : Metrics, signer : Holders \cup {Zero}]
  /\ authorized \subseteq AttestationIds \X Holders

(* Whatever the pipeline receives was signed, for that credential and for a
   report with the same binding, by a wallet that has been the accepted holder
   of that very credential, although by now the credential may be retired or
   bound to another wallet: neither the signature of a wallet that never was
   its holder nor a malformed one, which recovers to the zero address, passes
   (verifyTelemetry, verifyHolderProject).  Nothing is said of the moment at
   which it was signed. *)
ExportedWasSigned ==
  \A report \in exported :
    /\ <<report.id, report.signer>> \in authorized
    /\ \E sig \in signatures :
         sig.signer = report.signer /\ sig.id = report.id /\ sig.project = Binding[report.input]

PendingFor(id) == {c \in Checks : flags[c].id = id /\ stage[c] \in {"start", "record", "flush"}}

(* Once a credential is superseded or revoked no further report is accepted
   for it, whoever signed it and when: those the contract had confirmed may
   still be exported, and they only become fewer (verifyHolderProject). *)
RetirementStopsReports ==
  [][\A id \in AttestationIds : IsIssued(id) /\ ~IsActive(id) =>
       PendingFor(id)' \subseteq PendingFor(id)]_reportVars
=============================================================================
