------------------------------ MODULE ScoreProof ------------------------------
(***************************************************************************)
(* internal/zkproof: proofs that a hidden score is at least a public       *)
(* threshold.  Claims and public inputs are integers of any size, or nil;  *)
(* gnark (external) takes each of them modulo the order of the field,      *)
(* while Commitment takes no score or salt beyond it.  MiMC is some        *)
(* function of two field elements; nothing here needs that it hides them   *)
(* or that it is hard to find two that agree.  Groth16 is sound and        *)
(* complete: a proof exists exactly for an assignment that satisfies the   *)
(* circuit, and fits one system and the public part of the assignment.     *)
(*                                                                         *)
(* An operator whose comment begins with "Faulty:" is no part of the       *)
(* specification: it is the next operator with a programming error, kept   *)
(* to confirm that the properties would notice that error.                 *)
(***************************************************************************)
EXTENDS Integers

CONSTANTS Systems,    \* circuit-specific keys, of which each setup makes new ones
          Numbers,    \* integers that callers pass
          Modulus,    \* order of the BN254 scalar field
          Bytes32,    \* 2^256
          MiMC,       \* the hash of two field elements
          Nil

ASSUME NumberAssumption == Numbers \subseteq Int /\ Nil \notin Int
ASSUME ModulusAssumption == Modulus \in Nat \ {0} /\ Bytes32 \in Nat /\ Modulus < Bytes32

VARIABLES made,      \* the last call of Prove and what it returned
          checked    \* the last call of Verify and what it returned

scoreVars == <<made, checked>>

Inputs == Numbers \cup {Nil}
Claim == [Score : Inputs, Salt : Inputs, Threshold : Inputs]
Field == 0..(Modulus - 1)
PublicInputs == [Commitment : Inputs \cup Field, Threshold : Inputs]

ASSUME NilAssumption == Nil \notin Systems
ASSUME HashAssumption == MiMC \in [Field \X Field -> Field]

Element(number) == number % Modulus

NoProof == [system |-> Nil, public |-> Nil]
NothingMade == [claim |-> Nil, outcome |-> "none", proof |-> NoProof, public |-> Nil]
NothingChecked == [system |-> Nil, public |-> Nil, accepted |-> FALSE]

ScoreInit == made = NothingMade /\ checked = NothingChecked

-----------------------------------------------------------------------------
ValidClaim(claim) ==
  \A number \in {claim.Score, claim.Salt, claim.Threshold} : number # Nil /\ number >= 0

(* What does not fill 32 bytes panics, and what is no field element is an
   error of the hash. *)
CommitmentOutcome(claim) ==
  CASE claim.Score >= Bytes32 \/ claim.Salt >= Bytes32 -> "panic"
    [] claim.Score \notin Field \/ claim.Salt \notin Field -> "refused"
    [] OTHER -> "hashed"
Commitment(score, salt) == MiMC[score, salt]

(* Faulty: leaves out the score that just meets the threshold. *)
StrictlyMeets(assignment) ==
  /\ Commitment(assignment.Score, assignment.Salt) = assignment.Commitment
  /\ assignment.Threshold < assignment.Score
(* Faulty: checks the bound the other way round. *)
MeetsAtMost(assignment) ==
  /\ Commitment(assignment.Score, assignment.Salt) = assignment.Commitment
  /\ assignment.Score <= assignment.Threshold
Satisfied(assignment) ==
  /\ Commitment(assignment.Score, assignment.Salt) = assignment.Commitment
  /\ assignment.Threshold <= assignment.Score

Returned(claim, outcome, proof, public) ==
  made' = [claim |-> claim, outcome |-> outcome, proof |-> proof, public |-> public]

Prove(system, claim) ==
  LET commitment == Commitment(claim.Score, claim.Salt)
      assignment == [Score |-> claim.Score, Salt |-> claim.Salt, Commitment |-> commitment,
                     Threshold |-> Element(claim.Threshold)]
      public == [Commitment |-> commitment, Threshold |-> claim.Threshold] IN
  /\ IF ~ValidClaim(claim) THEN Returned(claim, "refused", NoProof, Nil)
     ELSE IF CommitmentOutcome(claim) # "hashed"
       THEN Returned(claim, CommitmentOutcome(claim), NoProof, Nil)
     ELSE IF ~Satisfied(assignment) THEN Returned(claim, "refused", NoProof, Nil)
     ELSE Returned(claim, "proved",
            [system |-> system,
             public |-> [Commitment |-> commitment, Threshold |-> assignment.Threshold]], public)
  /\ checked' = NothingChecked

(* The proof that is to be checked is the last one that was made. *)
Verify(system, public) ==
  /\ made.outcome = "proved"
  /\ checked' =
       [system |-> system, public |-> public,
        accepted |-> /\ public.Commitment # Nil /\ public.Threshold # Nil
                     /\ made.proof = [system |-> system,
                          public |-> [Commitment |-> Element(public.Commitment),
                                     Threshold |-> Element(public.Threshold)]]]
  /\ UNCHANGED made

ScoreNext ==
  \E system \in Systems :
    \/ \E claim \in Claim : Prove(system, claim)
    \/ \E public \in PublicInputs : Verify(system, public)

ScoreSpec == ScoreInit /\ [][ScoreNext]_scoreVars

-----------------------------------------------------------------------------
(* The score and salt from which the proof at hand was made are committed to
   by these public inputs, and the score is no lower than their threshold. *)
IsMet(public) ==
  /\ public.Commitment = Commitment(made.claim.Score, made.claim.Salt)
  /\ public.Threshold <= made.claim.Score

(* Whatever public inputs a proof is presented with, of whichever system, an
   accepted one says that the score behind that commitment meets that
   threshold, provided both are numbers below the order of the field (Verify):
   a commitment beyond it stands for its remainder and is nobody's. *)
AcceptedMeansMet ==
  checked.accepted /\ checked.public.Commitment \in Field /\ checked.public.Threshold < Modulus =>
    IsMet(checked.public)

(* A score that meets its threshold can always be proved, the one that just
   meets it and zero included, and the proof is accepted with the public
   inputs that Prove returned. *)
MeetingClaimsPass ==
  /\ LET claim == made.claim IN
     made.outcome = "refused" /\ ValidClaim(claim) =>
       claim.Score < claim.Threshold \/ Modulus <= claim.Score \/ Modulus <= claim.Salt
  /\ made.outcome = "proved" /\ checked.system = made.proof.system /\ checked.public = made.public
       => checked.accepted

-----------------------------------------------------------------------------
(* A claim of the documentation that the code does not keep. *)

(* zkproof/proof.go:4 and contracts/README.md:42: the hidden score is at least
   the public threshold; here for commitments that Commitment returns. *)
ThresholdIsMet ==
  checked.accepted /\ checked.public.Commitment \in Field => IsMet(checked.public)
=============================================================================
