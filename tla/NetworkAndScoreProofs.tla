------------------------- MODULE NetworkAndScoreProofs -------------------------
(***************************************************************************)
(* Theorems about LocalNetwork, for every number of network commands,      *)
(* clients and other programs on the port, and about ScoreProof, for every *)
(* field and all integers a caller may pass.  Both programs hold integers  *)
(* of any size against a width, a word or a field, and they share the      *)
(* lemmas about remainders.                                                *)
(***************************************************************************)
EXTENDS LocalNetwork, ScoreProof, TLAPS

-----------------------------------------------------------------------------
(* Remainders. *)

LEMMA RemainderOnce ==
  ASSUME NEW w \in Nat, w > 0, NEW number \in 0..(2 * w - 1)
  PROVE  number % w = IF number < w THEN number ELSE number - w
<1> DEFINE q == number \div w
           r == number % w
<1>1. q \in Int /\ r \in 0..(w - 1) /\ number = w * q + r
  OBVIOUS
<1> HIDE DEF q, r
<1>2. q = 0 \/ q = 1
  <2>1. CASE q >= 2
    <3>1. w * q >= w * 2
      BY <1>1, <2>1
    <3>2. QED
      BY <1>1, <3>1
  <2>2. CASE q <= -1
    <3>1. w * q <= w * (-1)
      BY <1>1, <2>2
    <3>2. QED
      BY <1>1, <3>1
  <2>3. QED
    BY <1>1, <2>1, <2>2
<1>3. w * 0 = 0 /\ w * 1 = w
  OBVIOUS
<1>4. r = IF number < w THEN number ELSE number - w
  BY <1>1, <1>2, <1>3
<1>5. QED
  BY <1>4 DEF r

LEMMA RemainderRange ==
  ASSUME NEW w \in Nat, w > 0, NEW number \in Int
  PROVE  /\ number % w \in 0..(w - 1)
         /\ number \in 0..(w - 1) => number % w = number
         /\ number >= 0 => number % w <= number
<1> DEFINE q == number \div w
           r == number % w
<1>1. q \in Int /\ r \in 0..(w - 1) /\ number = w * q + r
  OBVIOUS
<1> HIDE DEF q, r
<1>2. number >= 0 => q >= 0
  <2>1. SUFFICES ASSUME q <= -1 PROVE number < 0
    BY <1>1
  <2>2. w * q <= w * (-1)
    BY <1>1, <2>1
  <2>3. QED
    BY <1>1, <2>2
<1>3. q >= 0 => w * q >= 0
  BY <1>1
<1>4. q >= 1 => w * q >= w
  <2>1. SUFFICES ASSUME q >= 1 PROVE w * q >= w * 1
    OBVIOUS
  <2>2. QED
    BY <1>1, <2>1
<1>5. number \in 0..(w - 1) => q = 0
  BY <1>1, <1>2, <1>4
<1>6. w * 0 = 0
  OBVIOUS
<1>7. QED
  BY <1>1, <1>2, <1>3, <1>5, <1>6 DEF r

(* What Int64 does to a chain ID that fits into the word: it is read as the
   local one only if it is the local one. *)
LEMMA SmallChainIsItself ==
  ASSUME NEW chain \in Nat, chain < Word, IsLocal(chain)
  PROVE  chain = localHardhatChainID
<1> DEFINE half == Word \div 2
<1>1. /\ Word \in Nat /\ half \in Nat /\ Word = 2 * half
      /\ localHardhatChainID \in Nat /\ localHardhatChainID < half
  BY WordAssumption
<1>2. Int64(chain) = ((chain + half) % Word) - half
  BY DEF Int64
<1> HIDE DEF half
<1>3. chain + half \in 0..(2 * Word - 1) /\ Word > 0
  BY <1>1
<1>4. (chain + half) % Word = IF chain + half < Word THEN chain + half ELSE chain + half - Word
  BY <1>1, <1>3, RemainderOnce
<1>5. QED
  BY <1>1, <1>2, <1>4 DEF IsLocal

-----------------------------------------------------------------------------
(* The process of a network command. *)

Unstarted == {"off", "compile", "reserve", "reserved", "released"}

(* A process is started once, by the command that then waits for its node. *)
ProcessInv ==
  /\ stage \in [Networks -> Unstarted \cup
                  {"polling", "calling", "ready", "serving", "stopping", "ended", "killed"}]
  /\ npx \in [Networks -> {"none", "running", "dead"}]
  /\ \A n \in Networks : stage[n] \in Unstarted => npx[n] = "none"
  /\ NoProcessLeft

LEMMA ProcessInitial == Init => ProcessInv
BY DEF Init, ProcessInv, NoProcessLeft, Unstarted

LEMMA StepKeepsProcess ==
  ASSUME ProcessInv, NEW n \in Networks,
         Begin(n) \/ CommandStep(n) \/ Interrupt(n) \/ Deadline(n) \/ Killed(n) \/ NodeListens(n) \/ NpxExits(n)
  PROVE  ProcessInv'
<1>1. CASE Begin(n) \/ Compile(n) \/ Reserve(n) \/ Release(n)
  BY <1>1 DEF ProcessInv, Unstarted, NoProcessLeft, Begin, Compile, Reserve, Release, At
<1>2. CASE StartNode(n)
  BY <1>2 DEF ProcessInv, Unstarted, NoProcessLeft, StartNode, At
<1>3. CASE Poll(n) \/ ChainIdRead(n) \/ GiveUp(n) \/ AccountsRead(n) \/ Serve(n)
  BY <1>3 DEF ProcessInv, Unstarted, NoProcessLeft, Poll, ChainIdRead, GiveUp, AccountsRead, Serve, At
<1>4. CASE StopNode(n)
  BY <1>4 DEF ProcessInv, Unstarted, NoProcessLeft, StopNode, NpxEnds, At
<1>5. CASE Interrupt(n) \/ Deadline(n) \/ NodeListens(n)
  BY <1>5 DEF ProcessInv, NoProcessLeft, Interrupt, Deadline, NodeListens, networkVars
<1>6. CASE Killed(n)
  BY <1>6 DEF ProcessInv, Unstarted, NoProcessLeft, Killed
<1>7. CASE NpxExits(n)
  BY <1>7 DEF ProcessInv, Unstarted, NoProcessLeft, NpxExits, NpxEnds
<1>8. QED
  BY <1>1, <1>2, <1>3, <1>4, <1>5, <1>6, <1>7 DEF CommandStep

LEMMA ProcessInductive == ProcessInv /\ [Next]_vars => ProcessInv'
<1> SUFFICES ASSUME ProcessInv, [Next]_vars PROVE ProcessInv'
  OBVIOUS
<1>1. ASSUME NEW n \in Networks,
             Begin(n) \/ CommandStep(n) \/ Interrupt(n) \/ Deadline(n) \/ Killed(n) \/ NodeListens(n) \/ NpxExits(n)
      PROVE  ProcessInv'
  BY <1>1, StepKeepsProcess
<1>2. ASSUME NEW c \in Clients, LoadLocalConfig(c) \/ Connect(c) \/ RequireFunds(c) \/ Sign(c) \/ Leave(c)
      PROVE  ProcessInv'
  BY <1>2 DEF ProcessInv, NoProcessLeft, LoadLocalConfig, Connect, RequireFunds, Sign, Leave, networkVars
<1>3. CASE PortChangesHands
  BY <1>3 DEF ProcessInv, NoProcessLeft, PortChangesHands, networkVars
<1>4. CASE UNCHANGED vars
  BY <1>4 DEF ProcessInv, NoProcessLeft, vars, networkVars
<1>5. QED
  BY <1>1, <1>2, <1>3, <1>4 DEF Next

(* Whichever way runNetwork returns, the process it started no longer runs. *)
THEOREM ProcessIsStopped == Spec => []NoProcessLeft
<1>1. ProcessInv => NoProcessLeft
  BY DEF ProcessInv
<1>2. QED
  BY <1>1, ProcessInitial, ProcessInductive, PTL DEF Spec

-----------------------------------------------------------------------------
(* The configured key. *)

IsChain(chain) == chain \in Nat /\ IsLocal(chain)

(* A client signs with the chain ID that connectHardhat has found local, and
   nothing but that is accepted. *)
KeyInv ==
  /\ listener \in Networks \cup Strangers \cup {Nobody}
  /\ step \in [Clients -> {"off", "configured", "connected", "signing", "ended"}]
  /\ DOMAIN chainID = Clients
  /\ \A c \in Clients : step[c] \in {"connected", "signing"} => IsChain(chainID[c])
  /\ \A chain \in accepted : IsChain(chain)

LEMMA KeyInitial == Init => KeyInv
BY DEF Init, KeyInv

LEMMA AnsweringChain ==
  ASSUME KeyInv, Answering
  PROVE  Chain \in Nat
BY StrangerAssumption, WordAssumption DEF Answering, Chain, KeyInv

LEMMA ListenerType ==
  ASSUME KeyInv, [Next]_vars
  PROVE  listener' \in Networks \cup Strangers \cup {Nobody}
<1>1. ASSUME NEW n \in Networks,
             Begin(n) \/ CommandStep(n) \/ Interrupt(n) \/ Deadline(n) \/ Killed(n) \/ NodeListens(n) \/ NpxExits(n)
      PROVE  listener' = listener \/ listener' \in {n, Nobody}
  <2>1. CASE StopNode(n) \/ NpxExits(n)
    BY <2>1 DEF StopNode, NpxExits, NpxEnds
  <2>2. CASE ~StopNode(n) /\ ~NpxExits(n)
    BY <1>1, <2>2 DEF Begin, CommandStep, Compile, Reserve, Release, StartNode, Poll, ChainIdRead, GiveUp,
                      AccountsRead, Serve, Interrupt, Deadline, Killed, NodeListens
  <2>3. QED
    BY <2>1, <2>2
<1>2. ASSUME NEW c \in Clients, LoadLocalConfig(c) \/ Connect(c) \/ RequireFunds(c) \/ Sign(c) \/ Leave(c)
      PROVE  listener' = listener
  BY <1>2 DEF LoadLocalConfig, Connect, RequireFunds, Sign, Leave
<1>3. CASE PortChangesHands
  BY <1>3 DEF PortChangesHands
<1>4. QED
  BY <1>1, <1>2, <1>3 DEF KeyInv, Next, vars

LEMMA OthersKeepKey ==
  ASSUME NEW n \in Networks,
         Begin(n) \/ CommandStep(n) \/ Interrupt(n) \/ Deadline(n) \/ Killed(n) \/ NodeListens(n) \/ NpxExits(n)
  PROVE  UNCHANGED clientVars
<1>1. CASE CommandStep(n)
  BY <1>1 DEF CommandStep, Compile, Reserve, Release, StartNode, Poll, ChainIdRead, GiveUp, AccountsRead, Serve, StopNode
<1>2. CASE ~CommandStep(n)
  BY <1>2 DEF Begin, Interrupt, Deadline, Killed, NodeListens, NpxExits
<1>3. QED
  BY <1>1, <1>2

LEMMA KeyInductive == KeyInv /\ [Next]_vars => KeyInv'
<1> SUFFICES ASSUME KeyInv, [Next]_vars PROVE KeyInv'
  OBVIOUS
<1>1. listener' \in Networks \cup Strangers \cup {Nobody}
  BY ListenerType
<1>2. CASE UNCHANGED clientVars
  BY <1>1, <1>2 DEF KeyInv, clientVars
<1>3. ASSUME NEW c \in Clients, LoadLocalConfig(c) \/ Connect(c) \/ RequireFunds(c) \/ Sign(c) \/ Leave(c)
      PROVE  KeyInv'
  <2>1. CASE LoadLocalConfig(c) \/ RequireFunds(c) \/ Leave(c)
    BY <1>1, <2>1 DEF KeyInv, LoadLocalConfig, RequireFunds, Leave, Advance
  <2>2. CASE Connect(c)
    <3>1. IsChain(Chain)
      BY <2>2, AnsweringChain DEF IsChain, Connect
    <3>2. /\ step[c] = "configured" /\ step' = [step EXCEPT ![c] = "connected"]
          /\ chainID' = [chainID EXCEPT ![c] = Chain] /\ UNCHANGED accepted
      BY <2>2 DEF Connect, Advance
    <3>3. QED
      BY <1>1, <3>1, <3>2 DEF KeyInv
  <2>3. CASE Sign(c)
    <3>1. /\ step[c] = "signing" /\ UNCHANGED <<step, chainID>>
          /\ accepted' \subseteq accepted \cup {chainID[c]}
      BY <2>3 DEF Sign
    <3>2. QED
      BY <1>1, <3>1 DEF KeyInv
  <2>4. QED
    BY <1>3, <2>1, <2>2, <2>3
<1>4. CASE PortChangesHands
  BY <1>2, <1>4 DEF PortChangesHands
<1>5. CASE UNCHANGED vars
  BY <1>2, <1>5 DEF vars
<1>6. QED
  BY <1>2, <1>3, <1>4, <1>5, OthersKeepKey DEF Next

(* Of all chains whose ID fits into the word, the local one alone takes
   transactions of the configured key, although the node behind the port may
   change between connectHardhat and the signature. *)
THEOREM KeyIsKept == Spec => []KeyStaysLocal
<1>1. KeyInv => KeyStaysLocal
  BY SmallChainIsItself DEF KeyInv, KeyStaysLocal, IsChain
<1>2. QED
  BY <1>1, KeyInitial, KeyInductive, PTL DEF Spec

-----------------------------------------------------------------------------
(* Score proofs. *)

(* A proof that was made is of a satisfied circuit, and of the public inputs
   that were returned with it. *)
Proved(call) ==
  LET score == call.claim.Score
      threshold == call.claim.Threshold
      commitment == Commitment(score, call.claim.Salt) IN
  /\ score \in Field /\ threshold \in Nat /\ commitment \in Field
  /\ call.public = [Commitment |-> commitment, Threshold |-> threshold]
  /\ \E system \in Systems :
       call.proof = [system |-> system,
                     public |-> [Commitment |-> commitment, Threshold |-> Element(threshold)]]
  /\ Element(threshold) <= score

(* What an accepted proof says of any public inputs: the elements that stand
   for them are a commitment to the score and a number no higher than it. *)
ElementsMet(public) ==
  /\ public.Threshold \in Int
  /\ Element(public.Commitment) = Commitment(made.claim.Score, made.claim.Salt)
  /\ made.claim.Score \in Field /\ Element(public.Threshold) <= made.claim.Score

ScoreInv ==
  /\ made.outcome = "proved" => Proved(made)
  /\ MeetingClaimsPass
  /\ checked.accepted => ElementsMet(checked.public)

LEMMA ElementOf ==
  ASSUME NEW number \in Int
  PROVE  /\ Element(number) \in Field
         /\ number < Modulus => number <= Element(number)
         /\ number >= 0 => Element(number) <= number
         /\ number \in Field => Element(number) = number
<1>1. Modulus \in Nat /\ Modulus > 0
  BY ModulusAssumption
<1>2. /\ Element(number) \in 0..(Modulus - 1)
      /\ number \in 0..(Modulus - 1) => Element(number) = number
      /\ number >= 0 => Element(number) <= number
  BY <1>1, RemainderRange DEF Element
<1>3. QED
  BY <1>1, <1>2 DEF Field

LEMMA ScoreInitial == ScoreInit => ScoreInv
BY DEF ScoreInit, NothingMade, NothingChecked, ScoreInv, MeetingClaimsPass

(* A claim that is turned down does not meet its threshold or is too large
   for the field. *)
LEMMA ProveKeeps ==
  ASSUME ScoreInv, NEW system \in Systems, NEW claim \in Claim, Prove(system, claim)
  PROVE  ScoreInv'
<1> DEFINE score == claim.Score
           salt == claim.Salt
           threshold == claim.Threshold
           commitment == Commitment(score, salt)
           public == [Commitment |-> commitment, Threshold |-> threshold]
           proof == [system |-> system,
                     public |-> [Commitment |-> commitment, Threshold |-> Element(threshold)]]
<1>1. checked' = NothingChecked /\ ~checked'.accepted /\ checked'.system = Nil
  BY DEF Prove, NothingChecked
<1>2. Modulus \in Nat /\ Modulus > 0
  BY ModulusAssumption
<1>3. ASSUME ValidClaim(claim)
      PROVE  score \in Nat /\ salt \in Nat /\ threshold \in Nat
  <2>1. score \in Inputs /\ salt \in Inputs /\ threshold \in Inputs
    BY DEF Claim
  <2>2. /\ score # Nil /\ score >= 0 /\ salt # Nil /\ salt >= 0
        /\ threshold # Nil /\ threshold >= 0
    BY <1>3 DEF ValidClaim
  <2>3. ASSUME NEW number \in Inputs, number # Nil, number >= 0
        PROVE  number \in Nat
    <3>1. number \in Int
      BY <2>3, NumberAssumption DEF Inputs
    <3>2. QED
      BY <2>3, <3>1
  <2>4. QED
    BY <2>1, <2>2, <2>3
<1>4. CASE ~ValidClaim(claim) /\ made'.outcome = "refused" /\ made'.claim = claim
  BY <1>1, <1>4 DEF ScoreInv, MeetingClaimsPass
<1>5. CASE ValidClaim(claim) /\ CommitmentOutcome(claim) # "hashed"
           /\ made'.outcome = CommitmentOutcome(claim) /\ made'.claim = claim
  <2>1. CommitmentOutcome(claim) \in {"panic", "refused"}
    BY <1>5 DEF CommitmentOutcome
  <2>2. CommitmentOutcome(claim) = "refused" => Modulus <= score \/ Modulus <= salt
    BY <1>2, <1>3, <1>5 DEF CommitmentOutcome, Field
  <2>3. QED
    BY <1>1, <1>5, <2>1, <2>2 DEF ScoreInv, MeetingClaimsPass
<1>6. CASE /\ ValidClaim(claim) /\ CommitmentOutcome(claim) = "hashed" /\ score < Element(threshold)
           /\ made'.outcome = "refused" /\ made'.claim = claim
  <2>1. score < threshold
    BY <1>3, <1>6, ElementOf DEF Field
  <2>2. QED
    BY <1>1, <1>6, <2>1 DEF ScoreInv, MeetingClaimsPass
<1>7. CASE /\ ValidClaim(claim) /\ CommitmentOutcome(claim) = "hashed" /\ Element(threshold) <= score
           /\ made'.outcome = "proved" /\ made'.proof = proof /\ made'.public = public
           /\ made'.claim = claim
  <2>1. score \in Field /\ salt \in Field
    BY <1>7 DEF CommitmentOutcome
  <2>2. commitment \in Field
    BY <2>1, HashAssumption DEF Commitment
  <2>3. made'.proof.system # Nil
    BY <1>7, NilAssumption
  <2>4. Proved(made)'
    BY <1>3, <1>7, <2>1, <2>2 DEF Proved
  <2>5. QED
    BY <1>1, <1>7, <2>3, <2>4 DEF ScoreInv, MeetingClaimsPass, Proved
<1>8. QED
  <2>1. CASE ~ValidClaim(claim)
    BY <1>4, <2>1 DEF Prove, Returned
  <2>2. CASE ValidClaim(claim) /\ CommitmentOutcome(claim) # "hashed"
    BY <1>5, <2>2 DEF Prove, Returned
  <2>3. CASE ValidClaim(claim) /\ CommitmentOutcome(claim) = "hashed"
    <3> DEFINE assignment == [Score |-> score, Salt |-> salt, Commitment |-> commitment,
                              Threshold |-> Element(threshold)]
    <3>1. Satisfied(assignment) <=> Element(threshold) <= score
      BY DEF Satisfied
    <3>2. score \in Nat /\ Element(threshold) \in Nat
      BY <1>2, <1>3, <2>3, ElementOf DEF Field
    <3>3. CASE ~Satisfied(assignment)
      <4>1. made'.outcome = "refused" /\ made'.claim = claim
        BY <2>3, <3>3 DEF Prove, Returned
      <4>2. QED
        BY <1>6, <2>3, <3>1, <3>2, <3>3, <4>1
    <3>4. CASE Satisfied(assignment)
      <4>1. /\ made'.outcome = "proved" /\ made'.proof = proof /\ made'.public = public
            /\ made'.claim = claim
        BY <2>3, <3>4 DEF Prove, Returned
      <4>2. QED
        BY <1>7, <2>3, <3>1, <3>4, <4>1
    <3>5. QED
      BY <3>3, <3>4
  <2>4. QED
    BY <2>1, <2>2, <2>3

(* What a proof is presented with decides what it says: the elements that
   stand for the presented numbers are those it was made for. *)
LEMMA VerifyKeeps ==
  ASSUME ScoreInv, NEW system \in Systems, NEW public \in PublicInputs, Verify(system, public)
  PROVE  ScoreInv'
<1> DEFINE score == made.claim.Score
           threshold == made.claim.Threshold
           commitment == Commitment(score, made.claim.Salt)
           presented == [Commitment |-> Element(public.Commitment),
                         Threshold |-> Element(public.Threshold)]
<1>1. UNCHANGED made /\ Proved(made)
  BY DEF Verify, ScoreInv
<1>2. PICK s \in Systems :
        made.proof = [system |-> s,
                      public |-> [Commitment |-> commitment, Threshold |-> Element(threshold)]]
  BY <1>1 DEF Proved
<1>3. /\ score \in Field /\ threshold \in Nat /\ commitment \in Field
      /\ made.public = [Commitment |-> commitment, Threshold |-> threshold]
      /\ Element(threshold) <= score
  BY <1>1 DEF Proved
<1>4. /\ checked'.system = system /\ checked'.public = public
      /\ checked'.accepted <=> /\ public.Commitment # Nil /\ public.Threshold # Nil
                               /\ made.proof = [system |-> system, public |-> presented]
  BY DEF Verify
<1>5. ASSUME checked'.accepted
      PROVE  ElementsMet(public)'
  <2>1. public.Threshold \in Int
    BY <1>4, <1>5, NumberAssumption DEF PublicInputs, Inputs
  <2>2. Element(public.Commitment) = commitment /\ Element(public.Threshold) = Element(threshold)
    BY <1>2, <1>4, <1>5
  <2>3. QED
    BY <1>1, <1>3, <2>1, <2>2 DEF ElementsMet
<1>6. ASSUME system = made.proof.system, public = made.public
      PROVE  checked'.accepted
  <2>1. public.Commitment = commitment /\ public.Threshold = threshold
    BY <1>3, <1>6
  <2>2. commitment \in Int /\ threshold \in Int
    BY <1>3, ModulusAssumption DEF Field
  <2>3. public.Commitment # Nil /\ public.Threshold # Nil
    BY <2>1, <2>2, NumberAssumption
  <2>4. presented = [Commitment |-> commitment, Threshold |-> Element(threshold)]
    BY <1>3, <2>1, <2>2, ElementOf
  <2>5. QED
    BY <1>2, <1>4, <1>6, <2>3, <2>4
<1>7. QED
  BY <1>1, <1>4, <1>5, <1>6 DEF ScoreInv, MeetingClaimsPass, ElementsMet

LEMMA ScoreInductive == ScoreInv /\ [ScoreNext]_scoreVars => ScoreInv'
<1> SUFFICES ASSUME ScoreInv, [ScoreNext]_scoreVars PROVE ScoreInv'
  OBVIOUS
<1>1. CASE UNCHANGED scoreVars
  BY <1>1 DEF scoreVars, ScoreInv, MeetingClaimsPass, ElementsMet, Proved
<1>2. QED
  BY <1>1, ProveKeeps, VerifyKeeps DEF ScoreNext

(* Whatever an accepted proof is presented with, numbers beyond the field
   included: if commitment and threshold are both in it, they are met by the
   score the proof was made from (Verify). *)
THEOREM AcceptedIsMet == ScoreSpec => []AcceptedMeansMet
<1>1. ASSUME ScoreInv PROVE AcceptedMeansMet
  <2> DEFINE public == checked.public
  <2>1. SUFFICES ASSUME checked.accepted, public.Commitment \in Field, public.Threshold < Modulus
                 PROVE  IsMet(public)
    BY DEF AcceptedMeansMet
  <2>2. ElementsMet(public)
    BY <1>1, <2>1 DEF ScoreInv
  <2>3. Element(public.Commitment) = public.Commitment
    BY <2>1, ElementOf, ModulusAssumption DEF Field
  <2>4. public.Threshold <= Element(public.Threshold) /\ Element(public.Threshold) \in Field
    BY <2>1, <2>2, ElementOf DEF ElementsMet
  <2>5. public.Threshold <= made.claim.Score
    BY <2>2, <2>4, ModulusAssumption DEF ElementsMet, Field
  <2>6. QED
    BY <2>2, <2>3, <2>5 DEF ElementsMet, IsMet
<1>2. QED
  BY <1>1, ScoreInitial, ScoreInductive, PTL DEF ScoreSpec

(* A claim in the field that meets its threshold is proved, and the proof is
   accepted with what Prove returned (Prove, Verify). *)
THEOREM MeetingPasses == ScoreSpec => []MeetingClaimsPass
<1>1. ScoreInv => MeetingClaimsPass
  BY DEF ScoreInv
<1>2. QED
  BY <1>1, ScoreInitial, ScoreInductive, PTL DEF ScoreSpec

=============================================================================
