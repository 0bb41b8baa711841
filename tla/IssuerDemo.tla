------------------------------ MODULE IssuerDemo ------------------------------
(***************************************************************************)
(* cmd/issuer-demo: the commands issue, upgrade and verify against one     *)
(* SkillMVPRegistry, each a process of its own that talks to the chain     *)
(* through RPC calls.  A command that writes goes through the same cycle   *)
(* for each transaction (transactWithSigner): read the pending nonce and   *)
(* have the call estimated, send, poll for the receipt until a deadline.   *)
(* Commands run side by side, may fail at each call, and what a command    *)
(* has sent may be mined long after the command has given up.  No call has *)
(* a timeout: from a node that accepts calls and stops answering them, a   *)
(* command returns only when the user interrupts it.                       *)
(*                                                                         *)
(* The chain (external) is modelled by what the commands rely on: it mines *)
(* the transactions of an account in the order of their nonces, each at    *)
(* most once, and a transaction that was estimated may still revert, for a *)
(* failed require or for want of gas.  Time stands still in this module:   *)
(* every expiry is 90 days ahead.                                          *)
(*                                                                         *)
(* An operator whose comment begins with "Faulty:" is no part of the       *)
(* specification: it is the next operator with a programming error, kept   *)
(* to confirm that the properties would notice that error.                 *)
(***************************************************************************)
EXTENDS SkillMVPRegistry, FiniteSets

CONSTANTS Issues, Upgrades, Verifiers,   \* runs of the three commands
          FirstEvidence,                 \* evidence that issue may be given
          Child,                         \* the key issueOnHardhat generates
          Expiry                         \* 90 days from now

ASSUME CommandAssumption == Issues \cap Upgrades = {} /\ (Issues \cup Upgrades) \cap Verifiers = {}
ASSUME ChildAssumption == Child \in Delegates \ {Root}
ASSUME ProgramAssumption == Skills \X {"v1", "v2"} \subseteq Programs
ASSUME EvidenceAssumption == FirstEvidence \subseteq Evidence
ASSUME ExpiryAssumption == Expiry \in Expiries
(* Every issue deploys a registry of its own; this is about one of them. *)
ASSUME OneRegistry == \A i, j \in Issues : i = j

VARIABLES stage,      \* command -> the step it is at
          phase,      \* command -> how far its transaction is
          argsOf,     \* command -> its flags
          nonceOf,    \* command -> the nonce it is about to use
          seen,       \* command -> what it has read, and in the end prints
          pool,       \* transactions sent and not mined
          receipts,   \* outcomes of the mined ones
          nonces,     \* account -> its mined transactions
          silent      \* whether the node has stopped answering

commandVars == <<stage, phase, argsOf, nonceOf, seen>>
chainVars == <<pool, receipts, nonces, silent>>
demoVars == <<vars, commandVars, chainVars>>

Commands == Issues \cup Upgrades \cup Verifiers
Transactions == {"deploy", "fund", "delegate", "attest", "bind", "supersede"}
Reads == {"successor", "current", "hasSkill", "currentId"}
Running == Transactions \cup Reads

NoArgs == [subject |-> Zero, skill |-> Zero, evidence |-> Zero, holder |-> Zero, binds |-> FALSE,
           predecessor |-> Zero]
Nothing == [id |-> Zero, hasSkill |-> FALSE, current |-> FALSE]

Program(skill, version) == <<skill, version>>
IssuedId(args) == DeriveAttestationId(args.subject, args.skill, Program(args.skill, "v1"), args.evidence)

DemoInit ==
  /\ Init
  /\ stage = [c \in Commands |-> "off"]
  /\ phase = [c \in Commands |-> "prepare"]
  /\ argsOf = [c \in Commands |-> NoArgs]
  /\ nonceOf = [c \in Commands |-> 0]
  /\ seen = [c \in Commands |-> Nothing]
  /\ pool = {} /\ receipts = {}
  /\ nonces = [a \in {Root, Child} |-> 0]
  /\ silent = FALSE

Go(c, next) ==
  /\ stage' = [stage EXCEPT ![c] = next]
  /\ phase' = [phase EXCEPT ![c] = "prepare"]
  /\ nonceOf' = [nonceOf EXCEPT ![c] = 0]

-----------------------------------------------------------------------------
(* Starting a command.  The registry and the attestations that can be named
   in the flags of the others are known once issue has printed them. *)

Start(c, first, args) ==
  /\ stage[c] = "off"
  /\ Go(c, first)
  /\ argsOf' = [argsOf EXCEPT ![c] = args]
  /\ UNCHANGED <<vars, seen, chainVars>>

StartIssue(c, subject, skill, evidence, holder) ==
  Start(c, "deploy", [subject |-> subject, skill |-> skill, evidence |-> evidence,
                      holder |-> holder, binds |-> TRUE, predecessor |-> Zero])

RegistryIsKnown == \E i \in Issues : stage[i] = "done"

(* Nothing checks the holder flag of an upgrade: one that is no address
   stands for the zero address, which bindHolder refuses after the record
   has been superseded. *)
StartUpgrade(c, predecessor, skill, evidence, holder, binds) ==
  /\ RegistryIsKnown
  /\ IsIssued(predecessor)
  /\ ~binds => holder = Zero
  /\ Start(c, "supersede", [subject |-> Zero, skill |-> skill, evidence |-> evidence,
                            holder |-> holder, binds |-> binds, predecessor |-> predecessor])

StartVerify(c, subject, skill) ==
  /\ RegistryIsKnown
  /\ Start(c, "hasSkill", [NoArgs EXCEPT !.subject = subject, !.skill = skill])

-----------------------------------------------------------------------------
(* Transactions. *)

Sender(c, s) == IF c \in Issues /\ s \in {"attest", "bind"} THEN Child ELSE Root

(* What the transaction does to the registry; the deployment makes the
   initial one, and funding the child touches no registry. *)
Execute(c, s) ==
  LET args == argsOf[c] IN
  \/ s \in {"deploy", "fund"} /\ UNCHANGED vars
  \/ /\ s = "delegate"
     /\ DelegateIssuerFor(Root, Child, args.subject, args.skill, Program(args.skill, "v1"), Expiry)
  \/ /\ s = "attest"
     /\ Attest(Child, args.subject, args.skill, Program(args.skill, "v1"), args.evidence)
  \/ /\ s = "supersede"
     /\ Supersede(Root, args.predecessor, Program(args.skill, "v2"), args.evidence)
  \/ LET id == IF c \in Issues THEN IssuedId(args) ELSE seen[c].id IN
     s = "bind" /\ id # Zero /\ BindHolder(Sender(c, s), id, args.holder, Expiry)

Prepare(c) ==
  /\ ~silent /\ stage[c] \in Transactions /\ phase[c] = "prepare"
  /\ LET from == Sender(c, stage[c]) IN
     \/ /\ ENABLED Execute(c, stage[c])
        /\ nonceOf' = [nonceOf EXCEPT ![c] = nonces[from] + Cardinality({t \in pool : t.from = from})]
        /\ phase' = [phase EXCEPT ![c] = "send"]
        /\ UNCHANGED stage
     \/ /\ ~ENABLED Execute(c, stage[c])
        /\ Go(c, "failed")
  /\ UNCHANGED <<vars, argsOf, seen, chainVars>>

(* The node refuses a nonce that another command has used in the meantime. *)
NonceIsTaken(from, nonce) ==
  nonce < nonces[from] \/ \E t \in pool : t.from = from /\ t.nonce = nonce

Send(c) ==
  LET from == Sender(c, stage[c]) IN
  /\ ~silent /\ phase[c] = "send"
  /\ IF NonceIsTaken(from, nonceOf[c])
     THEN Go(c, "failed") /\ UNCHANGED pool
     ELSE /\ pool' = pool \cup {[by |-> c, step |-> stage[c], from |-> from, nonce |-> nonceOf[c]]}
          /\ phase' = [phase EXCEPT ![c] = "wait"]
          /\ nonceOf' = [nonceOf EXCEPT ![c] = 0]
          /\ UNCHANGED stage
  /\ UNCHANGED <<vars, argsOf, seen, receipts, nonces, silent>>

Mine(t) ==
  /\ t.nonce = nonces[t.from]
  /\ nonces' = [nonces EXCEPT ![t.from] = @ + 1]
  /\ pool' = pool \ {t}
  /\ \/ Execute(t.by, t.step) /\ receipts' = receipts \cup {[by |-> t.by, step |-> t.step, ok |-> TRUE]}
     \/ UNCHANGED vars /\ receipts' = receipts \cup {[by |-> t.by, step |-> t.step, ok |-> FALSE]}
  /\ UNCHANGED <<commandVars, silent>>

Following(c, s) ==
  CASE s = "deploy" -> "fund"
    [] s = "fund" -> "delegate"
    [] s = "delegate" -> "attest"
    [] s = "attest" -> "bind"
    [] s = "supersede" -> "successor"
    [] s = "bind" -> IF c \in Issues THEN "done" ELSE "current"

(* Faulty: any receipt will do. *)
MinedAtAll(r) == TRUE
Succeeded(r) == r.ok

Receipt(c) ==
  /\ ~silent /\ phase[c] = "wait"
  /\ \E r \in receipts :
       /\ r.by = c /\ r.step = stage[c]
       /\ IF Succeeded(r) THEN Go(c, Following(c, stage[c])) ELSE Go(c, "failed")
  /\ UNCHANGED <<vars, argsOf, seen, chainVars>>

(* Interrupted, the command polls on with a cancelled context: each poll
   fails at once, and it is still the deadline that ends the wait. *)
Interrupt(c) ==
  /\ phase[c] = "wait"
  /\ phase' = [phase EXCEPT ![c] = "cancelled"]
  /\ UNCHANGED <<vars, stage, argsOf, nonceOf, seen, chainVars>>

(* Faulty: has no deadline and polls on. *)
PollOn(c) ==
  /\ phase[c] \in {"wait", "cancelled"}
  /\ UNCHANGED demoVars

(* Faulty: takes the deadline for a success. *)
GoOn(c) ==
  /\ ~silent /\ phase[c] = "wait"
  /\ Go(c, Following(c, stage[c]))
  /\ UNCHANGED <<vars, argsOf, seen, chainVars>>

(* The deadline of waitReceipt ends the command, not the transaction.  It is
   looked at between two polls, so that a poll has to return first. *)
Timeout(c) ==
  /\ phase[c] = "cancelled" \/ (phase[c] = "wait" /\ ~silent)
  /\ Go(c, "failed")
  /\ UNCHANGED <<vars, argsOf, seen, chainVars>>

-----------------------------------------------------------------------------
(* Reads: each is a call of its own, on the state of that moment. *)

Look(c, found, next) ==
  /\ ~silent
  /\ seen' = [seen EXCEPT ![c] = found]
  /\ Go(c, next)
  /\ UNCHANGED <<vars, argsOf, chainVars>>

ReadSuccessor(c) ==
  /\ stage[c] = "successor"
  /\ Look(c, [seen[c] EXCEPT !.id = successorOf[argsOf[c].predecessor]],
          IF argsOf[c].binds THEN "bind" ELSE "current")

ReadHasSkill(c) ==
  /\ stage[c] = "hasSkill"
  /\ Look(c, [seen[c] EXCEPT !.hasSkill = HasSkill(argsOf[c].subject, argsOf[c].skill)], "currentId")

ReadCurrentId(c) ==
  LET id == activeSkillAttestation[<<argsOf[c].subject, argsOf[c].skill>>] IN
  /\ stage[c] = "currentId"
  /\ Look(c, [seen[c] EXCEPT !.id = id], IF id = Zero THEN "done" ELSE "current")

ReadCurrent(c) ==
  /\ stage[c] = "current"
  /\ Look(c, [seen[c] EXCEPT !.current = seen[c].id # Zero /\ IsCurrent(seen[c].id)], "done")

(* An RPC call fails or the user interrupts it; only waitReceipt goes on. *)
Fail(c) ==
  /\ stage[c] \in Running /\ phase[c] \in {"prepare", "send"}
  /\ Go(c, "failed")
  /\ UNCHANGED <<vars, argsOf, seen, chainVars>>

-----------------------------------------------------------------------------
(* The node accepts calls and answers none of them from now on.  A command
   whose transaction arrived and whose answer was lost is one that hangs in
   the wait for its receipt. *)
FallSilent ==
  /\ ~silent
  /\ silent' = TRUE
  /\ UNCHANGED <<vars, commandVars, pool, receipts, nonces>>

Step(c) ==
  \/ Prepare(c) \/ Send(c) \/ Receipt(c) \/ Timeout(c)
  \/ ReadSuccessor(c) \/ ReadHasSkill(c) \/ ReadCurrentId(c) \/ ReadCurrent(c)

DemoNext ==
  \/ \E c \in Commands : Step(c) \/ Fail(c) \/ Interrupt(c)
  \/ \E c \in Issues, subject \in Subjects, skill \in Skills, evidence \in FirstEvidence, holder \in Holders :
       StartIssue(c, subject, skill, evidence, holder)
  \/ \E c \in Upgrades, predecessor \in AttestationIds, skill \in Skills, evidence \in Evidence,
        holder \in Holders \cup {Zero}, binds \in BOOLEAN :
       StartUpgrade(c, predecessor, skill, evidence, holder, binds)
  \/ \E c \in Verifiers, subject \in Subjects, skill \in Skills : StartVerify(c, subject, skill)
  \/ \E t \in pool : Mine(t)
  \/ FallSilent

DemoSpec == DemoInit /\ [][DemoNext]_demoVars

(* A started process is scheduled, and its deadline passes.  That the node
   mines or goes on answering is not assumed, nor that anybody interrupts. *)
FairDemoSpec == DemoSpec /\ \A c \in Commands : WF_demoVars(Step(c))

-----------------------------------------------------------------------------
HolderIs(id, holder) == holderBindings[id].active /\ holderBindings[id].holder = holder

(* When issue prints a result, the registry holds all of it: the record of
   the child it delegated and the holder that was asked for, whatever was
   mined late or reverted on the way (issueOnHardhat). *)
IssueReportsWhatHolds ==
  \A c \in Issues : stage[c] = "done" =>
    /\ attestations[IssuedId(argsOf[c])].issuer = Child
    /\ HolderIs(IssuedId(argsOf[c]), argsOf[c].holder)

(* When upgrade prints a result, the successor it names is the one that it
   asked for and not one that a competing upgrade made, it follows the given
   predecessor, and it has the given holder (upgradeOnHardhat). *)
UpgradeReportsItsOwn ==
  \A c \in Upgrades : stage[c] = "done" =>
    LET args == argsOf[c] IN
    /\ seen[c].id = DeriveAttestationId(SubjectOf(args.predecessor), SkillOf(args.predecessor),
                                        Program(args.skill, "v2"), args.evidence)
    /\ successorOf[args.predecessor] = seen[c].id
    /\ args.binds => HolderIs(seen[c].id, args.holder)

(* However often an upgrade is repeated, also after a timeout whose
   transaction is still in the pool, one of them succeeds at most. *)
RetryUpgradesOnce ==
  \A r, s \in receipts :
    r.step = "supersede" /\ r.ok /\ s.step = "supersede" /\ s.ok
      /\ argsOf[r.by].predecessor = argsOf[s.by].predecessor => r.by = s.by

(* Upgrades do not make a skill disappear from view: a verify that runs
   beside them finds the learner's skill and an attestation for it, although
   its three reads see three states (verifyOnHardhat). *)
SkillStaysInView ==
  \A c \in Verifiers, i \in Issues :
    stage[c] = "done" /\ stage[i] = "done" /\ argsOf[c].subject = argsOf[i].subject
      /\ argsOf[c].skill = argsOf[i].skill =>
        seen[c].hasSkill /\ seen[c].id # Zero /\ SlotOf(seen[c].id) = <<argsOf[c].subject, argsOf[c].skill>>

(* Every command ends, also when the chain mines nothing, unless the node has
   stopped answering; and then it still ends if it is interrupted in its wait
   for a receipt (waitReceipt).  As each command is started once, this says
   that in the end none is running. *)
CommandEnds ==
  <>[](\A c \in Commands : stage[c] \in Running => silent /\ phase[c] # "cancelled")

=============================================================================
