---------------------------- MODULE IssuerDemoProofs ----------------------------
(***************************************************************************)
(* Theorems about IssuerDemo: what the commands print holds of the         *)
(* registry, for every number of upgrades and verifications beside one     *)
(* deployment, every order in which their transactions are mined, and      *)
(* every failure and timeout.                                              *)
(***************************************************************************)
EXTENDS IssuerDemo, SkillMVPRegistryProofs, FiniteSetTheorems

-----------------------------------------------------------------------------
(* What a command that has started was asked for. *)

UpgradeId(args) ==
  DeriveAttestationId(SubjectOf(args.predecessor), SkillOf(args.predecessor), Program(args.skill, "v2"), args.evidence)

Args == [subject : Subjects \cup {Zero}, skill : Skills \cup {Zero}, evidence : Evidence \cup {Zero},
         holder : Holders \cup {Zero}, binds : BOOLEAN,
         predecessor : AttestationIds \cup {Zero}]

IssueArgs == {args \in Args : /\ args.subject \in Subjects /\ args.skill \in Skills
                              /\ args.evidence \in FirstEvidence /\ args.holder \in Holders}
UpgradeArgs == {args \in Args : /\ args.predecessor \in AttestationIds
                                /\ args.skill \in Skills /\ args.evidence \in Evidence}
VerifyArgs == {args \in Args : args.subject \in Subjects /\ args.skill \in Skills}

Wanted(c, args) ==
  /\ c \in Issues => args \in IssueArgs
  /\ c \in Upgrades => args \in UpgradeArgs
  /\ c \in Verifiers => args \in VerifyArgs

LEMMA CommandIds ==
  /\ \A args \in IssueArgs :
       /\ Program(args.skill, "v1") \in Programs /\ args.evidence \in Evidence
       /\ IssuedId(args) \in AttestationIds /\ SlotOf(IssuedId(args)) = <<args.subject, args.skill>>
       /\ <<args.subject, args.skill>> \in Subjects \X Skills
  /\ \A args \in UpgradeArgs :
       Program(args.skill, "v2") \in Programs /\ UpgradeId(args) \in AttestationIds
<1>1. \A skill \in Skills : Program(skill, "v1") \in Programs /\ Program(skill, "v2") \in Programs
  BY ProgramAssumption DEF Program
<1>2. ASSUME NEW args \in IssueArgs
      PROVE  /\ Program(args.skill, "v1") \in Programs /\ args.evidence \in Evidence
             /\ IssuedId(args) \in AttestationIds /\ SlotOf(IssuedId(args)) = <<args.subject, args.skill>>
             /\ <<args.subject, args.skill>> \in Subjects \X Skills
  BY <1>1, DerivedIds, EvidenceAssumption DEF IssueArgs, IssuedId
<1>3. ASSUME NEW args \in UpgradeArgs
      PROVE  Program(args.skill, "v2") \in Programs /\ UpgradeId(args) \in AttestationIds
  BY <1>1, DerivedIds, IdParts DEF UpgradeArgs, UpgradeId
<1>4. QED
  BY <1>2, <1>3

-----------------------------------------------------------------------------
(* The registry under the commands. *)

(* Nobody revokes a binding here and no time passes. *)
RegistryInv ==
  /\ LineageInv
  /\ \A id \in AttestationIds : holderBindings[id].active => BindingIsLive(id)

(* What stays whatever the commands do: who issued a record, whom it is bound
   to, what follows it, and that something answers for a slot. *)
Lasts ==
  /\ \A id \in AttestationIds :
       attestations[id].issuer # Zero => attestations'[id].issuer = attestations[id].issuer
  /\ \A id \in AttestationIds : holderBindings[id].active => holderBindings'[id] = holderBindings[id]
  /\ \A a, b \in AttestationIds : successorOf[a] = b => successorOf'[a] = b
  /\ \A slot \in Subjects \X Skills :
       activeSkillAttestation[slot] # Zero => activeSkillAttestation'[slot] # Zero

IssueTransactions == {"deploy", "fund", "delegate", "attest", "bind"}
UpgradeTransactions == {"supersede", "bind"}

(* A transaction that a command may have sent. *)
Asked(c, s) ==
  \/ c \in Issues /\ s \in IssueTransactions /\ argsOf[c] \in IssueArgs
  \/ /\ c \in Upgrades /\ s \in UpgradeTransactions /\ argsOf[c] \in UpgradeArgs
     /\ seen[c].id \in AttestationIds \cup {Zero}

BoundId(c) == IF c \in Issues THEN IssuedId(argsOf[c]) ELSE seen[c].id

(* What a transaction leaves in the registry when it succeeds. *)
Achieves(c, s) ==
  /\ s = "attest" =>
       /\ attestations'[IssuedId(argsOf[c])].issuer = Child
       /\ activeSkillAttestation'[<<argsOf[c].subject, argsOf[c].skill>>] # Zero
  /\ s = "supersede" =>
       IsActive(argsOf[c].predecessor) /\ successorOf'[argsOf[c].predecessor] = UpgradeId(argsOf[c])
  /\ s = "bind" =>
       /\ BoundId(c) \in AttestationIds
       /\ holderBindings'[BoundId(c)].active /\ holderBindings'[BoundId(c)].holder = argsOf[c].holder

LEMMA AccountsOfDemo ==
  /\ Root \in Addresses /\ Child \in Addresses /\ Child \in Delegates /\ Child # Zero /\ Root # Zero
BY AccountAssumption, ChildAssumption, ZeroAssumption

(* A fresh record takes nothing from the others. *)
LEMMA UnissuedHasNoIssuer ==
  ASSUME IndexInv, NEW id \in AttestationIds, ~IsIssued(id)
  PROVE  attestations[id].issuer = Zero
BY DEF IndexInv, UnissuedIsBlank, NoAttestation

LEMMA AttestLasts ==
  ASSUME RegistryInv, NEW args \in IssueArgs,
         Attest(Child, args.subject, args.skill, Program(args.skill, "v1"), args.evidence)
  PROVE  /\ Lasts
         /\ attestations'[IssuedId(args)].issuer = Child
         /\ activeSkillAttestation'[<<args.subject, args.skill>>] # Zero
         /\ UNCHANGED <<now, holderBindings>>
<1> DEFINE new == IssuedId(args)
<1>1. new \in AttestationIds /\ SlotOf(new) = <<args.subject, args.skill>> /\ SlotOf(new) \in Subjects \X Skills
  BY CommandIds
<1>2. /\ IndexInv /\ args.subject \in Subjects /\ args.skill \in Skills
      /\ Program(args.skill, "v1") \in Programs /\ args.evidence \in Evidence
  BY CommandIds DEF RegistryInv, LineageInv, IssueArgs
<1>3. /\ ~IsIssued(new) /\ attestations'[new].issuer = Child
      /\ \A id \in AttestationIds : id # new => attestations'[id] = attestations[id]
      /\ UNCHANGED <<now, linkVars>>
  BY <1>2, AttestEffect, AccountsOfDemo DEF IssuedId
<1>4. attestations[new].issuer = Zero
  BY <1>1, <1>2, <1>3, UnissuedHasNoIssuer
<1>5. activeSkillAttestation' = [activeSkillAttestation EXCEPT ![SlotOf(new)] = new] /\ UNCHANGED holderBindings
  BY DEF Attest, PointTo, IssuedId
<1>6. \A slot \in Subjects \X Skills :
        activeSkillAttestation'[slot] = IF slot = SlotOf(new) THEN new ELSE activeSkillAttestation[slot]
  BY <1>1, <1>2, <1>5 DEF IndexInv, TypeOK
<1>7. new # Zero
  BY <1>1, ZeroIsNoId
<1>8. QED
  BY <1>1, <1>3, <1>4, <1>5, <1>6, <1>7 DEF Lasts, linkVars

LEMMA SupersedeLasts ==
  ASSUME RegistryInv, NEW args \in UpgradeArgs,
         Supersede(Root, args.predecessor, Program(args.skill, "v2"), args.evidence)
  PROVE  /\ Lasts
         /\ IsActive(args.predecessor) /\ successorOf'[args.predecessor] = UpgradeId(args)
         /\ UNCHANGED <<now, holderBindings>>
<1> DEFINE new == UpgradeId(args)
           old == args.predecessor
<1>1. new \in AttestationIds /\ old \in AttestationIds /\ SlotOf(old) \in Subjects \X Skills
  BY CommandIds, IdParts DEF UpgradeArgs
<1>2. IndexInv /\ Program(args.skill, "v2") \in Programs /\ args.evidence \in Evidence
  BY CommandIds DEF RegistryInv, LineageInv, UpgradeArgs
<1>3. /\ IsActive(old) /\ ~IsIssued(new)
      /\ attestations'[old].issuer = attestations[old].issuer
      /\ \A id \in AttestationIds \ {old, new} : attestations'[id] = attestations[id]
      /\ \A id \in AttestationIds : successorOf'[id] = IF id = old THEN new ELSE successorOf[id]
  BY <1>1, <1>2, SupersedeEffect, AccountsOfDemo DEF UpgradeId
<1>4. attestations[new].issuer = Zero
  BY <1>1, <1>2, <1>3, UnissuedHasNoIssuer
<1>5. activeSkillAttestation' = [activeSkillAttestation EXCEPT ![SlotOf(old)] = new]
      /\ UNCHANGED <<now, holderBindings>>
  BY DEF Supersede, PointTo, UpgradeId
<1>6. \A slot \in Subjects \X Skills :
        activeSkillAttestation'[slot] = IF slot = SlotOf(old) THEN new ELSE activeSkillAttestation[slot]
  BY <1>1, <1>2, <1>5 DEF IndexInv, TypeOK
<1>7. new # Zero
  BY <1>1, ZeroIsNoId
<1>8. \A b \in AttestationIds : successorOf[old] # b
  BY <1>1, <1>3 DEF RegistryInv, LineageInv, LineageWellFormed
<1>9. QED
  BY <1>1, <1>3, <1>4, <1>5, <1>6, <1>7, <1>8 DEF Lasts

LEMMA BindLasts ==
  ASSUME RegistryInv, NEW sender, NEW id \in AttestationIds, NEW holder \in Holders \cup {Zero},
         BindHolder(sender, id, holder, Expiry)
  PROVE  /\ Lasts
         /\ holderBindings'[id].active /\ holderBindings'[id].holder = holder
         /\ \A other \in AttestationIds : holderBindings'[other].active => BindingIsLive(other)'
<1>1. TypeOK
  BY DEF RegistryInv, LineageInv, IndexInv
<1>2. holderBindings' = [holderBindings EXCEPT ![id] = [holder |-> holder, expiresAt |-> Expiry, active |-> TRUE]]
  BY DEF BindHolder
<1>3. \A other \in AttestationIds : holderBindings'[other] =
        IF other = id THEN [holder |-> holder, expiresAt |-> Expiry, active |-> TRUE] ELSE holderBindings[other]
  BY <1>1, <1>2 DEF TypeOK
<1>4. ~holderBindings[id].active /\ Expiry > now /\ UNCHANGED <<now, recordVars, linkVars>>
  BY DEF BindHolder, RegistryInv
<1>5. QED
  BY <1>3, <1>4 DEF Lasts, RegistryInv, BindingIsLive, recordVars, linkVars

LEMMA ExecuteLasts ==
  ASSUME RegistryInv, NEW c, NEW s, Asked(c, s), Execute(c, s)
  PROVE  [Next]_vars /\ RegistryInv' /\ Lasts /\ Achieves(c, s)
<1> DEFINE Goal == /\ [Next]_vars /\ Lasts /\ Achieves(c, s)
                   /\ \A id \in AttestationIds : holderBindings'[id].active => BindingIsLive(id)'
<1>1. ASSUME s \in {"deploy", "fund"}, UNCHANGED vars
      PROVE  Goal
  BY <1>1 DEF vars, recordVars, linkVars, RegistryInv, BindingIsLive, Lasts, Achieves
<1>2. ASSUME s = "delegate", argsOf[c] \in IssueArgs,
             DelegateIssuerFor(Root, Child, argsOf[c].subject, argsOf[c].skill, Program(argsOf[c].skill, "v1"), Expiry)
      PROVE  Goal
  <2>1. IssuerStep(Root)
    BY <1>2, CommandIds, AccountsOfDemo, ExpiryAssumption DEF IssuerStep, IssueArgs
  <2>2. UNCHANGED <<now, holderBindings, recordVars, linkVars>>
    BY <1>2 DEF DelegateIssuerFor
  <2>3. QED
    BY <1>2, <2>1, <2>2, AccountsOfDemo DEF Next, recordVars, linkVars, RegistryInv, BindingIsLive, Lasts, Achieves
<1>3. ASSUME s = "attest", argsOf[c] \in IssueArgs,
             Attest(Child, argsOf[c].subject, argsOf[c].skill, Program(argsOf[c].skill, "v1"), argsOf[c].evidence)
      PROVE  Goal
  <2>1. RecordStep(Child)
    BY <1>3, CommandIds DEF RecordStep, IssueArgs
  <2>2. /\ Lasts /\ UNCHANGED <<now, holderBindings>>
        /\ attestations'[IssuedId(argsOf[c])].issuer = Child
        /\ activeSkillAttestation'[<<argsOf[c].subject, argsOf[c].skill>>] # Zero
    BY <1>3, AttestLasts
  <2>3. QED
    BY <1>3, <2>1, <2>2, AccountsOfDemo DEF Next, RegistryInv, BindingIsLive, Achieves
<1>4. ASSUME s = "supersede", argsOf[c] \in UpgradeArgs,
             Supersede(Root, argsOf[c].predecessor, Program(argsOf[c].skill, "v2"), argsOf[c].evidence)
      PROVE  Goal
  <2>1. RecordStep(Root)
    BY <1>4, CommandIds DEF RecordStep, UpgradeArgs
  <2>2. /\ Lasts /\ UNCHANGED <<now, holderBindings>>
        /\ IsActive(argsOf[c].predecessor) /\ successorOf'[argsOf[c].predecessor] = UpgradeId(argsOf[c])
    BY <1>4, SupersedeLasts
  <2>3. QED
    BY <1>4, <2>1, <2>2, AccountsOfDemo DEF Next, RegistryInv, BindingIsLive, Achieves
<1>5. ASSUME s = "bind", BoundId(c) \in AttestationIds, argsOf[c].holder \in Holders \cup {Zero},
             BindHolder(Sender(c, s), BoundId(c), argsOf[c].holder, Expiry)
      PROVE  Goal
  <2>1. HolderStep(Sender(c, s)) /\ Sender(c, s) \in Addresses
    BY <1>5, AccountsOfDemo, ExpiryAssumption DEF HolderStep, Sender
  <2>2. /\ Lasts
        /\ holderBindings'[BoundId(c)].active /\ holderBindings'[BoundId(c)].holder = argsOf[c].holder
        /\ \A id \in AttestationIds : holderBindings'[id].active => BindingIsLive(id)'
    BY <1>5, BindLasts
  <2>3. QED
    BY <1>5, <2>1, <2>2 DEF Next, Achieves
<1>6. argsOf[c].holder \in Holders \cup {Zero} /\ (BoundId(c) # Zero => BoundId(c) \in AttestationIds)
  BY CommandIds, CommandAssumption DEF Asked, IssueArgs, UpgradeArgs, Args, BoundId
<1>7. Goal
  <2> HIDE DEF Goal
  <2>1. CASE s = "bind"
    BY <1>5, <1>6, <2>1 DEF Execute, BoundId
  <2>2. CASE s # "bind"
    BY <1>1, <1>2, <1>3, <1>4, <2>2 DEF Execute, Asked, IssueTransactions, UpgradeTransactions
  <2>3. QED
    BY <2>1, <2>2
<1>8. LineageInv'
  BY <1>7, LineageInductive DEF RegistryInv
<1>9. QED
  BY <1>7, <1>8 DEF RegistryInv

-----------------------------------------------------------------------------
(* Type correctness of the commands and the chain. *)

IssueStages == {"off", "done", "failed"} \cup IssueTransactions
UpgradeStages == {"off", "supersede", "successor", "bind", "current", "done", "failed"}
VerifyStages == {"off", "hasSkill", "currentId", "current", "done", "failed"}
StagesOf(c) == IF c \in Issues THEN IssueStages ELSE IF c \in Upgrades THEN UpgradeStages ELSE VerifyStages

Seen == [id : AttestationIds \cup {Zero}, hasSkill : BOOLEAN, current : BOOLEAN]

(* An upgrade binds its successor only after it has read which one it is. *)
HasRead == {"bind", "current", "done", "failed"}

SentBy(t) ==
  /\ t.by \in Commands /\ Asked(t.by, t.step) /\ stage[t.by] # "off"
  /\ t.by \in Upgrades /\ t.step = "bind" => stage[t.by] \in HasRead

CommandTypeOK(c) ==
  /\ stage[c] \in StagesOf(c) /\ seen[c] \in Seen
  /\ phase[c] # "prepare" => stage[c] \in Transactions
  /\ stage[c] # "off" => Wanted(c, argsOf[c])

Phases == {"prepare", "send", "wait", "cancelled"}
AllStages == {"off", "done", "failed"} \cup Running

DemoTypeOK ==
  /\ stage \in [Commands -> AllStages]
  /\ phase \in [Commands -> Phases]
  /\ argsOf \in [Commands -> Args]
  /\ seen \in [Commands -> Seen]
  /\ \A c \in Commands : CommandTypeOK(c)
  /\ \A t \in pool \cup receipts : SentBy(t)

(* The steps that a command takes itself. *)
CommandStep(c) ==
  \/ Step(c) \/ Fail(c) \/ Interrupt(c)
  \/ c \in Issues /\ \E subject \in Subjects, skill \in Skills, evidence \in FirstEvidence, holder \in Holders :
       StartIssue(c, subject, skill, evidence, holder)
  \/ c \in Upgrades /\ \E predecessor \in AttestationIds, skill \in Skills, evidence \in Evidence,
                         holder \in Holders \cup {Zero}, binds \in BOOLEAN :
       StartUpgrade(c, predecessor, skill, evidence, holder, binds)
  \/ c \in Verifiers /\ \E subject \in Subjects, skill \in Skills : StartVerify(c, subject, skill)

FirstStage(c) == IF c \in Issues THEN "deploy" ELSE IF c \in Upgrades THEN "supersede" ELSE "hasSkill"

(* What they do to the command. *)
Starts(c) ==
  /\ stage[c] = "off" /\ stage'[c] = FirstStage(c)
  /\ Wanted(c, argsOf'[c]) /\ seen'[c] = seen[c]
  /\ c \in Verifiers => RegistryIsKnown

GoesOn(c) ==
  /\ stage[c] \in Transactions /\ seen'[c] = seen[c]
  /\ stage'[c] = Following(c, stage[c])
  /\ \E r \in receipts : r.by = c /\ r.step = stage[c] /\ r.ok

LooksUp(c) ==
  \/ /\ stage[c] = "successor" /\ stage'[c] = IF argsOf[c].binds THEN "bind" ELSE "current"
     /\ seen'[c].id = successorOf[argsOf[c].predecessor]
  \/ /\ stage[c] = "hasSkill" /\ stage'[c] = "currentId"
     /\ seen'[c].hasSkill = HasSkill(argsOf[c].subject, argsOf[c].skill)
  \/ LET id == activeSkillAttestation[<<argsOf[c].subject, argsOf[c].skill>>] IN
     /\ stage[c] = "currentId" /\ stage'[c] = IF id = Zero THEN "done" ELSE "current"
     /\ seen'[c].id = id /\ seen'[c].hasSkill = seen[c].hasSkill
  \/ /\ stage[c] = "current" /\ stage'[c] = "done"
     /\ seen'[c].id = seen[c].id /\ seen'[c].hasSkill = seen[c].hasSkill

CommandMove(c) ==
  \/ Starts(c)
  \/ /\ argsOf'[c] = argsOf[c]
     /\ \/ stage'[c] = stage[c] /\ seen'[c] = seen[c]
        \/ stage[c] \in Running /\ stage'[c] = "failed" /\ seen'[c] = seen[c]
        \/ GoesOn(c)
        \/ LooksUp(c)

CommandEffect(c) ==
  /\ UNCHANGED <<vars, receipts>>
  /\ stage' \in [Commands -> AllStages] /\ phase' \in [Commands -> Phases]
  /\ argsOf' \in [Commands -> Args] /\ seen' \in [Commands -> Seen]
  /\ \A d \in Commands \ {c} :
       stage'[d] = stage[d] /\ phase'[d] = phase[d] /\ argsOf'[d] = argsOf[d] /\ seen'[d] = seen[d]
  /\ phase'[c] # "prepare" => stage'[c] = stage[c] /\ stage[c] \in Transactions
  /\ \/ pool' = pool
     \/ /\ stage[c] \in Transactions /\ stage'[c] = stage[c] /\ argsOf'[c] = argsOf[c] /\ seen'[c] = seen[c]
        /\ \E t : t.by = c /\ t.step = stage[c] /\ pool' = pool \cup {t}
  /\ CommandMove(c)

LEMMA GoEffect ==
  ASSUME DemoTypeOK, NEW c \in Commands, NEW next \in AllStages, Go(c, next)
  PROVE  /\ stage' \in [Commands -> AllStages] /\ phase' \in [Commands -> Phases]
         /\ stage'[c] = next /\ phase'[c] = "prepare"
         /\ \A d \in Commands \ {c} : stage'[d] = stage[d] /\ phase'[d] = phase[d]
BY DEF DemoTypeOK, Go, Phases

LEMMA StartEffect ==
  ASSUME DemoTypeOK, NEW c \in Commands, NEW args \in Args, Start(c, FirstStage(c), args),
         Wanted(c, args), c \in Verifiers => RegistryIsKnown
  PROVE  CommandEffect(c)
<1>1. FirstStage(c) \in AllStages
  BY DEF FirstStage, AllStages, Running, Transactions, Reads
<1>2. Go(c, FirstStage(c)) /\ stage[c] = "off" /\ UNCHANGED <<vars, seen, chainVars>>
  BY DEF Start
<1>3. /\ argsOf' \in [Commands -> Args] /\ argsOf'[c] = args
      /\ \A d \in Commands \ {c} : argsOf'[d] = argsOf[d]
  BY DEF Start, DemoTypeOK
<1>4. seen \in [Commands -> Seen]
  BY DEF DemoTypeOK
<1>5. QED
  BY <1>1, <1>2, <1>3, <1>4, GoEffect DEF CommandEffect, CommandMove, Starts, chainVars

(* A step that moves a command on and reads nothing. *)
LEMMA MoveEffect ==
  ASSUME DemoTypeOK, NEW c \in Commands, NEW next \in AllStages, Go(c, next),
         UNCHANGED <<vars, argsOf, seen, chainVars>>,
         (stage[c] \in Running /\ next = "failed") \/
         (/\ stage[c] \in Transactions /\ next = Following(c, stage[c])
          /\ \E r \in receipts : r.by = c /\ r.step = stage[c] /\ r.ok)
  PROVE  CommandEffect(c)
<1>1. argsOf \in [Commands -> Args] /\ seen \in [Commands -> Seen]
  BY DEF DemoTypeOK
<1>2. UNCHANGED <<vars, argsOf, seen, pool, receipts>>
  BY DEF chainVars
<1>3. CommandMove(c)
  BY <1>2, GoEffect DEF CommandMove, GoesOn
<1>4. QED
  BY <1>1, <1>2, <1>3, GoEffect DEF CommandEffect

LEMMA FollowingType ==
  ASSUME NEW c \in Commands, stage[c] \in StagesOf(c) \cap Transactions
  PROVE  Following(c, stage[c]) \in AllStages
BY DEF StagesOf, Following, IssueStages, UpgradeStages, VerifyStages, IssueTransactions,
       AllStages, Running, Transactions, Reads

LEMMA TransactEffect ==
  ASSUME DemoTypeOK, NEW c \in Commands, Prepare(c) \/ Send(c) \/ Receipt(c) \/ Timeout(c) \/ Fail(c) \/ Interrupt(c)
  PROVE  CommandEffect(c)
<1>1. /\ argsOf \in [Commands -> Args] /\ seen \in [Commands -> Seen]
      /\ stage \in [Commands -> AllStages] /\ phase \in [Commands -> Phases]
      /\ phase[c] # "prepare" => stage[c] \in Transactions
      /\ stage[c] \in StagesOf(c)
  BY DEF DemoTypeOK, CommandTypeOK
<1>2. "failed" \in AllStages /\ Transactions \subseteq Running
  BY DEF AllStages, Running
<1>3. CASE Fail(c) \/ Timeout(c)
  <2>1. Go(c, "failed") /\ UNCHANGED <<vars, argsOf, seen, chainVars>> /\ stage[c] \in Running
    BY <1>1, <1>2, <1>3 DEF Fail, Timeout
  <2>2. QED
    BY <1>2, <2>1, MoveEffect
<1>4. CASE Receipt(c)
  <2>1. stage[c] \in Transactions /\ UNCHANGED <<vars, argsOf, seen, chainVars>>
    BY <1>1, <1>4 DEF Receipt
  <2>2. PICK r \in receipts : /\ r.by = c /\ r.step = stage[c]
                              /\ IF r.ok THEN Go(c, Following(c, stage[c])) ELSE Go(c, "failed")
    BY <1>4 DEF Receipt, Succeeded
  <2>3. Following(c, stage[c]) \in AllStages
    BY <1>1, <2>1, FollowingType
  <2>4. QED
    BY <1>2, <2>1, <2>2, <2>3, MoveEffect
<1>5. ASSUME NEW next \in {"send", "wait", "cancelled"}, phase' = [phase EXCEPT ![c] = next], stage[c] \in Transactions,
             UNCHANGED <<vars, stage, argsOf, seen, receipts>>,
             pool' = pool \/ \E t : t.by = c /\ t.step = stage[c] /\ pool' = pool \cup {t}
      PROVE  CommandEffect(c)
  <2>1. /\ phase' \in [Commands -> Phases]
        /\ \A d \in Commands \ {c} : phase'[d] = phase[d]
    BY <1>1, <1>5 DEF Phases
  <2>2. CommandMove(c)
    BY <1>5 DEF CommandMove
  <2>3. QED
    BY <1>1, <1>5, <2>1, <2>2 DEF CommandEffect
<1>6. CASE Prepare(c)
  <2>1. stage[c] \in Transactions /\ UNCHANGED <<vars, argsOf, seen, chainVars>>
    BY <1>6 DEF Prepare
  <2>2. \/ phase' = [phase EXCEPT ![c] = "send"] /\ UNCHANGED stage
        \/ Go(c, "failed")
    BY <1>6 DEF Prepare
  <2>3. CASE phase' = [phase EXCEPT ![c] = "send"] /\ UNCHANGED stage
    BY <1>5, <2>1, <2>3 DEF chainVars
  <2>4. CASE Go(c, "failed")
    BY <1>2, <2>1, <2>4, MoveEffect
  <2>5. QED
    BY <2>2, <2>3, <2>4
<1>7. CASE Send(c)
  <2>1. stage[c] \in Transactions /\ UNCHANGED <<vars, argsOf, seen, receipts, nonces, silent>>
    BY <1>1, <1>7 DEF Send
  <2>2. CASE Go(c, "failed") /\ UNCHANGED pool
    BY <1>2, <2>1, <2>2, MoveEffect DEF chainVars
  <2>3. ASSUME NEW t, t = [by |-> c, step |-> stage[c], from |-> Sender(c, stage[c]), nonce |-> nonceOf[c]],
               pool' = pool \cup {t}, phase' = [phase EXCEPT ![c] = "wait"], UNCHANGED stage
        PROVE  CommandEffect(c)
    BY <1>5, <2>1, <2>3
  <2>4. QED
    BY <1>7, <2>2, <2>3 DEF Send
<1>8. CASE Interrupt(c)
  <2>1. stage[c] \in Transactions /\ UNCHANGED <<vars, stage, argsOf, seen, receipts, pool>>
    BY <1>1, <1>8 DEF Interrupt, chainVars
  <2>2. phase' = [phase EXCEPT ![c] = "cancelled"]
    BY <1>8 DEF Interrupt
  <2>3. QED
    BY <1>5, <2>1, <2>2
<1>9. QED
  BY <1>3, <1>4, <1>6, <1>7, <1>8

LEMMA LookEffect ==
  ASSUME TypeOK, DemoTypeOK, NEW c \in Commands,
         ReadSuccessor(c) \/ ReadHasSkill(c) \/ ReadCurrentId(c) \/ ReadCurrent(c)
  PROVE  CommandEffect(c)
<1>1. /\ argsOf \in [Commands -> Args] /\ seen \in [Commands -> Seen]
      /\ stage[c] \in StagesOf(c) /\ seen[c] \in Seen
      /\ stage[c] # "off" => Wanted(c, argsOf[c])
  BY DEF DemoTypeOK, CommandTypeOK
<1>2. ASSUME NEW found \in Seen, NEW next \in AllStages, Look(c, found, next),
             stage'[c] = next /\ seen'[c] = found => LooksUp(c)
      PROVE  CommandEffect(c)
  <2>1. Go(c, next) /\ UNCHANGED <<vars, argsOf, chainVars>>
    BY <1>2 DEF Look
  <2>2. seen' \in [Commands -> Seen] /\ seen'[c] = found /\ \A d \in Commands \ {c} : seen'[d] = seen[d]
    BY <1>1, <1>2 DEF Look
  <2>3. CommandMove(c)
    BY <1>2, <2>1, <2>2, GoEffect DEF CommandMove
  <2>4. QED
    BY <1>1, <2>1, <2>2, <2>3, GoEffect DEF CommandEffect, chainVars
<1>3. CASE ReadSuccessor(c)
  <2> DEFINE found == [seen[c] EXCEPT !.id = successorOf[argsOf[c].predecessor]]
             next == IF argsOf[c].binds THEN "bind" ELSE "current"
  <2>1. stage[c] = "successor" /\ Look(c, found, next)
    BY <1>3 DEF ReadSuccessor
  <2>2. argsOf[c].predecessor \in AttestationIds
    BY <1>1, <2>1 DEF Wanted, UpgradeArgs, StagesOf, IssueStages, IssueTransactions, VerifyStages
  <2>3. found \in Seen /\ found.id = successorOf[argsOf[c].predecessor]
    BY <1>1, <2>2 DEF TypeOK, Seen
  <2>4. next \in AllStages
    BY DEF AllStages, Running, Reads, Transactions
  <2>5. stage'[c] = next /\ seen'[c] = found => LooksUp(c)
    BY <2>1, <2>3 DEF LooksUp
  <2> HIDE DEF found, next
  <2>6. QED
    BY <1>2, <2>1, <2>3, <2>4, <2>5
<1>4. CASE ReadHasSkill(c)
  <2> DEFINE found == [seen[c] EXCEPT !.hasSkill = HasSkill(argsOf[c].subject, argsOf[c].skill)]
  <2>1. stage[c] = "hasSkill" /\ Look(c, found, "currentId")
    BY <1>4 DEF ReadHasSkill
  <2>2. HasSkill(argsOf[c].subject, argsOf[c].skill) \in BOOLEAN
    BY DEF HasSkill
  <2>3. found \in Seen /\ found.hasSkill = HasSkill(argsOf[c].subject, argsOf[c].skill)
    BY <1>1, <2>2 DEF Seen
  <2>4. "currentId" \in AllStages
    BY DEF AllStages, Running, Reads, Transactions
  <2>5. stage'[c] = "currentId" /\ seen'[c] = found => LooksUp(c)
    BY <2>1, <2>3 DEF LooksUp
  <2> HIDE DEF found
  <2>6. QED
    BY <1>2, <2>1, <2>3, <2>4, <2>5
<1>5. CASE ReadCurrentId(c)
  <2> DEFINE id == activeSkillAttestation[<<argsOf[c].subject, argsOf[c].skill>>]
             found == [seen[c] EXCEPT !.id = id]
             next == IF id = Zero THEN "done" ELSE "current"
  <2>1. stage[c] = "currentId" /\ Look(c, found, next)
    BY <1>5 DEF ReadCurrentId
  <2>2. id \in AttestationIds \cup {Zero}
    BY <1>1, <2>1 DEF Wanted, VerifyArgs, Commands, StagesOf, IssueStages, IssueTransactions, UpgradeStages, TypeOK
  <2>3. found \in Seen /\ found.id = id /\ found.hasSkill = seen[c].hasSkill
    BY <1>1, <2>2 DEF Seen
  <2>4. next \in AllStages
    BY DEF AllStages, Running, Reads, Transactions
  <2>5. stage'[c] = next /\ seen'[c] = found => LooksUp(c)
    BY <2>1, <2>3 DEF LooksUp
  <2> HIDE DEF found, next
  <2>6. QED
    BY <1>2, <2>1, <2>3, <2>4, <2>5
<1>6. CASE ReadCurrent(c)
  <2> DEFINE found == [seen[c] EXCEPT !.current = seen[c].id # Zero /\ IsCurrent(seen[c].id)]
  <2>1. stage[c] = "current" /\ Look(c, found, "done")
    BY <1>6 DEF ReadCurrent
  <2>2. found \in Seen /\ found.id = seen[c].id /\ found.hasSkill = seen[c].hasSkill
    BY <1>1 DEF Seen
  <2>3. "done" \in AllStages
    BY DEF AllStages
  <2>4. stage'[c] = "done" /\ seen'[c] = found => LooksUp(c)
    BY <2>1, <2>2 DEF LooksUp
  <2> HIDE DEF found
  <2>5. QED
    BY <1>2, <2>1, <2>2, <2>3, <2>4
<1>7. QED
  BY <1>3, <1>4, <1>5, <1>6

LEMMA CommandStepEffect ==
  ASSUME TypeOK, DemoTypeOK, NEW c \in Commands, CommandStep(c)
  PROVE  CommandEffect(c)
<1>1. ASSUME c \in Issues, NEW subject \in Subjects, NEW skill \in Skills, NEW evidence \in FirstEvidence,
             NEW holder \in Holders, StartIssue(c, subject, skill, evidence, holder)
      PROVE  CommandEffect(c)
  <2> DEFINE args == [subject |-> subject, skill |-> skill, evidence |-> evidence,
                      holder |-> holder, binds |-> TRUE, predecessor |-> Zero]
  <2>1. args \in Args /\ args \in IssueArgs
    BY EvidenceAssumption DEF Args, IssueArgs
  <2>2. Start(c, FirstStage(c), args)
    BY <1>1 DEF StartIssue, FirstStage
  <2>3. Wanted(c, args) /\ c \notin Verifiers
    BY <1>1, <2>1, CommandAssumption DEF Wanted
  <2> HIDE DEF args
  <2>4. QED
    BY <2>1, <2>2, <2>3, StartEffect
<1>2. ASSUME c \in Upgrades, NEW predecessor \in AttestationIds, NEW skill \in Skills, NEW evidence \in Evidence,
             NEW holder \in Holders \cup {Zero}, NEW binds \in BOOLEAN,
             StartUpgrade(c, predecessor, skill, evidence, holder, binds)
      PROVE  CommandEffect(c)
  <2> DEFINE args == [subject |-> Zero, skill |-> skill, evidence |-> evidence,
                      holder |-> holder, binds |-> binds, predecessor |-> predecessor]
  <2>1. args \in Args /\ args \in UpgradeArgs
    BY DEF Args, UpgradeArgs
  <2>2. Start(c, FirstStage(c), args)
    BY <1>2, CommandAssumption DEF StartUpgrade, FirstStage
  <2>3. Wanted(c, args) /\ c \notin Verifiers
    BY <1>2, <2>1, CommandAssumption DEF Wanted
  <2> HIDE DEF args
  <2>4. QED
    BY <2>1, <2>2, <2>3, StartEffect
<1>3. ASSUME c \in Verifiers, NEW subject \in Subjects, NEW skill \in Skills, StartVerify(c, subject, skill)
      PROVE  CommandEffect(c)
  <2> DEFINE args == [NoArgs EXCEPT !.subject = subject, !.skill = skill]
  <2>1. args \in Args /\ args \in VerifyArgs
    BY DEF Args, VerifyArgs, NoArgs
  <2>2. Start(c, FirstStage(c), args) /\ RegistryIsKnown
    BY <1>3, CommandAssumption DEF StartVerify, FirstStage
  <2>3. Wanted(c, args)
    BY <1>3, <2>1, CommandAssumption DEF Wanted
  <2> HIDE DEF args
  <2>4. QED
    BY <2>1, <2>2, <2>3, StartEffect
<1>4. QED
  BY <1>1, <1>2, <1>3, TransactEffect, LookEffect DEF CommandStep, Step

(* What a step of one command leaves of every command. *)
Settled ==
  \A d \in Commands : stage[d] # "off" =>
    /\ stage'[d] # "off" /\ argsOf'[d] = argsOf[d]
    /\ d \in Upgrades /\ stage[d] \in HasRead => stage'[d] \in HasRead /\ seen'[d].id = seen[d].id
    /\ stage[d] = "done" => stage'[d] = "done" /\ seen'[d] = seen[d]

LEMMA CommandsSettle ==
  ASSUME NEW c \in Commands, CommandEffect(c)
  PROVE  Settled
<1>1. ASSUME stage[c] # "off"
      PROVE  /\ stage'[c] # "off" /\ argsOf'[c] = argsOf[c]
             /\ c \in Upgrades /\ stage[c] \in HasRead => stage'[c] \in HasRead /\ seen'[c].id = seen[c].id
             /\ stage[c] = "done" => stage'[c] = "done" /\ seen'[c] = seen[c]
  <2>1. ~Starts(c)
    BY <1>1 DEF Starts
  <2>2. CASE GoesOn(c)
    BY <2>1, <2>2, CommandAssumption, <1>1 DEF CommandEffect, CommandMove, GoesOn, LooksUp, Transactions, Following, HasRead
  <2>3. CASE LooksUp(c)
    BY <2>1, <2>3, <1>1 DEF CommandEffect, CommandMove, LooksUp, GoesOn, Transactions, HasRead
  <2>4. CASE stage'[c] = stage[c] /\ seen'[c] = seen[c]
    BY <1>1, <2>1, <2>4 DEF CommandEffect, CommandMove, LooksUp, GoesOn
  <2>5. CASE stage[c] \in Running /\ stage'[c] = "failed" /\ seen'[c] = seen[c]
    BY <1>1, <2>1, <2>5 DEF CommandEffect, CommandMove, LooksUp, GoesOn, HasRead, Running, Transactions, Reads
  <2>6. QED
    BY <2>1, <2>2, <2>3, <2>4, <2>5 DEF CommandEffect, CommandMove
<1>2. QED
  BY <1>1 DEF CommandEffect, Settled

LEMMA CommandKeepsType ==
  ASSUME DemoTypeOK, NEW c \in Commands, CommandEffect(c)
  PROVE  DemoTypeOK'
<1>1. CommandTypeOK(c)'
  <2>1. CommandTypeOK(c) /\ CommandMove(c)
    BY DEF DemoTypeOK, CommandEffect
  <2>2. seen'[c] \in Seen /\ (phase'[c] # "prepare" => stage'[c] \in Transactions)
    BY DEF CommandEffect
  <2>3. stage'[c] # "off" => Wanted(c, argsOf'[c])
    BY <2>1 DEF CommandTypeOK, CommandMove, Starts, GoesOn, LooksUp, Running, Transactions, Reads
  <2>4. stage'[c] \in StagesOf(c)
    <3>1. CASE c \in Issues
      BY <2>1, <3>1 DEF CommandTypeOK, StagesOf, IssueStages, IssueTransactions, CommandMove, Starts, FirstStage,
            GoesOn, LooksUp, Following, Transactions
    <3>2. CASE c \notin Issues /\ c \in Upgrades
      BY <2>1, <3>2 DEF CommandTypeOK, StagesOf, UpgradeStages, CommandMove, Starts, FirstStage,
            GoesOn, LooksUp, Following, Transactions
    <3>3. CASE c \notin Issues /\ c \notin Upgrades
      BY <2>1, <3>3 DEF CommandTypeOK, StagesOf, VerifyStages, CommandMove, Starts, FirstStage,
            GoesOn, LooksUp, Following, Transactions
    <3>4. QED
      BY <3>1, <3>2, <3>3
  <2>5. QED
    BY <2>2, <2>3, <2>4 DEF CommandTypeOK, Wanted, IssueArgs, UpgradeArgs, VerifyArgs, StagesOf
<1>2. \A d \in Commands : CommandTypeOK(d)'
  BY <1>1 DEF CommandTypeOK, CommandEffect, DemoTypeOK
<1>3. ASSUME NEW t, SentBy(t)
      PROVE  SentBy(t)'
  BY <1>2, <1>3, CommandsSettle DEF Settled, SentBy, Asked, CommandTypeOK, Seen
<1>4. ASSUME NEW t, t.by = c, t.step = stage[c], stage[c] \in Transactions, stage'[c] = stage[c],
             argsOf'[c] = argsOf[c], seen'[c] = seen[c]
      PROVE  SentBy(t)'
  <2>1. CommandTypeOK(c) /\ c \in Commands
    BY DEF DemoTypeOK
  <2>2. stage[c] # "off" /\ Wanted(c, argsOf[c]) /\ stage[c] \in StagesOf(c)
    BY <1>4, <2>1 DEF CommandTypeOK, Transactions
  <2>3. Asked(c, stage[c])
    BY <1>4, <2>1, <2>2, CommandAssumption DEF CommandTypeOK, Seen, Asked, Wanted, StagesOf, Commands, IssueStages, UpgradeStages,
         VerifyStages, Transactions, IssueTransactions, UpgradeTransactions
  <2>4. QED
    BY <1>4, <2>2, <2>3 DEF SentBy, Asked, HasRead
<1>5. \A t \in pool' \cup receipts' : SentBy(t)'
  BY <1>3, <1>4 DEF CommandEffect, DemoTypeOK
<1>6. QED
  BY <1>2, <1>5 DEF DemoTypeOK, CommandEffect

-----------------------------------------------------------------------------
(* What the receipts and the stages of the commands stand for. *)

(* What a transaction has left in the registry is still there. *)
Delivered(r) ==
  LET args == argsOf[r.by] IN
  /\ r.step = "attest" =>
       attestations[IssuedId(args)].issuer = Child /\ activeSkillAttestation[<<args.subject, args.skill>>] # Zero
  /\ r.step = "supersede" => successorOf[args.predecessor] = UpgradeId(args)
  /\ r.step = "bind" => BoundId(r.by) \in AttestationIds /\ HolderIs(BoundId(r.by), args.holder)

ReceiptsHold == \A r \in receipts : r.ok => Delivered(r)

Has(c, s) == \E r \in receipts : r.by = c /\ r.step = s /\ r.ok

IssueProgress(c) ==
  /\ stage[c] \in {"bind", "done"} => Has(c, "attest")
  /\ stage[c] = "done" => Has(c, "bind")

UpgradeProgress(c) ==
  /\ stage[c] \in {"successor", "bind", "current", "done"} => Has(c, "supersede")
  /\ stage[c] \in {"bind", "current", "done"} => seen[c].id = UpgradeId(argsOf[c])
  /\ stage[c] \in {"current", "done"} /\ argsOf[c].binds => Has(c, "bind")

(* The issue whose learner and skill a verify asks for is done. *)
Certified(c) ==
  \E i \in Issues : stage[i] = "done" /\ argsOf[i].subject = argsOf[c].subject /\ argsOf[i].skill = argsOf[c].skill

VerifyProgress(c) ==
  /\ stage[c] # "off" => RegistryIsKnown
  /\ stage[c] \in {"currentId", "current", "done"} /\ Certified(c) => seen[c].hasSkill
  /\ stage[c] \in {"current", "done"} /\ Certified(c) =>
       seen[c].id # Zero /\ SlotOf(seen[c].id) = <<argsOf[c].subject, argsOf[c].skill>>

Progress ==
  /\ \A c \in Issues : IssueProgress(c)
  /\ \A c \in Upgrades : UpgradeProgress(c)
  /\ \A c \in Verifiers : VerifyProgress(c)

DemoInv == RegistryInv /\ DemoTypeOK /\ ReceiptsHold /\ RetryUpgradesOnce /\ Progress

LEMMA CommandKeepsReceipts ==
  ASSUME DemoTypeOK, ReceiptsHold, RetryUpgradesOnce, NEW c \in Commands, CommandEffect(c)
  PROVE  ReceiptsHold' /\ RetryUpgradesOnce'
<1>1. receipts' = receipts /\ UNCHANGED vars
  BY DEF CommandEffect
<1>2. ASSUME NEW r \in receipts
      PROVE  /\ argsOf'[r.by] = argsOf[r.by]
             /\ r.step = "bind" => BoundId(r.by)' = BoundId(r.by)
  BY CommandsSettle, CommandAssumption DEF Settled, DemoTypeOK, SentBy, Asked, BoundId
<1>3. ASSUME NEW r \in receipts, Delivered(r)
      PROVE  Delivered(r)'
  BY <1>1, <1>2, <1>3 DEF Delivered, HolderIs, vars, recordVars, linkVars
<1>4. ReceiptsHold'
  BY <1>1, <1>3 DEF ReceiptsHold
<1>5. RetryUpgradesOnce'
  BY <1>1, <1>2 DEF RetryUpgradesOnce
<1>6. QED
  BY <1>4, <1>5

(* The one issue that a verify may depend on is over before it starts. *)
LEMMA CertifiedBefore ==
  ASSUME DemoTypeOK, Settled, NEW c \in Verifiers, stage[c] # "off", RegistryIsKnown
  PROVE  RegistryIsKnown' /\ (Certified(c)' => Certified(c))
<1>1. c \in Commands /\ argsOf'[c] = argsOf[c] /\ Issues \subseteq Commands
  BY DEF Settled, Commands
<1>2. PICK i \in Issues : stage[i] = "done"
  BY DEF RegistryIsKnown
<1>3. stage'[i] = "done" /\ argsOf'[i] = argsOf[i]
  BY <1>1, <1>2 DEF Settled
<1>4. \A j \in Issues : j = i
  BY <1>2, OneRegistry
<1>5. QED
  BY <1>1, <1>2, <1>3, <1>4 DEF RegistryIsKnown, Certified

(* What a verify reads while the learner's skill is certified. *)
LEMMA CertifiedIsIndexed ==
  ASSUME DemoInv, NEW c \in Verifiers, stage[c] # "off", Certified(c)
  PROVE  LET slot == <<argsOf[c].subject, argsOf[c].skill>>
             id == activeSkillAttestation[slot] IN
         /\ HasSkill(argsOf[c].subject, argsOf[c].skill)
         /\ id # Zero /\ SlotOf(id) = slot
<1> DEFINE slot == <<argsOf[c].subject, argsOf[c].skill>>
           id == activeSkillAttestation[slot]
<1>1. PICK i \in Issues : /\ stage[i] = "done"
                          /\ argsOf[i].subject = argsOf[c].subject /\ argsOf[i].skill = argsOf[c].skill
  BY DEF Certified
<1>2. Has(i, "attest")
  BY <1>1 DEF DemoInv, Progress, IssueProgress
<1>3. id # Zero
  BY <1>1, <1>2 DEF DemoInv, ReceiptsHold, Has, Delivered
<1>4. slot \in Subjects \X Skills
  <2>1. c \in Commands
    BY DEF Commands
  <2>2. Wanted(c, argsOf[c])
    BY <2>1 DEF DemoInv, DemoTypeOK, CommandTypeOK
  <2>3. QED
    BY <2>2 DEF Wanted, VerifyArgs
<1>5. IndexInv
  BY DEF DemoInv, RegistryInv, LineageInv
<1>6. id \in AttestationIds /\ SlotOf(id) = slot
  BY <1>3, <1>4, <1>5 DEF IndexInv, TypeOK, PointsHome
<1>7. IsActive(id)
  BY <1>5, <1>6 DEF IndexInv, IndexAgreesWithRecords
<1>8. QED
  BY <1>3, <1>6, <1>7 DEF HasSkill

LEMMA CommandKeepsProgress ==
  ASSUME DemoInv, NEW c \in Commands, CommandEffect(c)
  PROVE  Progress'
<1>1. /\ Settled /\ receipts' = receipts /\ CommandMove(c) /\ CommandTypeOK(c) /\ UNCHANGED vars
      /\ \A d \in Commands \ {c} : stage'[d] = stage[d] /\ argsOf'[d] = argsOf[d] /\ seen'[d] = seen[d]
  BY CommandsSettle DEF CommandEffect, DemoInv, DemoTypeOK
<1>2. /\ Issues \subseteq Commands /\ Upgrades \subseteq Commands /\ Verifiers \subseteq Commands
      /\ ~(c \in Issues /\ c \in Upgrades) /\ ~(c \in Verifiers /\ c \in Issues) /\ ~(c \in Verifiers /\ c \in Upgrades)
  BY CommandAssumption DEF Commands
<1>3. \A d, s : Has(d, s)' = Has(d, s)
  BY <1>1 DEF Has
<1>4. ASSUME NEW d \in Issues PROVE IssueProgress(d)'
  <2>1. IssueProgress(d)
    BY DEF DemoInv, Progress
  <2>2. CASE d # c
    BY <1>1, <1>2, <1>3, <2>1, <2>2 DEF IssueProgress
  <2>3. CASE d = c
    <3>1. CASE GoesOn(c)
      BY <1>2, <1>3, <2>1, <2>3, <3>1 DEF IssueProgress, GoesOn, Following, Transactions, Has
    <3>2. CASE ~GoesOn(c)
      BY <1>1, <1>2, <1>3, <2>1, <2>3, <3>2
      DEF IssueProgress, CommandMove, Starts, FirstStage, LooksUp, CommandTypeOK, StagesOf, IssueStages, IssueTransactions
    <3>3. QED
      BY <3>1, <3>2
  <2>4. QED
    BY <2>2, <2>3
<1>5. ASSUME NEW d \in Upgrades PROVE UpgradeProgress(d)'
  <2>1. UpgradeProgress(d)
    BY DEF DemoInv, Progress
  <2>2. CASE d # c
    BY <1>1, <1>2, <1>3, <2>1, <2>2 DEF UpgradeProgress
  <2>3. CASE d = c
    <3>1. CASE GoesOn(c)
      <4>1. argsOf'[c] = argsOf[c] /\ stage[c] \in {"supersede", "bind"}
        BY <1>1, <1>2, <2>3, <3>1 DEF GoesOn, CommandTypeOK, StagesOf, UpgradeStages, Transactions, Settled
      <4>2. QED
        BY <1>2, <1>3, <2>1, <2>3, <3>1, <4>1 DEF UpgradeProgress, GoesOn, Following, Transactions, Has
    <3>2. CASE stage[c] = "successor" /\ LooksUp(c)
      <4>1. PICK r \in receipts : r.by = c /\ r.step = "supersede" /\ r.ok
        BY <2>1, <2>3, <3>2 DEF UpgradeProgress, Has
      <4>2. successorOf[argsOf[c].predecessor] = UpgradeId(argsOf[c])
        BY <4>1 DEF DemoInv, ReceiptsHold, Delivered
      <4>3. argsOf'[c] = argsOf[c]
        BY <1>1, <3>2 DEF Settled
      <4>4. seen'[c].id = UpgradeId(argsOf[c])
        BY <3>2, <4>2 DEF LooksUp
      <4>5. UpgradeId(argsOf[c])' = UpgradeId(argsOf[c])
        BY <4>3 DEF UpgradeId, SubjectOf, SkillOf, Program, DeriveAttestationId
      <4>6. QED
        BY <1>3, <2>1, <2>3, <3>2, <4>3, <4>4, <4>5 DEF UpgradeProgress, LooksUp
    <3>3. CASE stage[c] = "current" /\ LooksUp(c)
      <4>1. argsOf'[c] = argsOf[c] /\ stage'[c] = "done" /\ seen'[c].id = seen[c].id
        BY <1>1, <3>3 DEF LooksUp, Settled
      <4>2. QED
        BY <1>3, <2>1, <2>3, <3>3, <4>1 DEF UpgradeProgress, UpgradeId
    <3>4. CASE ~GoesOn(c) /\ ~LooksUp(c)
      BY <1>1, <1>2, <1>3, <2>1, <2>3, <3>4
      DEF UpgradeProgress, CommandMove, Starts, FirstStage
    <3>5. stage[c] \in UpgradeStages
      BY <1>1, <1>2, <2>3 DEF CommandTypeOK, StagesOf
    <3>6. QED
      BY <3>1, <3>2, <3>3, <3>4, <3>5 DEF UpgradeStages, LooksUp
  <2>4. QED
    BY <2>2, <2>3
<1>6. ASSUME NEW d \in Verifiers PROVE VerifyProgress(d)'
  <2>1. VerifyProgress(d) /\ DemoTypeOK
    BY DEF DemoInv, Progress
  <2>2. CASE d # c /\ stage[d] = "off"
    BY <1>1, <1>2, <2>2 DEF VerifyProgress
  <2>3. CASE stage[d] # "off"
    <3>1. RegistryIsKnown' /\ (Certified(d)' => Certified(d)) /\ argsOf'[d] = argsOf[d]
      BY <1>1, <1>2, <2>1, <2>3, CertifiedBefore DEF VerifyProgress, Settled
    <3>2. CASE d # c
      BY <1>1, <1>2, <2>1, <3>1, <3>2 DEF VerifyProgress
    <3>3. CASE d = c /\ ~LooksUp(c)
      BY <1>1, <1>2, <2>1, <2>3, <3>1, <3>3
      DEF VerifyProgress, CommandMove, Starts, GoesOn, CommandTypeOK, StagesOf, VerifyStages, Transactions
    <3>4. CASE d = c /\ LooksUp(c)
      <4>1. stage[c] \in VerifyStages
        BY <1>1, <1>2, <3>4 DEF CommandTypeOK, StagesOf
      <4>2. ASSUME Certified(c)
            PROVE  LET slot == <<argsOf[c].subject, argsOf[c].skill>>
                       id == activeSkillAttestation[slot] IN
                   HasSkill(argsOf[c].subject, argsOf[c].skill) /\ id # Zero /\ SlotOf(id) = slot
        BY <2>3, <3>4, <4>2, CertifiedIsIndexed
      <4>3. CASE stage[c] = "hasSkill"
        BY <2>1, <3>1, <3>4, <4>2, <4>3 DEF VerifyProgress, LooksUp
      <4>4. CASE stage[c] = "currentId"
        BY <2>1, <3>1, <3>4, <4>2, <4>4 DEF VerifyProgress, LooksUp
      <4>5. CASE stage[c] = "current"
        BY <2>1, <3>1, <3>4, <4>5 DEF VerifyProgress, LooksUp
      <4>6. QED
        BY <3>4, <4>1, <4>3, <4>4, <4>5 DEF LooksUp, VerifyStages
    <3>5. QED
      BY <3>2, <3>3, <3>4
  <2>4. CASE d = c /\ stage[d] = "off"
    <3>1. CASE Starts(c)
      <4>1. RegistryIsKnown'
        <5>1. PICK i \in Issues : stage[i] = "done"
          BY <2>4, <3>1 DEF Starts, RegistryIsKnown
        <5>2. stage'[i] = "done"
          BY <1>1, <1>2, <5>1 DEF Settled
        <5>3. QED
          BY <5>1, <5>2 DEF RegistryIsKnown
      <4>2. stage'[c] = "hasSkill"
        BY <1>2, <2>4, <3>1 DEF Starts, FirstStage
      <4>3. QED
        BY <2>4, <4>1, <4>2 DEF VerifyProgress
    <3>2. CASE ~Starts(c)
      <4>1. stage'[c] = "off"
        BY <1>1, <2>4, <3>2 DEF CommandMove, GoesOn, LooksUp, Running, Transactions, Reads
      <4>2. QED
        BY <2>4, <4>1 DEF VerifyProgress
    <3>3. QED
      BY <3>1, <3>2
  <2>5. QED
    BY <2>2, <2>3, <2>4
<1>7. QED
  BY <1>4, <1>5, <1>6 DEF Progress

-----------------------------------------------------------------------------
(* A transaction is mined. *)

Outcome(t, ok) == [by |-> t.by, step |-> t.step, ok |-> ok]

LEMMA MineEffect ==
  ASSUME DemoInv, NEW t \in pool, Mine(t)
  PROVE  /\ [Next]_vars /\ RegistryInv' /\ Lasts
         /\ UNCHANGED commandVars /\ pool' \subseteq pool /\ SentBy(t)
         /\ \/ receipts' = receipts \cup {Outcome(t, TRUE)} /\ Achieves(t.by, t.step)
            \/ receipts' = receipts \cup {Outcome(t, FALSE)}
<1>1. SentBy(t) /\ RegistryInv /\ Asked(t.by, t.step)
  BY DEF DemoInv, DemoTypeOK, SentBy
<1>2. UNCHANGED commandVars /\ pool' \subseteq pool
  BY DEF Mine
<1>3. CASE Execute(t.by, t.step) /\ receipts' = receipts \cup {Outcome(t, TRUE)}
  BY <1>1, <1>2, <1>3, ExecuteLasts
<1>4. CASE UNCHANGED vars /\ receipts' = receipts \cup {Outcome(t, FALSE)}
  <2>1. Lasts
    BY <1>4 DEF Lasts, vars, recordVars, linkVars
  <2>2. LineageInv'
    BY <1>1, <1>4, LineageInductive DEF RegistryInv
  <2>3. RegistryInv'
    BY <1>1, <1>4, <2>2 DEF RegistryInv, BindingIsLive, vars
  <2>4. QED
    BY <1>1, <1>2, <1>4, <2>1, <2>3
<1>5. QED
  BY <1>3, <1>4 DEF Mine, Outcome

LEMMA MineKeepsType ==
  ASSUME DemoInv, NEW t \in pool, Mine(t)
  PROVE  DemoTypeOK'
<1>1. DemoTypeOK /\ UNCHANGED <<stage, phase, argsOf, seen>> /\ pool' \subseteq pool /\ SentBy(t)
  BY MineEffect DEF DemoInv, commandVars
<1>2. receipts' \subseteq receipts \cup {Outcome(t, TRUE), Outcome(t, FALSE)}
  BY MineEffect
<1>3. \A c \in Commands : CommandTypeOK(c)'
  BY <1>1 DEF DemoTypeOK, CommandTypeOK
<1>4. SentBy(Outcome(t, TRUE)) /\ SentBy(Outcome(t, FALSE))
  BY <1>1 DEF SentBy, Outcome
<1>5. ASSUME NEW u, SentBy(u)
      PROVE  SentBy(u)'
  BY <1>1, <1>5 DEF SentBy, Asked
<1>6. \A u \in pool' \cup receipts' : SentBy(u)'
  BY <1>1, <1>2, <1>4, <1>5 DEF DemoTypeOK
<1>7. QED
  BY <1>1, <1>3, <1>6 DEF DemoTypeOK

(* What a receipt stands for stays in the registry. *)
LEMMA DeliveredLasts ==
  ASSUME DemoInv, Lasts, UNCHANGED commandVars, NEW r \in receipts, Delivered(r)
  PROVE  Delivered(r)'
<1> DEFINE args == argsOf[r.by]
<1>1. Asked(r.by, r.step) /\ argsOf' = argsOf /\ seen' = seen
  BY DEF DemoInv, DemoTypeOK, SentBy, commandVars
<1>2. CASE r.step = "attest"
  <2>1. args \in IssueArgs
    BY <1>1, <1>2 DEF Asked, UpgradeTransactions
  <2>2. IssuedId(args) \in AttestationIds /\ <<args.subject, args.skill>> \in Subjects \X Skills
    BY <2>1, CommandIds
  <2>3. QED
    BY <1>1, <1>2, <2>2, AccountsOfDemo DEF Delivered, Lasts
<1>3. CASE r.step = "supersede"
  <2>1. args \in UpgradeArgs
    BY <1>1, <1>3 DEF Asked, IssueTransactions
  <2>2. args.predecessor \in AttestationIds /\ UpgradeId(args) \in AttestationIds
    BY <2>1, CommandIds DEF UpgradeArgs
  <2>3. UpgradeId(args)' = UpgradeId(args)
    BY <1>1 DEF UpgradeId
  <2>4. QED
    BY <1>1, <1>3, <2>2, <2>3 DEF Delivered, Lasts
<1>4. CASE r.step = "bind"
  <2>1. BoundId(r.by)' = BoundId(r.by)
    BY <1>1 DEF BoundId
  <2>2. QED
    BY <1>1, <1>4, <2>1 DEF Delivered, Lasts, HolderIs
<1>5. CASE r.step \notin {"attest", "supersede", "bind"}
  BY <1>5 DEF Delivered
<1>6. QED
  BY <1>2, <1>3, <1>4, <1>5

LEMMA AchievesDelivered ==
  ASSUME UNCHANGED commandVars, NEW t, Achieves(t.by, t.step)
  PROVE  Delivered(Outcome(t, TRUE))'
<1>1. argsOf' = argsOf /\ seen' = seen
  BY DEF commandVars
<1>2. BoundId(t.by)' = BoundId(t.by) /\ UpgradeId(argsOf[t.by])' = UpgradeId(argsOf[t.by])
  BY <1>1 DEF BoundId, UpgradeId
<1>3. QED
  BY <1>1, <1>2 DEF Delivered, Achieves, Outcome, HolderIs

LEMMA MineKeepsReceipts ==
  ASSUME DemoInv, NEW t \in pool, Mine(t)
  PROVE  ReceiptsHold' /\ RetryUpgradesOnce'
<1>1. Lasts /\ UNCHANGED commandVars /\ SentBy(t)
  BY MineEffect
<1>2. \/ receipts' = receipts \cup {Outcome(t, TRUE)} /\ Achieves(t.by, t.step)
      \/ receipts' = receipts \cup {Outcome(t, FALSE)}
  BY MineEffect
<1>3. ASSUME NEW r \in receipts, r.ok PROVE Delivered(r)'
  BY <1>1, <1>3, DeliveredLasts DEF DemoInv, ReceiptsHold
<1>4. Achieves(t.by, t.step) => Delivered(Outcome(t, TRUE))'
  BY <1>1, AchievesDelivered
<1>5. ReceiptsHold'
  <2>1. ASSUME NEW r \in receipts', r.ok PROVE Delivered(r)'
    <3>1. CASE r \in receipts
      BY <1>3, <2>1, <3>1
    <3>2. CASE r = Outcome(t, TRUE) /\ Achieves(t.by, t.step)
      BY <1>4, <2>1, <3>2
    <3>3. CASE r = Outcome(t, FALSE)
      BY <2>1, <3>3 DEF Outcome
    <3>4. QED
      BY <1>2, <3>1, <3>2, <3>3
  <2>2. QED
    BY <2>1 DEF ReceiptsHold
(* A record that has a successor is no longer active, and only an active one
   is superseded. *)
<1>6. ASSUME Achieves(t.by, t.step), t.step = "supersede", NEW r \in receipts, r.ok, r.step = "supersede"
      PROVE  argsOf[r.by].predecessor # argsOf[t.by].predecessor
  <2>1. argsOf[r.by] \in UpgradeArgs
    BY <1>6 DEF DemoInv, DemoTypeOK, SentBy, Asked, IssueTransactions
  <2>2. argsOf[r.by].predecessor \in AttestationIds /\ UpgradeId(argsOf[r.by]) \in AttestationIds
    BY <2>1, CommandIds DEF UpgradeArgs
  <2>3. successorOf[argsOf[r.by].predecessor] = UpgradeId(argsOf[r.by])
    BY <1>6 DEF DemoInv, ReceiptsHold, Delivered
  <2>4. ~IsActive(argsOf[r.by].predecessor)
    BY <2>2, <2>3 DEF DemoInv, RegistryInv, LineageInv, LineageWellFormed
  <2>5. IsActive(argsOf[t.by].predecessor)
    BY <1>6 DEF Achieves
  <2>6. QED
    BY <2>4, <2>5
<1>7. RetryUpgradesOnce'
  BY <1>1, <1>2, <1>6 DEF DemoInv, RetryUpgradesOnce, Outcome, commandVars
<1>8. QED
  BY <1>5, <1>7

LEMMA MineKeepsProgress ==
  ASSUME DemoInv, NEW t \in pool, Mine(t)
  PROVE  Progress'
<1>1. stage' = stage /\ argsOf' = argsOf /\ seen' = seen /\ receipts \subseteq receipts'
  BY MineEffect DEF commandVars
<1>2. \A c, s : Has(c, s) => Has(c, s)'
  BY <1>1 DEF Has
<1>3. \A c \in Issues : IssueProgress(c)'
  BY <1>1, <1>2 DEF DemoInv, Progress, IssueProgress
<1>4. \A c : UpgradeId(argsOf[c])' = UpgradeId(argsOf[c])
  BY <1>1 DEF UpgradeId
<1>5. \A c \in Upgrades : UpgradeProgress(c)'
  BY <1>1, <1>2, <1>4 DEF DemoInv, Progress, UpgradeProgress
<1>6. \A c \in Verifiers : VerifyProgress(c)'
  BY <1>1 DEF DemoInv, Progress, VerifyProgress, RegistryIsKnown, Certified
<1>7. QED
  BY <1>3, <1>5, <1>6 DEF Progress

-----------------------------------------------------------------------------
LEMMA DemoInitial == DemoInit => DemoInv
<1> SUFFICES ASSUME DemoInit PROVE DemoInv
  OBVIOUS
<1>1. LineageInv
  BY LineageInit DEF DemoInit
<1>2. RegistryInv
  BY <1>1 DEF RegistryInv, DemoInit, Init, NoBinding
<1>3. DemoTypeOK
  <2>1. NoArgs \in Args /\ Nothing \in Seen /\ "off" \in AllStages
    BY DEF NoArgs, Args, Nothing, Seen, AllStages
  <2>2. \A c \in Commands : "off" \in StagesOf(c)
    BY DEF StagesOf, IssueStages, UpgradeStages, VerifyStages
  <2>3. \A c \in Commands : CommandTypeOK(c)
    BY <2>1, <2>2 DEF DemoInit, CommandTypeOK
  <2>4. QED
    BY <2>1, <2>3 DEF DemoInit, DemoTypeOK, Phases
<1>4. Progress
  BY DEF DemoInit, Progress, IssueProgress, UpgradeProgress, VerifyProgress, Commands
<1>5. ReceiptsHold /\ RetryUpgradesOnce
  BY DEF DemoInit, ReceiptsHold, RetryUpgradesOnce
<1>6. QED
  BY <1>2, <1>3, <1>4, <1>5 DEF DemoInv

(* Nothing changes, or nothing but that the node falls silent. *)
Quiet == UNCHANGED <<vars, commandVars, pool, receipts, nonces>>

LEMMA DemoSteps ==
  ASSUME [DemoNext]_demoVars
  PROVE  (\E c \in Commands : CommandStep(c)) \/ (\E t \in pool : Mine(t)) \/ Quiet
<1>1. Issues \subseteq Commands /\ Upgrades \subseteq Commands /\ Verifiers \subseteq Commands
  BY DEF Commands
<1>2. QED
  BY <1>1 DEF DemoNext, CommandStep, FallSilent, Quiet, demoVars, chainVars

LEMMA DemoInductive == DemoInv /\ [DemoNext]_demoVars => DemoInv' /\ [Next]_vars
<1> SUFFICES ASSUME DemoInv, [DemoNext]_demoVars PROVE DemoInv' /\ [Next]_vars
  OBVIOUS
<1>1. ASSUME NEW c \in Commands, CommandStep(c)
      PROVE  DemoInv' /\ [Next]_vars
  <2>1. TypeOK /\ DemoTypeOK /\ RegistryInv /\ ReceiptsHold /\ RetryUpgradesOnce
    BY DEF DemoInv, RegistryInv, LineageInv, IndexInv
  <2>2. CommandEffect(c)
    BY <1>1, <2>1, CommandStepEffect
  <2>3. UNCHANGED vars
    BY <2>2 DEF CommandEffect
  <2>4. LineageInv'
    BY <2>1, <2>3, LineageInductive DEF RegistryInv
  <2>5. RegistryInv'
    BY <2>1, <2>3, <2>4 DEF RegistryInv, BindingIsLive, vars
  <2>6. QED
    BY <2>1, <2>2, <2>3, <2>5, CommandKeepsType, CommandKeepsReceipts, CommandKeepsProgress DEF DemoInv
<1>2. ASSUME NEW t \in pool, Mine(t)
      PROVE  DemoInv' /\ [Next]_vars
  BY <1>2, MineEffect, MineKeepsType, MineKeepsReceipts, MineKeepsProgress DEF DemoInv
<1>3. CASE Quiet
  <2>1. UNCHANGED vars /\ UNCHANGED <<stage, phase, argsOf, seen, pool, receipts>>
    BY <1>3 DEF Quiet, commandVars
  <2>2. LineageInv'
    BY <2>1, LineageInductive DEF DemoInv, RegistryInv
  <2>3. RegistryInv'
    BY <2>1, <2>2 DEF DemoInv, RegistryInv, BindingIsLive, vars
  <2>4. DemoTypeOK'
    BY <2>1 DEF DemoInv, DemoTypeOK, CommandTypeOK, SentBy, Asked
  <2>5. ReceiptsHold' /\ RetryUpgradesOnce'
    BY <2>1 DEF DemoInv, ReceiptsHold, RetryUpgradesOnce, Delivered, UpgradeId, BoundId, HolderIs, vars, recordVars, linkVars
  <2>6. Progress'
    BY <2>1 DEF DemoInv, Progress, IssueProgress, UpgradeProgress, VerifyProgress, Has, Certified, RegistryIsKnown, UpgradeId
  <2>7. QED
    BY <2>1, <2>3, <2>4, <2>5, <2>6 DEF DemoInv
<1>4. QED
  BY <1>1, <1>2, <1>3, DemoSteps

LEMMA DemoInvariant == DemoSpec => []DemoInv
BY DemoInitial, DemoInductive, PTL DEF DemoSpec

(* To the registry the commands are senders like any other: whatever is mined,
   reverts or is given up, each step is one of its own or none
   (transactWithSigner). *)
THEOREM CommandsBehave == DemoSpec => Spec
<1>1. DemoInit => Init
  BY DEF DemoInit
<1>2. QED
  BY <1>1, DemoInductive, DemoInvariant, PTL DEF DemoSpec, Spec

(* So neither retries nor transactions that are mined late disturb its index,
   its lineage, its issuance or the ledger it implements. *)
THEOREM RegistryUndisturbed ==
  DemoSpec => /\ []IndexAgreesWithRecords /\ []LineageWellFormed
              /\ ConfinedIssuance /\ ImplementsLedger
BY CommandsBehave, IndexAgreement, LineageAgreement, IssuanceConfined, Refinement, PTL

(* Nor do they bring back what was retired, rewrite a record, or make anyone
   a holder who was not appointed. *)
THEOREM NothingIsTakenBack ==
  DemoSpec => /\ Ledger!RetiredForGood /\ HistoryIsImmutable
              /\ AuthorityIsGiven /\ []NobodyIsConfirmed
BY CommandsBehave, RetiredStays, History, AuthorityStarts, NobodyHolds, PTL

(* What issue prints is in the registry: the record of the child it delegated
   and the holder that was asked for (issueOnHardhat). *)
THEOREM IssueIsTrue == DemoSpec => []IssueReportsWhatHolds
<1>1. ASSUME DemoInv, NEW c \in Issues, stage[c] = "done"
      PROVE  /\ attestations[IssuedId(argsOf[c])].issuer = Child
             /\ HolderIs(IssuedId(argsOf[c]), argsOf[c].holder)
  <2>1. Has(c, "attest") /\ Has(c, "bind")
    BY <1>1 DEF DemoInv, Progress, IssueProgress
  <2>2. PICK a \in receipts : a.by = c /\ a.step = "attest" /\ a.ok
    BY <2>1 DEF Has
  <2>3. PICK b \in receipts : b.by = c /\ b.step = "bind" /\ b.ok
    BY <2>1 DEF Has
  <2>4. Delivered(a) /\ Delivered(b)
    BY <1>1, <2>2, <2>3 DEF DemoInv, ReceiptsHold
  <2>5. QED
    BY <2>2, <2>3, <2>4 DEF Delivered, BoundId
<1>2. DemoInv => IssueReportsWhatHolds
  BY <1>1 DEF IssueReportsWhatHolds
<1>3. QED
  BY <1>2, DemoInvariant, PTL

(* What upgrade prints is its own doing: the successor it asked for, after the
   predecessor it named, with the holder it was given, however many upgrades
   compete (upgradeOnHardhat). *)
THEOREM UpgradeIsItsOwn == DemoSpec => []UpgradeReportsItsOwn
<1>1. ASSUME DemoInv, NEW c \in Upgrades, stage[c] = "done"
      PROVE  /\ seen[c].id = UpgradeId(argsOf[c]) /\ successorOf[argsOf[c].predecessor] = seen[c].id
             /\ argsOf[c].binds => HolderIs(seen[c].id, argsOf[c].holder)
  <2>1. UpgradeProgress(c) /\ c \notin Issues
    BY CommandAssumption, <1>1 DEF DemoInv, Progress
  <2>2. PICK r \in receipts : r.by = c /\ r.step = "supersede" /\ r.ok
    BY <1>1, <2>1 DEF UpgradeProgress, Has
  <2>3. successorOf[argsOf[c].predecessor] = UpgradeId(argsOf[c])
    BY <1>1, <2>2 DEF DemoInv, ReceiptsHold, Delivered
  <2>4. ASSUME argsOf[c].binds
        PROVE  HolderIs(seen[c].id, argsOf[c].holder)
    <3>1. PICK b \in receipts : b.by = c /\ b.step = "bind" /\ b.ok
      BY <1>1, <2>1, <2>4 DEF UpgradeProgress, Has
    <3>2. QED
      BY <1>1, <2>1, <3>1 DEF DemoInv, ReceiptsHold, Delivered, BoundId
  <2>5. QED
    BY <1>1, <2>1, <2>3, <2>4 DEF UpgradeProgress
<1>2. DemoInv => UpgradeReportsItsOwn
  BY <1>1 DEF UpgradeReportsItsOwn, UpgradeId
<1>3. QED
  BY <1>2, DemoInvariant, PTL

(* Of all upgrades of one predecessor one succeeds at most, whatever was mined
   after its sender had given up (waitReceipt). *)
THEOREM UpgradesOnce == DemoSpec => []RetryUpgradesOnce
<1>1. DemoInv => RetryUpgradesOnce
  BY DEF DemoInv
<1>2. QED
  BY <1>1, DemoInvariant, PTL

(* A verify finds the skill and an attestation for it although its three reads
   see three states and upgrades run in between (verifyOnHardhat). *)
THEOREM SkillInView == DemoSpec => []SkillStaysInView
<1>1. ASSUME DemoInv, NEW c \in Verifiers, NEW i \in Issues, stage[c] = "done", stage[i] = "done",
             argsOf[c].subject = argsOf[i].subject, argsOf[c].skill = argsOf[i].skill
      PROVE  seen[c].hasSkill /\ seen[c].id # Zero /\ SlotOf(seen[c].id) = <<argsOf[c].subject, argsOf[c].skill>>
  <2>1. Certified(c)
    BY <1>1 DEF Certified
  <2>2. VerifyProgress(c)
    BY <1>1 DEF DemoInv, Progress
  <2>3. QED
    BY <1>1, <2>1, <2>2 DEF VerifyProgress
<1>2. DemoInv => SkillStaysInView
  BY <1>1 DEF SkillStaysInView
<1>3. QED
  BY <1>2, DemoInvariant, PTL

-----------------------------------------------------------------------------
(* Commands advance. *)

(* What is ahead of a command: the stages it can still come to, and the parts
   of the transaction it is at. *)
Round(s) ==
  CASE s = "off" -> 7
    [] s = "deploy" -> 6
    [] s = "fund" -> 5
    [] s \in {"delegate", "supersede"} -> 4
    [] s \in {"attest", "successor", "hasSkill"} -> 3
    [] s \in {"bind", "currentId"} -> 2
    [] s = "current" -> 1
    [] OTHER -> 0
Rest(p) == CASE p = "prepare" -> 3 [] p = "send" -> 2 [] p = "wait" -> 1 [] OTHER -> 0
Remaining(c) == 4 * Round(stage[c]) + Rest(phase[c])

Forward(c) == (stage'[c] = stage[c] /\ phase'[c] = phase[c]) \/ Remaining(c)' < Remaining(c)
(* A step of whatever kind moves a command forward or not at all. *)
OnlyForward == [][\A c \in Commands : Forward(c)]_demoVars

LEMMA RoundsAndRests ==
  /\ \A s : Round(s) \in 0..7
  /\ \A p : Rest(p) \in 0..3
  /\ Rest("prepare") = 3 /\ Rest("send") = 2 /\ Rest("wait") = 1 /\ Rest("cancelled") = 0
BY DEF Round, Rest

(* To another stage a command goes forward. *)
LEMMA MoveIsForward ==
  ASSUME DemoTypeOK, NEW c \in Commands, CommandEffect(c), stage'[c] # stage[c]
  PROVE  Round(stage'[c]) < Round(stage[c])
<1>1. CommandMove(c) /\ stage[c] \in StagesOf(c)
  BY DEF CommandEffect, DemoTypeOK, CommandTypeOK
<1>2. CASE Starts(c)
  BY <1>2 DEF Starts, FirstStage, Round
<1>3. CASE stage[c] \in Running /\ stage'[c] = "failed"
  BY <1>3 DEF Running, Transactions, Reads, Round
<1>4. CASE GoesOn(c)
  BY <1>4 DEF GoesOn, Transactions, Following, Round
<1>5. CASE LooksUp(c)
  BY <1>5 DEF LooksUp, Round
<1>6. QED
  BY <1>1, <1>2, <1>3, <1>4, <1>5 DEF CommandMove

(* At its stage it only goes from the preparation of the transaction to
   sending it, on to waiting for it and to waiting without a context. *)
LEMMA PhaseIsForward ==
  ASSUME DemoTypeOK, NEW c \in Commands, CommandStep(c), stage'[c] = stage[c]
  PROVE  \/ phase'[c] = phase[c]
         \/ phase[c] = "prepare" /\ phase'[c] = "send"
         \/ phase[c] = "send" /\ phase'[c] = "wait"
         \/ phase[c] = "wait" /\ phase'[c] = "cancelled"
<1>1. /\ stage \in [Commands -> AllStages] /\ phase \in [Commands -> Phases]
      /\ phase[c] # "prepare" => stage[c] \in Transactions
  BY DEF DemoTypeOK, CommandTypeOK
<1>2. \A next : Go(c, next) => next = stage[c]
  BY <1>1 DEF Go
<1>3. ~Fail(c) /\ ~Timeout(c) /\ ~Receipt(c)
  BY <1>1, <1>2 DEF Fail, Timeout, Receipt, Following, Running, Transactions, Reads
<1>4. ~ReadSuccessor(c) /\ ~ReadHasSkill(c) /\ ~ReadCurrentId(c) /\ ~ReadCurrent(c)
  BY <1>2 DEF ReadSuccessor, ReadHasSkill, ReadCurrentId, ReadCurrent, Look
<1>5. \A args : ~Start(c, "deploy", args) /\ ~Start(c, "supersede", args) /\ ~Start(c, "hasSkill", args)
  BY <1>2 DEF Start
<1>6. Prepare(c) \/ Send(c) \/ Interrupt(c)
  BY <1>3, <1>4, <1>5 DEF CommandStep, Step, StartIssue, StartUpgrade, StartVerify
<1>7. CASE Interrupt(c)
  BY <1>1, <1>7 DEF Interrupt
<1>8. CASE Prepare(c) \/ Send(c)
  <2>1. ~Go(c, "failed")
    BY <1>1, <1>2, <1>8 DEF Prepare, Send, Transactions
  <2>2. QED
    BY <1>1, <1>8, <2>1 DEF Prepare, Send
<1>9. QED
  BY <1>6, <1>7, <1>8

LEMMA StepIsForward ==
  ASSUME TypeOK, DemoTypeOK, NEW c \in Commands, CommandStep(c)
  PROVE  \A d \in Commands : Forward(d)
<1>1. CommandEffect(c)
  BY CommandStepEffect
<1>2. ASSUME stage'[c] = stage[c] PROVE Forward(c)
  BY <1>2, PhaseIsForward, RoundsAndRests DEF Forward, Remaining
<1>3. ASSUME stage'[c] # stage[c] PROVE Forward(c)
  <2>1. phase'[c] = "prepare" /\ Round(stage'[c]) < Round(stage[c])
    BY <1>1, <1>3, MoveIsForward DEF CommandEffect
  <2>2. /\ Round(stage[c]) \in 0..7 /\ Round(stage'[c]) \in 0..7
        /\ Rest(phase[c]) \in 0..3 /\ Rest(phase'[c]) \in 0..3
    BY RoundsAndRests
  <2>3. QED
    BY <2>1, <2>2 DEF Forward, Remaining
<1>4. Forward(c)
  BY <1>2, <1>3
<1>5. QED
  BY <1>1, <1>4 DEF CommandEffect, Forward

(* A command never comes back to a stage or repeats a call: every step of its
   own brings it nearer to its end, so that none takes more than 28 of them. *)
THEOREM CommandsAdvance == DemoSpec => OnlyForward
<1>1. ASSUME DemoInv, [DemoNext]_demoVars PROVE \A c \in Commands : Forward(c)
  <2>1. TypeOK /\ DemoTypeOK
    BY <1>1 DEF DemoInv, RegistryInv, LineageInv, IndexInv
  <2>2. ASSUME UNCHANGED commandVars
        PROVE  \A c \in Commands : Forward(c)
    BY <2>2 DEF commandVars, Forward
  <2>3. ASSUME NEW t \in pool, Mine(t)
        PROVE  UNCHANGED commandVars
    BY <2>3 DEF Mine
  <2>4. QED
    BY <1>1, <2>1, <2>2, <2>3, StepIsForward, DemoSteps DEF Quiet
<1>2. DemoInv /\ [DemoNext]_demoVars => [\A c \in Commands : Forward(c)]_demoVars
  BY <1>1
<1>3. QED
  BY <1>2, DemoInvariant, PTL DEF DemoSpec, OnlyForward

-----------------------------------------------------------------------------
(* Each transaction is sent once and has one outcome. *)

(* Of each call of a command there is one receipt at most. *)
OneOutcome == \A r, s \in receipts : r.by = s.by /\ r.step = s.step => r = s

(* Who has sent a transaction is past sending it. *)
OnceInv ==
  /\ OneOutcome
  /\ \A t \in pool \cup receipts : Remaining(t.by) <= 4 * Round(t.step) + 1
  /\ \A t, u \in pool : t.by = u.by /\ t.step = u.step => t = u
  /\ \A t \in pool, r \in receipts : t.by = r.by => t.step # r.step

(* Only Send adds to the pool, and goes on to wait. *)
Sends(c, t) ==
  /\ phase[c] = "send" /\ phase'[c] = "wait" /\ stage' = stage
  /\ ~NonceIsTaken(Sender(c, stage[c]), nonceOf[c])
  /\ t = [by |-> c, step |-> stage[c], from |-> Sender(c, stage[c]), nonce |-> nonceOf[c]]
  /\ pool' = pool \cup {t}

LEMMA OnlySendSends ==
  ASSUME DemoTypeOK, NEW c \in Commands, CommandStep(c)
  PROVE  pool' = pool \/ \E t : Sends(c, t)
<1>1. phase \in [Commands -> Phases]
  BY DEF DemoTypeOK
<1>2. CASE Send(c)
  BY <1>1, <1>2 DEF Send, Sends
<1>3. ASSUME ~Send(c) PROVE pool' = pool
  BY <1>3 DEF CommandStep, Step, Fail, Interrupt, StartIssue, StartUpgrade, StartVerify, Start, Prepare, Receipt, Timeout,
              ReadSuccessor, ReadHasSkill, ReadCurrentId, ReadCurrent, Look, chainVars
<1>4. QED
  BY <1>2, <1>3

LEMMA CommandKeepsOnce ==
  ASSUME TypeOK, DemoTypeOK, OnceInv, NEW c \in Commands, CommandStep(c)
  PROVE  OnceInv'
<1>1. receipts' = receipts
  BY CommandStepEffect DEF CommandEffect
<1>2. ASSUME NEW t \in pool \cup receipts
      PROVE  Remaining(t.by)' <= 4 * Round(t.step) + 1
  <2>1. t.by \in Commands /\ Remaining(t.by) <= 4 * Round(t.step) + 1
    BY DEF DemoTypeOK, SentBy, OnceInv
  <2>2. Forward(t.by)
    BY <2>1, StepIsForward
  <2>3. Remaining(t.by) \in Nat /\ Remaining(t.by)' \in Nat /\ Round(t.step) \in 0..7
    BY RoundsAndRests DEF Remaining
  <2>4. Remaining(t.by)' = Remaining(t.by) \/ Remaining(t.by)' < Remaining(t.by)
    BY <2>2 DEF Forward, Remaining
  <2>5. QED
    BY <2>1, <2>3, <2>4
<1>3. CASE pool' = pool
  BY <1>1, <1>2, <1>3 DEF OnceInv, OneOutcome
<1>4. ASSUME NEW t, Sends(c, t)
      PROVE  OnceInv'
  <2>1. t.by = c /\ t.step = stage[c] /\ pool' = pool \cup {t}
    BY <1>4 DEF Sends
  <2>2. Remaining(c) = 4 * Round(t.step) + 2 /\ Remaining(c)' = 4 * Round(t.step) + 1 /\ Round(t.step) \in 0..7
    BY <1>4, RoundsAndRests DEF Sends, Remaining
  <2>3. \A u \in pool \cup receipts : u.by = c => u.step # t.step
    BY <2>2 DEF OnceInv
  <2>4. \A u \in pool' \cup receipts' : Remaining(u.by)' <= 4 * Round(u.step) + 1
    BY <1>1, <1>2, <2>1, <2>2
  <2>5. QED
    BY <1>1, <2>1, <2>3, <2>4 DEF OnceInv, OneOutcome
<1>5. QED
  BY <1>3, <1>4, OnlySendSends

LEMMA MineKeepsOnce ==
  ASSUME OnceInv, NEW t \in pool, Mine(t)
  PROVE  OnceInv'
<1>1. stage' = stage /\ phase' = phase /\ pool' = pool \ {t}
  BY DEF Mine, commandVars
<1>2. PICK ok \in BOOLEAN : receipts' = receipts \cup {Outcome(t, ok)}
  BY DEF Mine, Outcome
<1>3. Outcome(t, ok).by = t.by /\ Outcome(t, ok).step = t.step
  BY DEF Outcome
<1>4. \A u \in pool' \cup receipts' : Remaining(u.by)' <= 4 * Round(u.step) + 1
  BY <1>1, <1>2, <1>3 DEF OnceInv, Remaining
<1>5. QED
  BY <1>1, <1>2, <1>3, <1>4 DEF OnceInv, OneOutcome

LEMMA OnceInvariant == DemoSpec => []OnceInv
<1>1. DemoInit => OnceInv
  BY DEF DemoInit, OnceInv, OneOutcome
<1>2. ASSUME DemoInv, OnceInv, [DemoNext]_demoVars PROVE OnceInv'
  <2>1. TypeOK /\ DemoTypeOK
    BY <1>2 DEF DemoInv, RegistryInv, LineageInv, IndexInv
  <2>2. CASE Quiet
    BY <1>2, <2>2 DEF Quiet, commandVars, OnceInv, OneOutcome, Remaining
  <2>3. QED
    BY <1>2, <2>1, <2>2, CommandKeepsOnce, MineKeepsOnce, DemoSteps
<1>3. QED
  BY <1>1, <1>2, DemoInvariant, PTL DEF DemoSpec

(* No command sends a transaction twice, and of each at most one outcome is
   ever recorded: the receipt that waitReceipt finds is the only one. *)
THEOREM OutcomesAreFinal == DemoSpec => []OneOutcome
<1>1. OnceInv => OneOutcome
  BY DEF OnceInv
<1>2. QED
  BY <1>1, OnceInvariant, PTL

-----------------------------------------------------------------------------
(* Nonces. *)

Queue(a) == {t \in pool : t.from = a}
Unused(a) == nonces[a] + Cardinality(Queue(a))

(* What was sent from an account and not mined has the nonces up to the first
   unused one, each of them once; and no command holds a nonce beyond it. *)
NonceInv ==
  /\ IsFiniteSet(pool)
  /\ nonces \in [{Root, Child} -> Nat] /\ nonceOf \in [Commands -> Nat]
  /\ \A t \in pool : t.from \in {Root, Child} /\ t.nonce \in nonces[t.from]..(Unused(t.from) - 1)
  /\ \A t, u \in pool : t.from = u.from /\ t.nonce = u.nonce => t = u
  /\ \A a \in {Root, Child} : \A n \in nonces[a]..(Unused(a) - 1) : \E t \in pool : t.from = a /\ t.nonce = n
  /\ \A c \in Commands : phase[c] = "send" => nonceOf[c] <= Unused(Sender(c, stage[c]))

LEMMA SenderAccount == \A c, s : Sender(c, s) \in {Root, Child}
BY DEF Sender

LEMMA UnusedType ==
  ASSUME NonceInv, NEW a \in {Root, Child}
  PROVE  IsFiniteSet(Queue(a)) /\ Cardinality(Queue(a)) \in Nat /\ nonces[a] \in Nat /\ Unused(a) \in Nat
<1>1. IsFiniteSet(Queue(a))
  BY FS_Subset DEF NonceInv, Queue
<1>2. QED
  BY <1>1, FS_CardinalityType DEF NonceInv, Unused

(* It sends the first unused nonce: a later one it does not hold, and the
   others are refused. *)
LEMMA SendKeepsNonces ==
  ASSUME NonceInv, DemoTypeOK, NEW c \in Commands, NEW t, Sends(c, t),
         UNCHANGED nonces, nonceOf' \in [Commands -> Nat],
         \A d \in Commands \ {c} : phase'[d] = phase[d] /\ nonceOf'[d] = nonceOf[d]
  PROVE  NonceInv'
<1> DEFINE from == Sender(c, stage[c])
<1>1. from \in {Root, Child} /\ t.from = from /\ t.nonce = nonceOf[c] /\ pool' = pool \cup {t}
  BY SenderAccount DEF Sends
<1>2. Unused(from) \in Nat /\ nonces[from] \in Nat /\ nonceOf[c] \in Nat
  BY <1>1, UnusedType DEF NonceInv
<1>3. t.nonce = Unused(from)
  <2>1. nonceOf[c] <= Unused(from) /\ nonces[from] <= nonceOf[c]
    BY <1>2 DEF Sends, NonceIsTaken, NonceInv
  <2>2. nonceOf[c] \notin nonces[from]..(Unused(from) - 1)
    BY <1>1 DEF Sends, NonceIsTaken, NonceInv
  <2>3. QED
    BY <1>1, <1>2, <2>1, <2>2
<1>4. t \notin pool
  BY <1>1, <1>2, <1>3 DEF NonceInv
<1>5. \A a \in {Root, Child} : Unused(a)' = IF a = from THEN Unused(a) + 1 ELSE Unused(a)
  <2> SUFFICES ASSUME NEW a \in {Root, Child}
               PROVE  Unused(a)' = IF a = from THEN Unused(a) + 1 ELSE Unused(a)
    OBVIOUS
  <2>1. CASE a = from
    <3>1. Queue(a)' = Queue(a) \cup {t} /\ t \notin Queue(a)
      BY <1>1, <1>4, <2>1 DEF Queue
    <3>2. Cardinality(Queue(a)') = Cardinality(Queue(a)) + 1
      BY <3>1, UnusedType, FS_AddElement
    <3>3. QED
      BY <2>1, <3>2, UnusedType DEF Unused
  <2>2. CASE a # from
    <3>1. Queue(a)' = Queue(a)
      BY <1>1, <2>2 DEF Queue
    <3>2. QED
      BY <2>2, <3>1 DEF Unused
  <2>3. QED
    BY <2>1, <2>2
<1>6. IsFiniteSet(pool')
  BY <1>1, FS_AddElement DEF NonceInv
<1>7. \A a \in {Root, Child} : Unused(a) \in Nat /\ nonces[a] \in Nat
  BY UnusedType
<1>8. \A u \in pool' : u.from \in {Root, Child} /\ u.nonce \in nonces'[u.from]..(Unused(u.from)' - 1)
  BY <1>1, <1>2, <1>3, <1>5, <1>7 DEF NonceInv, Sends, NonceIsTaken
<1>9. \A u, v \in pool' : u.from = v.from /\ u.nonce = v.nonce => u = v
  BY <1>1, <1>3, <1>7 DEF NonceInv
<1>10. ASSUME NEW a \in {Root, Child}, NEW n \in nonces'[a]..(Unused(a)' - 1)
       PROVE  \E u \in pool' : u.from = a /\ u.nonce = n
  <2>1. CASE a = from /\ n = Unused(a)
    BY <1>1, <1>3, <2>1
  <2>2. CASE ~(a = from /\ n = Unused(a))
    <3>1. n \in nonces[a]..(Unused(a) - 1)
      BY <1>5, <1>7, <1>10, <2>2
    <3>2. QED
      BY <1>1, <3>1 DEF NonceInv
  <2>3. QED
    BY <2>1, <2>2
<1>11. ASSUME NEW d \in Commands, phase'[d] = "send"
       PROVE  nonceOf'[d] <= Unused(Sender(d, stage[d]))'
  <2>1. d # c /\ phase[d] = "send" /\ nonceOf'[d] = nonceOf[d] /\ nonceOf[d] \in Nat
    BY <1>11 DEF Sends, NonceInv
  <2>2. nonceOf[d] <= Unused(Sender(d, stage[d])) /\ Sender(d, stage[d]) \in {Root, Child}
    BY <2>1, SenderAccount DEF NonceInv
  <2>3. Unused(Sender(d, stage[d])) \in Nat /\ Sender(d, stage[d])' = Sender(d, stage[d])
    BY <1>7, <2>2 DEF Sends, Sender
  <2>4. QED
    BY <1>5, <2>1, <2>2, <2>3
<1>12. stage' = stage
  BY DEF Sends
<1>13. \A d : Sender(d, stage[d])' = Sender(d, stage[d])
  BY <1>12 DEF Sender
<1>14. QED
  BY <1>6, <1>8, <1>9, <1>10, <1>11, <1>13 DEF NonceInv

LEMMA GoNonce ==
  ASSUME DemoTypeOK, NonceInv, NEW c \in Commands, NEW next, Go(c, next)
  PROVE  /\ nonceOf' \in [Commands -> Nat] /\ phase'[c] = "prepare"
         /\ \A d \in Commands \ {c} : nonceOf'[d] = nonceOf[d]
BY DEF Go, NonceInv, DemoTypeOK

(* The nonce a command is about to send is the first unused one when it reads
   it. *)
LEMMA StepNonce ==
  ASSUME DemoTypeOK, NonceInv, NEW c \in Commands, CommandStep(c)
  PROVE  /\ nonces' = nonces /\ nonceOf' \in [Commands -> Nat]
         /\ \A d \in Commands \ {c} : nonceOf'[d] = nonceOf[d]
         /\ phase'[c] = "send" => stage' = stage /\ nonceOf'[c] = Unused(Sender(c, stage[c]))
<1>1. CASE \E next : Go(c, next) /\ nonces' = nonces
  BY <1>1, GoNonce
<1>2. CASE Prepare(c) /\ ~Go(c, "failed")
  <2> DEFINE from == Sender(c, stage[c])
  <2>1. /\ nonceOf' = [nonceOf EXCEPT ![c] = Unused(from)]
        /\ stage' = stage /\ nonces' = nonces
    BY <1>2 DEF Prepare, Unused, Queue, chainVars
  <2>2. Unused(from) \in Nat
    BY SenderAccount, UnusedType
  <2>3. QED
    BY <2>1, <2>2 DEF NonceInv
<1>3. CASE Send(c) /\ ~Go(c, "failed")
  <2>1. /\ nonceOf' = [nonceOf EXCEPT ![c] = 0] /\ phase' = [phase EXCEPT ![c] = "wait"]
        /\ nonces' = nonces
    BY <1>3 DEF Send
  <2>2. QED
    BY <2>1 DEF NonceInv, DemoTypeOK
<1>4. (Prepare(c) \/ Send(c) \/ Receipt(c) \/ Timeout(c) \/ Fail(c) \/ Interrupt(c)) => nonces' = nonces
  BY DEF Prepare, Send, Receipt, Timeout, Fail, Interrupt, chainVars
<1>5. ASSUME Receipt(c) \/ Timeout(c) \/ Fail(c)
      PROVE  \E next : Go(c, next)
  BY <1>5 DEF Receipt, Timeout, Fail
<1>6. ASSUME NEW first, NEW args, Start(c, first, args)
      PROVE  \E next : Go(c, next) /\ nonces' = nonces
  BY <1>6 DEF Start, chainVars
<1>7. ASSUME NEW found, NEW next, Look(c, found, next)
      PROVE  Go(c, next) /\ nonces' = nonces
  BY <1>7 DEF Look, chainVars
<1>8. CASE ReadSuccessor(c) \/ ReadHasSkill(c) \/ ReadCurrentId(c) \/ ReadCurrent(c)
  BY <1>1, <1>7, <1>8 DEF ReadSuccessor, ReadHasSkill, ReadCurrentId, ReadCurrent
<1>9. CASE Interrupt(c)
  <2>1. nonceOf' = nonceOf /\ phase' = [phase EXCEPT ![c] = "cancelled"]
    BY <1>9 DEF Interrupt
  <2>2. QED
    BY <1>4, <1>9, <2>1 DEF NonceInv, DemoTypeOK
<1>10. QED
  BY <1>1, <1>2, <1>3, <1>4, <1>5, <1>6, <1>8, <1>9 DEF CommandStep, Step, StartIssue, StartUpgrade, StartVerify

LEMMA CommandKeepsNonces ==
  ASSUME TypeOK, DemoTypeOK, NonceInv, NEW c \in Commands, CommandStep(c)
  PROVE  NonceInv'
<1>1. /\ nonces' = nonces /\ nonceOf' \in [Commands -> Nat]
      /\ \A d \in Commands \ {c} :
           stage'[d] = stage[d] /\ phase'[d] = phase[d] /\ nonceOf'[d] = nonceOf[d]
  BY StepNonce, CommandStepEffect DEF CommandEffect
<1>2. ASSUME NEW t, Sends(c, t) PROVE NonceInv'
  BY <1>1, <1>2, SendKeepsNonces
<1>3. ASSUME pool' = pool PROVE NonceInv'
  <2>1. \A a : Queue(a)' = Queue(a) /\ Unused(a)' = Unused(a)
    BY <1>1, <1>3 DEF Queue, Unused
  <2>2. ASSUME NEW d \in Commands, phase'[d] = "send"
        PROVE  nonceOf'[d] <= Unused(Sender(d, stage[d]))'
    <3>1. stage'[d] = stage[d] /\ nonceOf'[d] \in Nat
      BY <1>1, <2>2, StepNonce
    <3>2. nonceOf'[d] <= Unused(Sender(d, stage[d]))
      <4>1. CASE d = c
        BY <2>2, <4>1, StepNonce, SenderAccount, UnusedType
      <4>2. CASE d # c
        BY <1>1, <2>2, <4>2 DEF NonceInv
      <4>3. QED
        BY <4>1, <4>2
    <3>3. PICK a \in {Root, Child} : a = Sender(d, stage[d])
      BY SenderAccount
    <3>4. Sender(d, stage[d])' = a
      BY <3>1, <3>3 DEF Sender
    <3>5. Unused(Sender(d, stage[d]))' = Unused(a)'
      BY <3>4 DEF Unused, Queue
    <3>6. QED
      BY <2>1, <3>2, <3>3, <3>5
  <2>3. QED
    BY <1>1, <1>3, <2>1, <2>2 DEF NonceInv
<1>4. QED
  BY <1>2, <1>3, OnlySendSends

(* What is mined is the first of its account, so that the others still follow
   one another. *)
LEMMA MineKeepsNonces ==
  ASSUME NonceInv, NEW t \in pool, Mine(t)
  PROVE  NonceInv'
<1> DEFINE from == t.from
<1>1. /\ t.nonce = nonces[from] /\ pool' = pool \ {t} /\ UNCHANGED <<stage, phase, nonceOf>>
      /\ from \in {Root, Child} /\ nonces' = [nonces EXCEPT ![from] = @ + 1]
  BY DEF Mine, commandVars, NonceInv
<1>2. \A a \in {Root, Child} : Unused(a) \in Nat /\ nonces[a] \in Nat
  BY UnusedType
<1>3. \A a \in {Root, Child} : nonces'[a] = IF a = from THEN nonces[a] + 1 ELSE nonces[a]
  BY <1>1 DEF NonceInv
<1>4. nonces' \in [{Root, Child} -> Nat] /\ IsFiniteSet(pool')
  BY <1>1, <1>2, FS_Subset DEF NonceInv
<1>5. ASSUME NEW a \in {Root, Child} PROVE Unused(a)' = Unused(a)
  <2>1. CASE a = from
    <3>1. Queue(a)' = Queue(a) \ {t} /\ t \in Queue(a)
      BY <1>1, <2>1 DEF Queue
    <3>2. Cardinality(Queue(a)') = Cardinality(Queue(a)) - 1
      BY <3>1, UnusedType, FS_RemoveElement
    <3>3. QED
      BY <1>3, <2>1, <3>2, UnusedType DEF Unused
  <2>2. CASE a # from
    <3>1. Queue(a)' = Queue(a)
      BY <1>1, <2>2 DEF Queue
    <3>2. QED
      BY <1>3, <2>2, <3>1 DEF Unused
  <2>3. QED
    BY <2>1, <2>2
<1>6. \A u \in pool' : u.from \in {Root, Child} /\ u.nonce \in nonces'[u.from]..(Unused(u.from)' - 1)
  <2> SUFFICES ASSUME NEW u \in pool, u # t
               PROVE  u.from \in {Root, Child} /\ u.nonce \in nonces'[u.from]..(Unused(u.from)' - 1)
    BY <1>1
  <2>1. u.from \in {Root, Child} /\ u.nonce \in nonces[u.from]..(Unused(u.from) - 1)
    BY DEF NonceInv
  <2>2. u.from = from => u.nonce # nonces[from]
    BY <1>1 DEF NonceInv
  <2>3. QED
    BY <1>2, <1>3, <1>5, <2>1, <2>2
<1>7. ASSUME NEW a \in {Root, Child}, NEW n \in nonces'[a]..(Unused(a)' - 1)
      PROVE  \E u \in pool' : u.from = a /\ u.nonce = n
  <2>1. n \in nonces[a]..(Unused(a) - 1) /\ (a = from => n # nonces[from])
    BY <1>2, <1>3, <1>5
  <2>2. PICK u \in pool : u.from = a /\ u.nonce = n
    BY <2>1 DEF NonceInv
  <2>3. QED
    BY <1>1, <2>1, <2>2
<1>8. ASSUME NEW d \in Commands, phase'[d] = "send"
      PROVE  nonceOf'[d] <= Unused(Sender(d, stage[d]))'
  <2>1. PICK a \in {Root, Child} : a = Sender(d, stage[d])
    BY SenderAccount
  <2>2. Sender(d, stage[d])' = a
    BY <1>1, <2>1 DEF Sender
  <2>3. Unused(Sender(d, stage[d]))' = Unused(a)'
    BY <2>2 DEF Unused, Queue
  <2>4. nonceOf'[d] <= Unused(a)
    BY <1>1, <1>8, <2>1 DEF NonceInv
  <2>5. QED
    BY <1>5, <2>3, <2>4
<1>9. QED
  BY <1>1, <1>4, <1>6, <1>7, <1>8 DEF NonceInv

LEMMA NonceInitial == DemoInit => NonceInv
<1> SUFFICES ASSUME DemoInit PROVE NonceInv
  OBVIOUS
<1>1. \A a \in {Root, Child} : Unused(a) = 0 /\ nonces[a] = 0
  <2>1. \A a : Queue(a) = {}
    BY DEF DemoInit, Queue
  <2>2. QED
    BY <2>1, FS_EmptySet DEF DemoInit, Unused
<1>2. QED
  BY <1>1, FS_EmptySet DEF DemoInit, NonceInv

LEMMA NonceInvariant == DemoSpec => []NonceInv
<1>1. ASSUME DemoInv, NonceInv, [DemoNext]_demoVars PROVE NonceInv'
  <2>1. TypeOK /\ DemoTypeOK
    BY <1>1 DEF DemoInv, RegistryInv, LineageInv, IndexInv
  <2>2. CASE Quiet
    <3>1. UNCHANGED <<stage, phase, nonceOf, pool, nonces>>
      BY <2>2 DEF Quiet, commandVars
    <3>2. QED
      BY <1>1, <3>1 DEF NonceInv, Unused, Queue, Sender
  <2>3. QED
    BY <1>1, <2>1, <2>2, CommandKeepsNonces, MineKeepsNonces, DemoSteps
<1>2. QED
  BY <1>1, NonceInitial, DemoInvariant, PTL DEF DemoSpec

(* Whatever is in the pool can be mined in turn: from each account with one
   waiting, exactly one transaction has the nonce that is next, however many
   commands read the same nonce, gave up or failed in between. *)
NoneIsStuck ==
  \A a \in {Root, Child} :
    Queue(a) # {} => \E t \in Queue(a) : t.nonce = nonces[a] /\ \A u \in Queue(a) : u.nonce = nonces[a] => u = t

(* This holds whatever commands compete for an account, as Unused counts what
   is in the pool and NonceInv says that it counts without a gap. *)
THEOREM PoolIsInTurn == DemoSpec => []NoneIsStuck
<1>1. ASSUME NonceInv PROVE NoneIsStuck
  <2> SUFFICES ASSUME NEW a \in {Root, Child}, Queue(a) # {}
               PROVE  \E t \in Queue(a) : t.nonce = nonces[a] /\ \A u \in Queue(a) : u.nonce = nonces[a] => u = t
    BY DEF NoneIsStuck
  <2>1. nonces[a] \in nonces[a]..(Unused(a) - 1)
    <3>1. PICK t \in pool : t.from = a
      BY DEF Queue
    <3>2. t.nonce \in nonces[a]..(Unused(a) - 1)
      BY <1>1, <3>1 DEF NonceInv
    <3>3. QED
      BY <1>1, <3>2, UnusedType
  <2>2. PICK t \in pool : t.from = a /\ t.nonce = nonces[a]
    BY <1>1, <2>1 DEF NonceInv
  <2>3. QED
    BY <1>1, <2>2 DEF NonceInv, Queue
<1>2. QED
  BY <1>1, NonceInvariant, PTL
=============================================================================
