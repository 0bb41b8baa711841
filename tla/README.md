# A TLA+ model of skill-validation

The repository issues, updates and verifies skill credentials. Two Solidity
contracts keep the records, a Go library signs credentials under an in-memory
tree of issuer keys, a command-line tool drives one of the contracts over RPC,
and a GitHub action fetches a credential and puts its badge into a README. This
directory models that logic in TLA+, checks the models with TLC and proves the
safety properties for all values of the constants with TLAPS. `PROJECT.json` lists runs, mutants, findings, hazards and
theorems, and maps definitions to source lines.

## 1. The system

### 1.1 Components

**SkillRegistry** (`contracts/src/SkillRegistry.sol`).
State: the issuers the root has delegated, attestation records, holder bindings,
an index from subject and skill to the active record, and successor and
predecessor links between records. Operations: `delegateIssuer`,
`delegateIssuerFor`, `revokeIssuer`, `attestWithProof`, `supersedeWithProof`,
`revokeAttestation`, `bindHolder`, `revokeHolderBinding`, and views. A record
covers several skills, so issuing and revoking loop over the index.
Hard: long sequences of legal transactions by several accounts, several of them
in one block, with expiry at a block's time; loops that write part of the index
before they revert; views that combine a record with the delegations of today.
Correct means: index and records agree; one active record per subject and skill;
linear lineages, opened by a child and continued by the root; history never
rewritten; children stay within their delegation; holder authority is granted
explicitly and is never in two hands.

**SkillMVPRegistry** (`contracts/src/SkillMVPRegistry.sol`).
The same ideas with one skill per record, no scope and no score proof, and a
check of signatures that a holder's wallet makes off chain
(`holderProjectDigest`, `verifyHolderProject`). Hard: as above, and signatures
that outlive or predate what they are about, and malformed ones.

**Score verifier** (`IGroth16ScoreVerifier`, `DevelopmentScoreVerifier`).
A pure function that SkillRegistry calls with a proof and two public inputs.

**KeyAuthority** (`internal/attestation/keys.go`, `attestation.go`).
State: a root key with a revoked flag and a map of child keys, each with a
delegation and a revoked flag, behind a RWMutex. Operations: `Delegate`,
`DelegateFor`, `Issue`, `Revoke`, `RevokeRoot`, `CanIssue`, `Verify`. Hard:
`delegate` gives up the lock to make a key, and `Issue` decides under the lock
and signs after it. Correct means: whatever verifies was signed within a
delegation and has not been altered, no child appears under a revoked root, and
revocation takes effect.

**Holder grants** (`internal/attestation/holder.go`). A predicate over an
issuer-signed binding that names a credential by its ID. Nothing in the
repository calls it.

**issuer-demo** (`cmd/issuer-demo`). A process per command, without state of its
own: `issue` deploys SkillMVPRegistry, funds and delegates a child key, attests
and binds a holder; `upgrade` supersedes and binds; `verify`, `sign-project`,
`verify-project`, `sign-telemetry`, `verify-telemetry` read; `network` starts a
local node on port 8545, to which the others connect. Hard: several transactions
per command with a failure or a timeout between any two, repeats of a command
whose transaction is still pending, commands that share the root's nonce, reads
of several chain states; a port that others take between reserving and using it,
a child process that every exit has to stop, interrupts at any step, a node that
is replaced between the check of its chain and the signature.

**project-attest action** (`.github/actions/project-attest`). Reads the README,
has the issuer grant a credential, replaces two files one after the other.
Hard: failures and stopped runners between the steps, late grants, READMEs with
broken markers.

**Zero-knowledge proof** (`internal/zkproof`): `Prove`, `Verify` and
`Commitment` around a circuit over a field that is smaller than the integers
callers pass. Hard: numbers at zero, at the threshold, at the order of the field
and at 32 bytes. Correct means: an accepted proof says what the documentation
says it does, and every claim that meets its threshold can be proved.

**Configuration** (`internal/config`): `Load` puts what `.env` adds into the
process environment and reads, parses and validates the settings;
`ResolveSecrets` replaces references by values, one after the other. Hard:
several loads of a file that is edited, errors halfway, rotation between two
look-ups. Correct means: the environment decides, and a resolution that succeeds
has no stale secret. No command in the repository calls it.

**Chain boundary** (`internal/chain`): a check of the network's chain ID and of
receipts, for a publisher that is declared only. **Observability, concurrency,
logging, HTTP responses**: thin wrappers of libraries. **Entry point**
(`cmd/project-validation`): prints a line. **Scripts and infrastructure**: shell
around the CLI and cloud tools.

### 1.2 Interactions

    project-attest --HTTP--> issuer service (not in this repository)
    KeyAuthority   --signs--> credentials, named by holder bindings
    issuer-demo    --RPC----> node --transactions--> SkillMVPRegistry
    network        --starts-> npx --starts--> node on port 8545
    .env, environment, secret manager --> Configuration
    wallets        --signatures, off chain--> SkillMVPRegistry.verifyHolderProject
    zkproof        --proof--> score verifier <--call-- SkillRegistry

The two registries do not call each other; they share one abstract promise.

## 2. The modules

| module | models | built on |
|---|---|---|
| `CredentialLedger` | what both registries promise: whole credentials per subject and skill | |
| `SkillRegistry` | `SkillRegistry.sol` | implements `CredentialLedger` |
| `SkillMVPRegistry` | `SkillMVPRegistry.sol` | implements `CredentialLedger` |
| `KeyAuthority` | `keys.go`, `attestation.go`, `HolderBinding.Allows` | |
| `IssuerDemo` | `issue`, `upgrade`, `verify` over a transaction pool | extends `SkillMVPRegistry` |
| `HolderReports` | `sign-` and `verify-project`, `sign-` and `verify-telemetry`, exporter start and stop | extends `SkillMVPRegistry` |
| `LocalNetwork` | `network`, `startHardhat`, and the other commands up to the signature | |
| `ProjectAttestAction` | `attest.py` | |
| `Configuration` | `Load`, `ResolveSecrets` | |
| `ScoreProof` | `zkproof/proof.go` | |
| `...Proofs` | theorems about the module of that name, section 4; those of `LocalNetwork` and `ScoreProof` share `NetworkAndScoreProofs`, with the lemmas on remainders | that module; those of `IssuerDemo` and `HolderReports` also on `SkillMVPRegistryProofs` |
| `MC...` | values for TLC: symmetry, tuples, bindings, READMEs, environments and `.env` files, chains | |

How the models correspond to the code:

* *Contracts.* A transaction is atomic and a revert changes nothing, so each
  external function is one action with the conjunction of its `require`
  conditions as guard. `now` is `block.timestamp`; `NextBlock` advances it, and
  any number of transactions share a timestamp. Mappings are functions with the
  zero value for keys never written. `keccak256` is injective: an identifier is
  the tuple it hashes, and fields that the tuple tells are not kept twice.
  Arrays of skills are sets; an array that repeats a skill reverts at the
  pointer it has just written. Zero arguments revert and are not enumerated,
  except where a property is about them (`BindHolder` of the MVP contract).
  `Expiries` are the times a delegation or a binding can name. Events are left
  out, except that a binding keeps `boundBy`, the issuer that `HolderBound` tells
  and that no storage has: it is written by `bindHolder` and read by a property
  only. The verifier is the set `Provable` of commitments it accepts a proof for;
  the development verifier is the case `Provable = Credentials`.
* *Wallets.* `SignProject` adds a signature to `signatures`; it can be made at
  any time, as the digest can be computed at any time.
* *KeyAuthority.* No critical section blocks while it holds the RWMutex, so a
  critical section is one step. `pc` says which gap of which method a goroutine
  is in: `delegating` (arguments accepted), `inserting` (root seen available,
  key made), `signing` (decided, lock released). A call that returns an error
  at any of these points is `Fail`. Project, issue time and agent of a request
  are one value, `Occasions`, because only `credentialID` tells them apart.
  `Documents` is everything that can be put around a signature that was made,
  with any members; `UnsignedDigest` is the record of the members it covers and
  `SignDigest` the pair of key and digest. `HolderBinding` is every grant that can
  be written, so `Allows` is judged over all of them, beside the credentials.
* *issuer-demo.* A command is a process with a `stage` (the transaction or read
  it is at) and a `phase` within `transactWithSigner` and `waitReceipt`. The node
  is external: it mines transactions of an account in nonce order, once each, at
  any later moment, and may revert one that was estimated to succeed. The
  estimate is `ENABLED Execute(...)`. The node may also stop answering
  (`FallSilent`, `silent`): it keeps connections and its calls never return.
  `waitReceipt` looks at its deadline between polls only, and `TransactionReceipt`
  and the reads have none of their own, so under a silent node a command hangs.
  What ends it then is a signal: `Interrupt` cancels the context, which
  `waitReceipt` notices (phase `cancelled`). A holder flag is an
  address, absent, or no hexadecimal number: of the last `HexToAddress` makes the
  zero address (`binds` is true with the holder `Zero`) and `bindHolder` reverts,
  after the supersession has been mined. All expiries are 90 days ahead, so time stands still. Each `issue` deploys a registry of its own in the code, and the
  model is about one of them: `OneRegistry` says that `Issues` has one member at
  most. Upgrades and verifications are any number.
* *Holder reports.* A check is a run of `verify-project` or `verify-telemetry`;
  `Call` is its one read of the contract. `StartTelemetry`, `Record` and `Flush`
  are `Telemetry.Start`, the gauge and the deferred `Telemetry.Stop`, and each may
  fail, since the code drops their errors. Between any two the registry takes
  steps. `authorized` is a history: every pair of a record and a wallet for which
  `isHolderAuthorized` has held; `RegistryStep` adds to it and only a property
  reads it. Texts and metrics are values; `Binding` is their hash and need not be
  injective, as metrics are hashed with six decimals and a text that is a hash
  stands for itself. `exported` is what the pipeline has received, as a set: the
  code keeps no record of what it published, and neither does the model count.
* *Local network.* One listener at a time holds the port: the node of a `network`
  command, another program, whose chain may be the local one, another, or none
  because it never answers, or nobody. What `startHardhat` starts and kills is
  `npx`; the node is its child and may outlive it. `CallReturns` says when an RPC
  call comes back: at once with an answer or an error, except that a program which
  takes connections and never answers keeps it until the context is done. `late`
  is the ten-second deadline, `interrupted` the context. `Int64` is the conversion
  with its truncation, `Word` being 2^64. The key of the signing commands is in the
  property by what a chain accepted: a signature names the chain ID that was
  read, and a node takes it only if it is its own.
* *Configuration.* Texts are what they mean: case, blanks and quotes that the code
  folds are gone, a list is a set. `parseEnv` sets a variable at its first line and
  then finds it set, so `ParseEnv` takes the first line of each variable among
  those before a bad one. `Load` may fail at any line, as the file may not open,
  a line may be too long for the scanner and a variable may not be accepted; the
  lines before it stay set. `given` is what the process was started with
  and is only compared with. Settings that are copied without a condition are
  left out.
* *Score proofs.* `Prove` and `Verify` take every integer of `Numbers`, or nil.
  gnark reduces both public inputs, the threshold and the commitment, modulo the
  field (`Element`); `Commitment` does not reduce score and salt
  (`CommitmentOutcome`). The public inputs a proof is presented with are any pair
  of `Numbers`. The constant `MiMC` is any function from two field elements to
  one, so nothing rests on the hash being injective. Groth16 is sound and
  complete, so a proof is the system and the public part of a satisfying assignment.
* *project-attest.* `stage` is the position in `run`. A README is a sequence of
  markers, badges and lines; a badge the author has put there is `Badge(0)`, older
  than all that are granted. `read_text` turns CRLF into LF, and the model says
  so. `Grant` is the issuer (external), which may grant a request after the run
  has given up. `listens` says whether the runner has set GITHUB_OUTPUT; without it
  nothing is announced. `Raise` stands for every error exit, `Stop` for a stopped
  runner.

Operators whose comment begins with "Faulty:" are no part of a specification.
Each is a definition with a plausible error, and `PROJECT.json` ("mutants")
names the property that notices it when it takes the definition's place.

## 3. The runs

Each run is `tlc -config <cfg> <module>`.

| run | instance | shows |
|---|---|---|
| `registry_records` | 1 subject, 2 skills, 3 provable commitments and 1 not, 2 blocks, 1 child, 2 wallets, the root's and the child's | index, records, views and lineages agree; history is not rewritten; refinement of the ledger; holder authority is given by the root or the record's issuer through `bindHolder` and ends with the record |
| `registry_authority` | 2 subjects, 2 programs, 2 skills, 2 scopes, 2 expiries, 2 blocks, delegations for one scope, the other or both | a child records nothing outside its delegation or at its expiry |
| `key_authority` | 2 goroutines, 2 keys, 2 skills, 2 clock values, every document around every signature | what verifies was issued within a delegation; delegation under concurrent revocation, with liveness |
| `issuer_demo` | 1 issue, 2 upgrades, 1 verify, 2 evidence values, a node that may fall silent | what commands print, retries, termination |
| `holder_reports` | 2 programs, 2 wallets, 1 signature, 1 metric, 2 texts of which one quotes the metric's hash, 1 check, 2 blocks | the index, lineage and delegation properties and the refinement for the MVP contract; exported reports were signed for their credential by a wallet that has been its accepted holder; retirement stops reports |
| `local_network` | 2 network commands, 1 signing command, 3 other programs | no process is left behind, interrupts end the command, the key signs for the local chain only |
| `configuration` | 3 environments, 6 `.env` files, 2 secrets of 2 versions | the environment decides; resolved secrets are fresh |
| `score_proof` | field of order 3, 5 for 2^256, all integers from -1 to 6, 2 systems | accepted proofs mean what they say, and claims that meet their threshold pass |
| `project_attest` | 3 runs, 6 READMEs | files agree wherever a run is interrupted |
| `registry_reverified`, `key_authority_ids`, `score_threshold` | smallest that shows it | findings, section 5 |

Why the bounds are enough. The index properties involve two records and one
subject and skill; three provable commitments give a lineage of three records, or
one of two beside a record on overlapping or on disjoint skills, plus reissue
after revocation. Two blocks give "same block" and "later block": retire or expire in
the one and act in the other. Subjects never meet in a record, so two suffice, and
they share the commitment to show that identifiers keep them apart. Two scopes
give delegations that cover the scope of a record, the other one or both. The two
wallets of `registry_records` are addresses of issuers, because the code does not
keep the roles apart and the properties must hold all the same. Two goroutines are enough for every gap in the
two methods, because what a gap exposes is one other writer. One node that falls silent,
before or after any step of a command, is as good as many, for it never comes back.
Two upgrades are a
competition, a retry, or a chain; a third would repeat one of these pairs. Three
runs of the action are an interrupted run, a late grant and a rerun. In
`holder_reports` a check uses one signature, which may be the right one or one for
another record, input or wallet, and with two wallets one may sign while the other
is bound. A check that repeats serves as a second one,
because what it exported stays. Its type invariant includes that of the registry.
Two network commands compete for the port with a program of each kind. The three
environments are a bare one, that of a production deployment and one that sets a
variable to nothing; the files add, repeat, contradict, break off and fail
validation. A field of order 3 has a score below, at and above a threshold, and
the small numbers keep the order 0 < field < 32 bytes. Symmetry is used in the
safety runs of the two registries only, over values that are interchangeable.

Where a stop is legitimate (time is bounded, commands end) `CHECK_DEADLOCK` is
off; progress is stated as liveness instead.

Fairness. `KeyAuthority`: weak fairness of the steps of a call that has begun;
they wait for nothing but a lock that nobody keeps, and the Go scheduler runs
them. Beginning a call, revoking and the clock are not fair. `IssuerDemo`: weak
fairness of the steps of a started command, that is, the process runs, and its
deadline passes, except while a silent node keeps a call. The chain is not
assumed to mine anything, the node may fall silent for good, and nobody has to
interrupt: `CommandEnds` says that every command ends unless it waits for a node
that is silent and has not been cancelled. `LocalNetwork`: weak fairness of the steps
of a network command and of its deadline, that is, the program runs and its clock
too; nothing is assumed of other programs, so a call to a silent one returns only
when the context is done. The other specifications state no
fairness: transactions and runs need not happen.

## 4. The proofs

Every theorem holds for all values of the constants: any number of accounts,
subjects, keys, goroutines, commands, READMEs and files, and any length of a
history. What it assumes of the constants are the named assumptions of its
module, which TLC evaluates in the runs; most say that a zero value is none of
the proper ones, or that a set contains the default the code uses. The
assumptions that narrow a model are named below. Each proof follows one
argument: an inductive invariant that is stronger than the property, the lemma
that every action keeps it, and the property from it. Every invariant was
checked with TLC on the instance of the run before it was proved.

**SkillRegistryProofs**

* `TypeCorrect`: one lemma per group of actions.
* `IndexAgreement`, `OneActive`. `IndexAgreesWithRecords` alone is not
  inductive: `supersedeWithProof` moves all pointers of the old record's skills
  blindly, and an issued record with no date could be recorded over.
  `IndexInv` adds types and "active records are issued"; then by agreement the
  pointers of the old skills are exactly those that name the old record, and a
  fresh identifier is no one's pointer. One lemma per record function.
* `LineageAgreement`, `LineageTerminates`. `LineageInv` adds to `IndexInv`
  that only issued records have links and that a record with a successor is
  retired; a successor is always fresh, so it has no links and nothing points to
  it. Termination is stated without induction over data: no non-empty set of
  records is closed under `successorOf`. A set with the new record has it as
  witness, any other set keeps its old one.
* `History`: an action property from `LineageInv`.
* `WellFormedRecords`, with `LineageInv` as its induction hypothesis: a record's
  issuer and its predecessor are set by one transaction and never again, so that
  the root signs exactly the records that continue a lineage.
* `SurfacesAgree`: a consequence of the two invariants. The count of one
  current record per skill is a set that the pointer shows to be a singleton.
* `IssuanceConfined`, `HolderAuthority`: action properties. A new record comes
  from `attestWithProof`, whose guard is the delegation, or from
  `supersedeWithProof`, which the root signs. For the authority of a holder
  each action but `bindHolder` is shown to start none: time and retirement end
  bindings, and a fresh record has none to inherit. The guard of `bindHolder`
  admits the root and the record's own issuer, with its scope, and `boundBy` is
  its sender. A record that is dated or has a successor is not active, so nobody
  is its holder.
* `Refinement`: `SkillRegistry` implements `CredentialLedger`. Attesting is
  `Certify`, superseding `Replace`, revoking `Withdraw`; the lemma
  `SlotsOfRecord` says that the pointers which the loop over the skills touches
  are those that the abstract step moves.
* `RetiredStays`: a retired record never answers for a skill again.

**SkillMVPRegistryProofs**. `IndexAgreement`, `LineageAgreement`, `IssuanceConfined`
and `Refinement` as above for the second contract; `IndexInv` needs in addition
that a pointer is only ever at the slot of its record (`PointsHome`) and that an
identifier not issued is blank (`UnissuedIsBlank`). Both contracts thus implement
the same ledger. The lemmas are about single steps of the registry, because two
other modules contain it.

Four more results are about what is never taken back or given by accident.
`RetiredStays`: retired records never answer again (`Ledger!RetiredForGood`).
`History`: a record on file only changes by being retired, once; its successor is
named once, its predecessor at issuance or never. `NobodyHolds`: the zero address,
which `_recover` yields for what is no signature, passes `verifyHolderProject` for
no record. `AuthorityStarts`: a wallet begins to pass for a record in a step of
`bindHolder` that binds it, and the guard of that step admits the root and the
record's issuer only. The last two need `HolderInv`, which adds to `LineageInv`
that bindings name wallets and that only a record on file has an active one:
otherwise an issuance would give authority to whoever was bound before it.

**HolderReportsProofs**. `RegistryBehaves` is the refinement
`ReportSpec => Spec`: the commands leave the registry alone, so `RegistryUndisturbed`
and `NothingIsTakenBack` carry over the eight results above. `ReportTypeCorrect` covers both parts.
`ExportsAreSigned` holds by the flags: from the contract's answer on, they name a
signature in `signatures` and a pair in `authorized`, which both only grow. The
contract compares the recovered signer with the holder of the record's live binding,
that is no zero address, as every binding that was ever made names a wallet
(`BindingsNameWallets`), and who holds now is noted (`AuthorityIsNoted`). No step
needs `Binding` to be injective. `RetirementStops`: retirement is final and the
contract's answer needs an active record, so no check joins the pending ones.

**IssuerDemoProofs**. `CommandsBehave` is `DemoSpec => Spec`: every mined transaction
is a step of the registry or nothing; `RegistryUndisturbed` and `NothingIsTakenBack`
again carry over the results about the registry. `DemoInv` is the conjunction of the
registry's `LineageInv`, types, `Progress` (which receipts a command at a stage
must hold) and `ReceiptsHold` (a successful receipt means that its effect is in
the registry). The effect must outlast whatever is mined later, which is `Lasts`: an
issuer, a live binding, a successor and the presence of a pointer stay. From these
follow `IssueIsTrue`, `UpgradeIsItsOwn` and `SkillInView`. `UpgradesOnce` is part of the
invariant: a second supersession of one predecessor is refused because the
first has given it a successor. These hold whatever the estimate answers. The
assumption that narrows the model is `OneRegistry`, as described in section 2.

Three more results are about the calls to the chain. `CommandsAdvance`: each step
of a command lowers `Remaining`, four for every stage ahead and one for every
step left of the present call, so that a command takes no more than 28 steps; this is what `CommandEnds` rests on besides fairness. `OutcomesAreFinal`: a call of a
command has one receipt at most. Its invariant `OnceInv` says by the same count
that who has sent a transaction is past sending it. `PoolIsInTurn`: what waits in the
pool from an account includes exactly one transaction with the nonce that is next,
so none waits for a nonce that nobody sent. `NonceInv` says that the
pool of an account has exactly the nonces from the next one to the first unused
one, each once, and that no command holds one beyond it, even if it read it
before others sent with it.

**KeyAuthorityProofs**. `TypeCorrect` needs `CallInv`, what a goroutine carries at
each point of its call. `TreeClosed` and `EntranceShut` need `TreeInv`: keys being
inserted are fresh and no two goroutines insert one key, keys to be signed with are
in the tree, and a key outside it carries no mark of revocation. `VerifiedIsDelegated`
needs `SignedInv`: what was decided on a copy still fits the child, as a child's
delegation never changes, until the signature and ever after. That a key without a
subject vouches for nothing follows from two checks together: the shortcut in
`canIssueForLocked` lets it through for the empty learner only, and
`validateRequest` lets no empty learner through.

**ProjectAttestActionProofs**. `AttestInv` has types, the order of the stored, the
answered and the granted credential (`CredentialsInOrder`), the age of what was read
(`ReadBadgesAreOld`) and what a run knows at each step (`RunInv`). The lemmas about
`update_readme` carry most of the weight: `UpdatedReadme` says that if a README takes a
badge, the result has one block with that badge and the same items outside it,
for READMEs of any length with markers in any order. From the invariant follow
`BadgesAreBacked`, `TextIsKept`, `UnusableIsHarmless` and `SuccessIsConsistent`, and
`NothingGoesBack`: no step replaces the stored credential by an older one, and a
badge that a run adds is newer than every badge it finds.
`ReadmesAssumption` fixes what an author's README consists of.

**ConfigurationProofs**. `EnvironmentDecides` for files of any length: `ParseKeeps`
says that parsing changes no variable that is set. `SecretsAreFresh` by `SecretInv`:
what the running call has passed it has replaced by a version no older than the
call, although an earlier call may have replaced it before.

**NetworkAndScoreProofs**. `ProcessIsStopped` by `ProcessInv`. `KeyIsKept` by `KeyInv`: what
is accepted has passed `connectHardhat`, and `SmallChainIsItself` says that `Int64`
maps no other ID below the word to the local one, for any even width.

`AcceptedIsMet` and `MeetingPasses` hold for every order of the field below
2^256. `ScoreInv` relates the proof at hand to the claim it was made from, and the
last check to what it was presented with: behind an accepted one are a score and a
salt that hash to `Element(commitment)`, the score at least `Element(threshold)`,
the remainders of what was presented. A commitment in the field is its own
remainder and a threshold below the order is not above its own, hence
`AcceptedMeansMet`, which says no more than that: beyond the
field a commitment and a threshold pass for their remainders, as in the code. A
remainder is never above its number, so a claim that meets its threshold passes the
circuit's comparison too, hence `MeetingClaimsPass`.
`NilAssumption` says that an absent part of a proof is not a proper one.

Only model-checked:

* Liveness (`RevocationTakesEffect`, `CommandEnds`, `InterruptEnds`): the prover has
  no rule for weak fairness over `ENABLED`. Of `CommandEnds` the part without
  fairness is proved, `CommandsAdvance`.
* The findings of section 5, which are counterexamples.
* That the declarative `ParseEnv` equals the loop of `parseEnv`, line by line: an
  induction over the file, compared on the files of the instance.

## 5. Where code and documentation disagree

* `RevokedStaysUnverifiable` (`contracts/README.md:40`). `verifyAttestation` asks
  for the delegation of today: delegating a revoked child anew, even for another
  subject, makes its old records verify again.
* `BindsOneCredential` (`holder.go:25`). `credentialID` leaves out skill and
  policy, so two credentials can share the ID that a holder binding names, and the
  binding allows its key to act for both.
* `ThresholdIsMet` (`proof.go:4`, `contracts/README.md:42`). `validateClaim` checks
  the sign of the threshold only; gnark takes it modulo the field, so a threshold
  of the field's order plus t is proved and accepted for a score of t. Below the
  order of the field `AcceptedMeansMet` holds.

Seen while modelling, and shown by no run of their own:

* `README.md:403` of the repository says that a verified metric "is automatically recorded and
  published", and `:426` that it "is streamed natively" to the pipeline.
  `verify-telemetry` drops the errors of starting, recording and exporting, so it
  may print `verified` although nothing was published. In the model any of
  `StartTelemetry`, `Record` and `Flush` may end a check without a report.
* `SkillMVPRegistry.sol:230` says that the holder key signed "while its credential
  was active". The digest names no time: a signature may be older than the record,
  the binding and the wallet's authority. `ExportedWasSigned` therefore says who
  signed and for what, and nothing of when.
* `proof.go:4` and `contracts/README.md:42` are contradicted by `ThresholdIsMet`
  above for the threshold. The commitment is reduced in the same way
  (`proof.go:116`): one that is the order of the field above another is accepted
  in its place, although no score and salt have it.

Noticed without a claim to hold the code against:

* A call of `Issue` that is past the check signs after `Revoke` or `RevokeRoot` has
  returned (`keys.go:192`, `:208`). What holds is that no further call gets past
  the check and that those which did come to an end. `Verify` looks neither at
  revocation nor at the expiry of the delegation.
* `issuer-demo` has no deadline for a call that the node takes and never answers:
  `waitReceipt` (`local.go:163`) tests its own between polls, and the reads have
  none. Such a command ends when it is interrupted.
* `network` is ready as soon as any node of the local chain answers, also that of
  another command; only the poll's loop has a deadline, its calls have none but the
  context; killing `npx` may leave the node behind, on the port.
* `connectHardhat` compares the lower 64 bits of the chain ID, so a chain with a
  longer one passes for the local chain and gets signatures for itself.
* A variable in `.env` overrides one of the environment that only stands in for it:
  `APP_PROFILE` in the file decides over `APP_ENV` in the environment. The lines in
  front of a bad one stay in the environment after `Load` has failed, and decide
  over the file once it is corrected.
* `Commitment` panics for a score or salt of 2^256 or more, and so does `Prove`.
* `attestWithProof` binds a proof to the record by its commitment only; whether the
  threshold is the one of the program is left to the issuer.
* If `upgrade` supersedes and then fails to bind the holder, which it does for a
  holder flag that is no address (`configured.go:385`), the successor is
  current without a holder, and no command can bind one: repeating the upgrade
  reverts, as the predecessor is no longer active.
* `bindHolder` of SkillRegistry does not compare the holder with the
  delegations, so one address can be both; a consumer must not conclude from a
  holder binding that the address cannot issue.
* `upgrade` uses its flag `skill-id` (default `rag-ai`) only to name the new
  program; `supersede` keeps the predecessor's skill. With another skill in the
  flag the result is a record of one skill under the program of another.
* A signed metric can be published again at any time, metrics that agree to six decimals share a
  signature, and a project text that quotes a metric's hash signs that metric.
* `attest.py` looks at the README's markers after the issuer has granted the
  credential, and reads the README with universal newlines, so CRLF lines
  outside the block come back as LF.

## 6. Not modelled

* The arithmetic of MiMC and Groth16, `Setup` and the export of the Solidity
  verifier: nothing in them depends on state or order.
* The bytes of digests, signatures and calldata; events.
* `ParseSecretRef`, the diagnostic summary and its redaction, logging, HTTP
  responses: formatting.
* The chain boundary: checks of one value each, without state, of a publisher that
  is not implemented and that nothing calls. The concurrency helper hands its
  calls to `errgroup`. The error reporter is used by no command.
* `cmd/project-validation` prints a line. Shell scripts, cloud provisioning and
  the Hardhat configuration and deployment script are pure I/O.
* The issuer service behind `/v1/attestations`, which is not in the repository.

## 7. Plan

The models and the proofs of all safety properties that a run checks are done. What
could follow:

1. What `RevocationTakesEffect` and `InterruptEnds` rest on apart from fairness, as
   `CommandsAdvance` does for `CommandEnds`.
2. Stronger links between modules: `SkillRegistry` and `SkillMVPRegistry` each
   implement the ledger; the set `Provable` could be the commitments for which
   `ScoreProof` accepts a proof.
