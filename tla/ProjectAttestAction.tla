-------------------------- MODULE ProjectAttestAction --------------------------
(***************************************************************************)
(* .github/actions/project-attest/attest.py: successive runs of the action *)
(* in one workspace.  A run reads the README, asks the issuer for a        *)
(* credential, stores the credential and then the README with the badge    *)
(* that links to it, each file through a temporary one.  A run may end     *)
(* with an exception, or the runner may be stopped, at any step; a request *)
(* the run has given up on may still be granted.                           *)
(*                                                                         *)
(* Credentials are numbered as the issuer grants them; a badge is named by *)
(* its credential.  A README is a sequence of markers, badges and lines of *)
(* text that end in LF or CRLF; blank lines around the block are left out. *)
(*                                                                         *)
(* An operator whose comment begins with "Faulty:" is no part of the       *)
(* specification: it is the next operator with a programming error, kept   *)
(* to confirm that the properties would notice that error.                 *)
(***************************************************************************)
EXTENDS Naturals, FiniteSets, SequencesExt

CONSTANTS Readmes,      \* what authors write into the README
          Words,        \* what the lines of text in it say
          MaxRuns       \* bound on the runs of the action

ASSUME RunsAssumption == MaxRuns \in Nat

VARIABLES stage,        \* where the run of the action is
          runs,         \* runs begun
          readme,       \* the README: a sequence of items
          output,       \* the stored credential, 0 for no file
          temporary,    \* the file atomic_write has put beside its target
          current,      \* current_readme, the README as the run has read it
          answer,       \* the credential in the issuer's answer, 0 for none yet
          announced,    \* the credential named in GITHUB_OUTPUT, 0 for none
          listens,      \* whether the run has a GITHUB_OUTPUT
          requested,    \* runs whose request the issuer may still grant
          issued,       \* credentials granted so far
          authored,     \* the README the author wrote last
          before        \* README and output at the beginning of the run

fileVars == <<readme, output, temporary>>
issuerVars == <<requested, issued>>
runVars == <<runs, current, answer, announced, listens, before>>
attestVars == <<stage, fileVars, issuerVars, runVars, authored>>

START == [kind |-> "start"]
END == [kind |-> "end"]
Badge(credential) == [kind |-> "badge", of |-> credential]
Line(text, ending) == [kind |-> "line", text |-> text, ending |-> ending]
Lines == [kind : {"line"}, text : Words, ending : {"LF", "CRLF"}]
(* A badge that the author has put there is older than all that are granted. *)
ASSUME ReadmesAssumption == Readmes \subseteq Seq({START, END, Badge(0)} \cup Lines)
Torn == <<[kind |-> "torn"]>>

Resting == {"off", "done", "failed", "stopped"}

AttestInit ==
  /\ stage = "off" /\ runs = 0
  /\ readme \in Readmes /\ authored = readme
  /\ output = 0 /\ temporary = FALSE
  /\ current = <<>> /\ answer = 0 /\ announced = 0 /\ listens = TRUE
  /\ requested = {} /\ issued = 0
  /\ before = [readme |-> readme, output |-> output]

-----------------------------------------------------------------------------
(* The README. *)

Occurrences(text, item) == Cardinality({i \in DOMAIN text : text[i] = item})
Position(text, item) == CHOOSE i \in DOMAIN text : text[i] = item

(* read_text turns every line ending into LF. *)
ReadText(text) ==
  [i \in DOMAIN text |-> IF text[i].kind = "line" THEN Line(text[i].text, "LF") ELSE text[i]]

HasNoBlock(text) == Occurrences(text, START) = 0 /\ Occurrences(text, END) = 0
HasOneBlock(text) ==
  /\ Occurrences(text, START) = 1 /\ Occurrences(text, END) = 1
  /\ Position(text, START) < Position(text, END)

TakesBadge(text) == HasNoBlock(text) \/ HasOneBlock(text)

badge_block(credential) == <<START, Badge(credential), END>>

(* Faulty: adds a block to the one that is there. *)
Appended(text, block) == text \o block
update_readme(text, block) ==
  IF HasNoBlock(text) THEN text \o block
  ELSE SubSeq(text, 1, Position(text, START) - 1) \o block
         \o SubSeq(text, Position(text, END) + 1, Len(text))

-----------------------------------------------------------------------------
(* A run. *)

(* Faulty: stores the README first. *)
ReadmeFirst == <<"storeReadme", "storeOutput", "announce">>
(* What is left to do once the new README is known, in this order. *)
Writes == <<"storeOutput", "storeReadme", "announce">>
NextWrite(s) == Writes[(CHOOSE i \in 1..2 : Writes[i] = s) + 1]

Working == {"read", "ask", "update"} \cup ToSet(Writes)

(* required, workspace_path and the score check only read the inputs. *)
Begin ==
  /\ stage \in Resting /\ runs < MaxRuns
  /\ stage' = "read" /\ runs' = runs + 1
  /\ answer' = 0 /\ announced' = 0 /\ current' = <<>> /\ listens' \in BOOLEAN
  /\ before' = [readme |-> readme, output |-> output]
  /\ UNCHANGED <<fileVars, issuerVars, authored>>

ReadReadme ==
  /\ stage = "read"
  /\ current' = ReadText(readme)
  /\ requested' = requested \cup {runs}
  /\ stage' = "ask"
  /\ UNCHANGED <<fileVars, issued, runs, answer, announced, listens, before, authored>>

(* The issuer grants a request, whether the run still waits or not. *)
Grant(run) ==
  /\ run \in requested
  /\ requested' = requested \ {run}
  /\ issued' = issued + 1
  /\ answer' = IF run = runs /\ stage = "ask" THEN issued + 1 ELSE answer
  /\ UNCHANGED <<stage, fileVars, runs, current, announced, listens, before, authored>>

(* issue returns and proof_url finds the link. *)
TakeAnswer ==
  /\ stage = "ask" /\ answer # 0
  /\ stage' = "update"
  /\ UNCHANGED <<fileVars, issuerVars, runVars, authored>>

(* Faulty: looks for the markers only when it writes the README. *)
UpdateUnchecked ==
  /\ stage = "update"
  /\ stage' = Head(Writes)
  /\ UNCHANGED <<fileVars, issuerVars, runVars, authored>>

(* Before it writes anything, the run computes the new README, which fails if
   the markers are not one complete block. *)
Update ==
  /\ stage = "update"
  /\ TakesBadge(current)
  /\ stage' = Head(Writes)
  /\ UNCHANGED <<fileVars, issuerVars, runVars, authored>>

(* Faulty: writes into the file itself. *)
OpenInPlace ==
  /\ stage \in {"storeOutput", "storeReadme"} /\ ~temporary
  /\ temporary' = TRUE
  /\ readme' = IF stage = "storeReadme" THEN Torn ELSE readme
  /\ UNCHANGED <<stage, output, issuerVars, runVars, authored>>

(* The temporary file of atomic_write, complete and synced. *)
WriteTemporary ==
  /\ stage \in {"storeOutput", "storeReadme"} /\ ~temporary
  /\ temporary' = TRUE
  /\ UNCHANGED <<stage, readme, output, issuerVars, runVars, authored>>

Replace ==
  /\ stage \in {"storeOutput", "storeReadme"} /\ temporary
  /\ temporary' = FALSE
  /\ output' = IF stage = "storeOutput" THEN answer ELSE output
  /\ readme' = IF stage = "storeReadme" THEN update_readme(current, badge_block(answer)) ELSE readme
  /\ stage' = NextWrite(stage)
  /\ UNCHANGED <<issuerVars, runVars, authored>>

(* Outside of a workflow there is no GITHUB_OUTPUT, and the run succeeds
   without a word. *)
Announced == IF listens THEN answer ELSE 0

Announce ==
  /\ stage = "announce"
  /\ announced' = Announced
  /\ stage' = "done"
  /\ UNCHANGED <<fileVars, issuerVars, runs, current, answer, listens, before, authored>>

(* Any step may raise: an input is rejected, a file cannot be read or written,
   the issuer refuses, does not answer in time or answers without a proof_url,
   the markers are no block.  atomic_write removes its temporary file. *)
Raise ==
  /\ stage \in Working
  /\ stage' = "failed"
  /\ temporary' = FALSE
  /\ \/ UNCHANGED requested
     \/ stage = "ask" /\ requested' = requested \ {runs}
  /\ UNCHANGED <<readme, output, issued, runVars, authored>>

(* The runner is stopped.  Temporary names are unique, so one that stays
   behind is in nobody's way. *)
Stop ==
  /\ stage \in Working
  /\ stage' = "stopped"
  /\ temporary' = FALSE
  /\ UNCHANGED <<readme, output, issuerVars, runVars, authored>>

(* The author rewrites the README between two runs. *)
Edit(text) ==
  /\ stage \in Resting
  /\ stage' = "off"
  /\ readme' = text /\ authored' = text
  /\ UNCHANGED <<output, temporary, issuerVars, runVars>>

AttestNext ==
  \/ Begin \/ ReadReadme \/ TakeAnswer \/ Update
  \/ WriteTemporary \/ Replace \/ Announce \/ Raise \/ Stop
  \/ \E run \in 1..MaxRuns : Grant(run)
  \/ \E text \in Readmes : Edit(text)

AttestSpec == AttestInit /\ [][AttestNext]_attestVars

-----------------------------------------------------------------------------
(* A badge never links to a credential newer than the stored one, wherever a
   run was interrupted: the credential is stored before the badge (run). *)
BadgeIsBacked ==
  \A i \in DOMAIN readme : readme[i].kind = "badge" => readme[i].of <= output

(* When a run succeeds the README holds exactly one block, whose badge is of
   the credential in the output file and, if the run has anywhere to announce
   it, in the announced outputs, whatever earlier runs left behind (run). *)
SuccessAgrees ==
  stage = "done" =>
    /\ answer # 0 /\ output = answer /\ announced = Announced
    /\ HasOneBlock(readme)
    /\ readme[Position(readme, START) + 1] = Badge(answer)
    /\ Occurrences(readme, Badge(answer)) = 1

(* What the author wrote outside the block is there, in order, after any
   number of runs, failed and stopped ones included; only line endings
   may have become LF. *)
Outside(text) ==
  IF HasOneBlock(text)
  THEN SubSeq(text, 1, Position(text, START) - 1) \o SubSeq(text, Position(text, END) + 1, Len(text))
  ELSE text
AuthorsTextIsKept == ReadText(Outside(readme)) = ReadText(Outside(authored))

(* A run that got no usable answer, or whose README cannot take a badge,
   leaves both files as it found them (test_action.py, tests named
   "preserves_existing_files"). *)
UnusableRunChangesNothing ==
  stage # "off" /\ (answer = 0 \/ ~TakesBadge(before.readme)) =>
    output = before.output /\ readme = before.readme
=============================================================================
