---------------------------- MODULE CredentialLedger ----------------------------
(***************************************************************************)
(* What both registry contracts promise their readers, with delegation,    *)
(* evidence, lineage links, holder keys and time left out: for every       *)
(* subject and skill at most one credential is live; a credential is       *)
(* installed as a whole, replaced as a whole and withdrawn as a whole; and *)
(* an identifier that was ever recorded is never recorded again.           *)
(***************************************************************************)
CONSTANTS Ids,        \* identifiers a credential can have
          Subjects,   \* subject commitments
          Skills,     \* skill identifiers
          None        \* "no credential", the zero word of the contracts, no member of Ids

VARIABLES used,       \* identifiers recorded so far
          live        \* the credential that answers for each subject and skill

ledgerVars == <<used, live>>

Slots == Subjects \X Skills

LedgerTypeOK ==
  /\ used \in SUBSET Ids
  /\ live \in [Slots -> Ids \cup {None}]

LedgerInit ==
  /\ used = {}
  /\ live = [slot \in Slots |-> None]

IsLive(id) == \E slot \in Slots : live[slot] = id

(* Every slot that old holds, and no other, passes to new. *)
HandOver(old, new) ==
  [slot \in Slots |-> IF live[slot] = old THEN new ELSE live[slot]]

(* A fresh credential takes free slots of one subject. *)
Certify(id, s, ks) ==
  /\ id \notin used
  /\ ks # {}
  /\ \A k \in ks : live[<<s, k>>] = None
  /\ used' = used \cup {id}
  /\ live' = [slot \in Slots |-> IF slot \in {s} \X ks THEN id ELSE live[slot]]

Replace(old, new) ==
  /\ IsLive(old)
  /\ new \notin used
  /\ used' = used \cup {new}
  /\ live' = HandOver(old, new)

Withdraw(old) ==
  /\ IsLive(old)
  /\ live' = HandOver(old, None)
  /\ UNCHANGED used

LedgerNext ==
  \/ \E id \in Ids, s \in Subjects, ks \in SUBSET Skills : Certify(id, s, ks)
  \/ \E old, new \in Ids : Replace(old, new)
  \/ \E old \in Ids : Withdraw(old)

LedgerSpec == LedgerInit /\ [][LedgerNext]_ledgerVars

-----------------------------------------------------------------------------
KeepsRetired == \A id \in used : ~IsLive(id) => ~IsLive(id)'

(* A recorded credential that is no longer live, because it was withdrawn or
   replaced, never answers for any subject and skill again. *)
RetiredForGood == [][KeepsRetired]_ledgerVars
=============================================================================
