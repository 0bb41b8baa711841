------------------------------ MODULE LocalNetwork ------------------------------
(***************************************************************************)
(* cmd/issuer-demo and port 8545: the network command, which starts a      *)
(* Hardhat node there and keeps it until it is interrupted, and the other  *)
(* commands, which connect to whatever answers and sign with the           *)
(* configured key.  Several network commands and programs that have        *)
(* nothing to do with them compete for the port, and whoever listens may   *)
(* be another one at each call.                                            *)
(*                                                                         *)
(* The process that startHardhat starts, and kills, is npx; the node is a  *)
(* child of it and may outlive it (external).                              *)
(*                                                                         *)
(* An operator whose comment begins with "Faulty:" is no part of the       *)
(* specification: it is the next operator with a programming error, kept   *)
(* to confirm that the properties would notice that error.                 *)
(***************************************************************************)
EXTENDS Integers

CONSTANTS Networks,    \* runs of the network command
          Clients,     \* runs of the commands that sign
          Strangers,   \* other programs that may listen on the port
          ChainOf,     \* the chain whose node a stranger is, or Silent
          Silent,      \* takes connections and never answers
          Nobody,
          localHardhatChainID,
          Word         \* 2^64

ASSUME StrangerAssumption == ChainOf \in [Strangers -> Nat \cup {Silent}] /\ Silent \notin Nat
ASSUME PortAssumption == Networks \cap Strangers = {} /\ Nobody \notin Networks \cup Strangers
ASSUME WordAssumption == Word \in Nat /\ Word % 2 = 0 /\ localHardhatChainID \in 0..((Word \div 2) - 1)

VARIABLES listener,     \* the node of a network command, a stranger or Nobody
          stage,        \* network command -> where it is
          npx,          \* network command -> the process it started
          interrupted,  \* network commands whose context is done
          late,         \* network commands whose ten seconds are over
          step,         \* client -> where it is
          chainID,      \* client -> the chain ID it has read
          accepted      \* chains that took a transaction of the configured key

networkVars == <<stage, npx, interrupted, late>>
clientVars == <<step, chainID, accepted>>
vars == <<listener, networkVars, clientVars>>

Init ==
  /\ listener = Nobody
  /\ stage = [n \in Networks |-> "off"]
  /\ npx = [n \in Networks |-> "none"]
  /\ interrupted = {} /\ late = {}
  /\ step = [c \in Clients |-> "off"]
  /\ chainID = [c \in Clients |-> 0]
  /\ accepted = {}

(* big.Int.Int64: the lower 64 bits, read as a signed number. *)
Int64(number) == ((number + Word \div 2) % Word) - Word \div 2

(* The answer to eth_chainId, if there is one. *)
Answering == listener # Nobody /\ (listener \in Strangers => ChainOf[listener] # Silent)
Chain == IF listener \in Strangers THEN ChainOf[listener] ELSE localHardhatChainID
IsLocal(chain) == Int64(chain) = localHardhatChainID

(* A call fails or is answered; while a silent program holds the port it
   returns only because the context is done. *)
CallReturns(n) == n \in interrupted \/ listener = Nobody \/ Answering

-----------------------------------------------------------------------------
(* network: compile the contracts, start the node, wait for it, keep it. *)

At(n, from, to) == stage[n] = from /\ stage' = [stage EXCEPT ![n] = to]

Begin(n) ==
  /\ At(n, "off", "compile")
  /\ UNCHANGED <<listener, npx, interrupted, late, clientVars>>

Compile(n) ==
  /\ At(n, "compile", "reserve") \/ At(n, "compile", "ended")
  /\ UNCHANGED <<listener, npx, interrupted, late, clientVars>>

PortIsFree == listener = Nobody /\ \A n \in Networks : stage[n] # "reserved"

Reserve(n) ==
  /\ IF PortIsFree THEN At(n, "reserve", "reserved") ELSE At(n, "reserve", "ended")
  /\ UNCHANGED <<listener, npx, interrupted, late, clientVars>>

Release(n) ==
  /\ At(n, "reserved", "released")
  /\ UNCHANGED <<listener, npx, interrupted, late, clientVars>>

(* command.Start may fail, and does if the context is done. *)
StartNode(n) ==
  /\ \/ /\ n \notin interrupted
        /\ At(n, "released", "polling")
        /\ npx' = [npx EXCEPT ![n] = "running"]
     \/ At(n, "released", "ended") /\ UNCHANGED npx
  /\ UNCHANGED <<listener, interrupted, late, clientVars>>

Poll(n) ==
  /\ n \notin late
  /\ At(n, "polling", "calling")
  /\ UNCHANGED <<listener, npx, interrupted, late, clientVars>>

(* Faulty: the call does not know the context. *)
ChainIdReadUncancelled(n) ==
  /\ listener = Nobody \/ Answering
  /\ \/ Answering /\ IsLocal(Chain) /\ At(n, "calling", "ready")
     \/ At(n, "calling", "polling")
  /\ UNCHANGED <<listener, npx, interrupted, late, clientVars>>

(* Any node of the local chain will do, also that of another command. *)
ChainIdRead(n) ==
  /\ CallReturns(n)
  /\ \/ n \notin interrupted /\ Answering /\ IsLocal(Chain) /\ At(n, "calling", "ready")
     \/ At(n, "calling", "polling")
  /\ UNCHANGED <<listener, npx, interrupted, late, clientVars>>

GiveUp(n) ==
  /\ n \in late
  /\ At(n, "polling", "stopping")
  /\ UNCHANGED <<listener, npx, interrupted, late, clientVars>>

(* Faulty: returns the error before stop is deferred. *)
AccountsReadEarly(n) ==
  /\ CallReturns(n)
  /\ At(n, "ready", "serving") \/ At(n, "ready", "ended")
  /\ UNCHANGED <<listener, npx, interrupted, late, clientVars>>

(* An error, or no account, ends the command through the deferred stop. *)
AccountsRead(n) ==
  /\ CallReturns(n)
  /\ \/ n \notin interrupted /\ Answering /\ At(n, "ready", "serving")
     \/ At(n, "ready", "stopping")
  /\ UNCHANGED <<listener, npx, interrupted, late, clientVars>>

Serve(n) ==
  /\ n \in interrupted
  /\ At(n, "serving", "stopping")
  /\ UNCHANGED <<listener, npx, interrupted, late, clientVars>>

(* The process ends; its node may go with it or stay behind. *)
NpxEnds(n) ==
  /\ npx' = [npx EXCEPT ![n] = "dead"]
  /\ listener' \in (IF listener = n THEN {n, Nobody} ELSE {listener})

(* stop kills the process and waits for it. *)
StopNode(n) ==
  /\ At(n, "stopping", "ended")
  /\ NpxEnds(n)
  /\ UNCHANGED <<interrupted, late, clientVars>>

(* Ctrl C or SIGTERM; the command goes on until it looks at its context. *)
Interrupt(n) ==
  /\ stage[n] \notin {"off", "ended", "killed"}
  /\ interrupted' = interrupted \cup {n}
  /\ UNCHANGED <<listener, stage, npx, late, clientVars>>

Deadline(n) ==
  /\ n \notin late /\ stage[n] \in {"polling", "calling"}
  /\ late' = late \cup {n}
  /\ UNCHANGED <<listener, stage, npx, interrupted, clientVars>>

(* SIGKILL: nobody stops the process. *)
Killed(n) ==
  /\ stage[n] \notin {"off", "ended"}
  /\ stage' = [stage EXCEPT ![n] = "killed"]
  /\ UNCHANGED <<listener, npx, interrupted, late, clientVars>>

-----------------------------------------------------------------------------
(* issue, upgrade and the others: connect, check the balance, sign.  Each of
   these may fail and end the command. *)

Advance(c, from, to) == step[c] = from /\ step' = [step EXCEPT ![c] = to]

(* The node to use and the key come from .env and the environment. *)
LoadLocalConfig(c) ==
  /\ Advance(c, "off", "configured")
  /\ UNCHANGED <<listener, networkVars, chainID, accepted>>

Connect(c) ==
  /\ Answering /\ IsLocal(Chain)
  /\ Advance(c, "configured", "connected")
  /\ chainID' = [chainID EXCEPT ![c] = Chain]
  /\ UNCHANGED <<listener, networkVars, accepted>>

RequireFunds(c) ==
  /\ Answering
  /\ Advance(c, "connected", "signing")
  /\ UNCHANGED <<listener, networkVars, chainID, accepted>>

(* Faulty: signs for whatever chain there is. *)
SignForAny(c) ==
  /\ step[c] = "signing"
  /\ Answering
  /\ accepted' = accepted \cup {Chain}
  /\ UNCHANGED <<listener, networkVars, step, chainID>>

(* A signature names the chain ID that was read, and a node takes it only if
   that is its own. *)
Sign(c) ==
  /\ step[c] = "signing"
  /\ Answering
  /\ accepted' = accepted \cup ({Chain} \cap {chainID[c]})
  /\ UNCHANGED <<listener, networkVars, step, chainID>>

Leave(c) ==
  /\ step[c] \in {"configured", "connected", "signing"}
  /\ step' = [step EXCEPT ![c] = "ended"]
  /\ UNCHANGED <<listener, networkVars, chainID, accepted>>

-----------------------------------------------------------------------------
(* The node and the port (external). *)

NodeListens(n) ==
  /\ npx[n] = "running"
  /\ PortIsFree
  /\ listener' = n
  /\ UNCHANGED <<networkVars, clientVars>>

(* The process ends by itself, for want of the port or otherwise, or because
   exec.CommandContext kills it when the context is done. *)
NpxExits(n) ==
  /\ npx[n] = "running"
  /\ NpxEnds(n)
  /\ UNCHANGED <<stage, interrupted, late, clientVars>>

PortChangesHands ==
  /\ \/ PortIsFree /\ listener' \in Strangers
     \/ listener \in Strangers \cup {n \in Networks : npx[n] = "dead"} /\ listener' = Nobody
  /\ UNCHANGED <<networkVars, clientVars>>

-----------------------------------------------------------------------------
CommandStep(n) ==
  \/ Compile(n) \/ Reserve(n) \/ Release(n) \/ StartNode(n) \/ Poll(n) \/ ChainIdRead(n)
  \/ GiveUp(n) \/ AccountsRead(n) \/ Serve(n) \/ StopNode(n)

Next ==
  \/ \E n \in Networks :
       Begin(n) \/ CommandStep(n) \/ Interrupt(n) \/ Deadline(n) \/ Killed(n) \/ NodeListens(n) \/ NpxExits(n)
  \/ \E c \in Clients : LoadLocalConfig(c) \/ Connect(c) \/ RequireFunds(c) \/ Sign(c) \/ Leave(c)
  \/ PortChangesHands

Spec == Init /\ [][Next]_vars

(* A command that can go on does, and the clock runs. *)
FairSpec == Spec /\ \A n \in Networks : WF_vars(CommandStep(n)) /\ WF_vars(Deadline(n))

-----------------------------------------------------------------------------
(* On whatever path runNetwork returns, an interrupt, a late node, an error of
   one of the calls, the process it started has been killed and waited for. *)
NoProcessLeft == \A n \in Networks : stage[n] = "ended" => npx[n] # "running"

(* An interrupt ends the command, wherever it reaches it and whoever holds the
   port: startHardhat does not look at its context, but its calls and the
   deadline do not let it wait forever. *)
InterruptEnds == \A n \in Networks : n \in interrupted ~> stage[n] \in {"ended", "killed"}

(* A chain whose ID fits into 64 bits takes transactions of the configured key
   only if it is the local one, although the node that answered connectHardhat
   may have been replaced since. *)
KeyStaysLocal == \A chain \in accepted : chain < Word => chain = localHardhatChainID
=============================================================================
