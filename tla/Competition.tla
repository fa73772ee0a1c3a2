---------------------------- MODULE Competition ----------------------------
(***************************************************************************)
(* The driver's side of an auction                                         *)
(* (crates/driver/src/domain/competition/mod.rs) and the calls of the      *)
(* autopilot's single_run: /solve computes a settlement and keeps it in a  *)
(* slot, /reveal shows the slot, /settle empties the slot and executes     *)
(* what was in it.  /reveal and /settle do not look at the id they get.    *)
(*                                                                         *)
(* A settlement is named by its auction.  The autopilot gives up on a      *)
(* request when it times out by its own clock; the handler goes on until   *)
(* the driver's clock says so or the driver notices that the connection is *)
(* closed, which it cannot while the handler computes (merging, scoring).  *)
(***************************************************************************)
EXTENDS Integers

CONSTANT MaxAuction   \* bound: the last auction

ASSUME MaxAuctionAssumption == MaxAuction \in Nat

VARIABLES
  slot,    \* Competition::settlement, an Option: a set with at most one member
  solve,   \* [1..MaxAuction -> ...]: the /solve handlers
  pc, id,  \* the autopilot: its step and auction
  block_deadline,  \* the autopilot: submission deadline of the auction
  saved,   \* database: auctions whose competition is saved
  taken,   \* history: /settle requests and the settlements executed for them
  voided,  \* history: settlements that failed re-simulation
  late,    \* history: handlers that changed the slot after the autopilot gave up
  told     \* history: auctions whose /settle was answered with success

handlers == <<slot, solve, voided, late>>
autopilot == <<pc, id, block_deadline, saved, told>>
competitionVars == <<slot, solve, pc, id, block_deadline, saved, taken, voided, late, told>>

CompetitionInit ==
  /\ slot = {} /\ solve = [a \in 1..MaxAuction |-> "none"]
  /\ pc = "idle" /\ id = 0 /\ block_deadline = 0
  /\ saved = {} /\ taken = {} /\ voided = {} /\ late = {} /\ told = {}

----------------------------------------------------------------------------
(* Competition::solve.                                                     *)

Expected(a) == pc = "compete" /\ a = id

Late(a) == {b \in {a} : ~Expected(a)}

\* The solver failed or timed out; the slot stays as it is.
SolverFails(a) ==
  /\ solve[a] = "running"
  /\ solve' = [solve EXCEPT ![a] = "failed"]
  /\ UNCHANGED <<slot, voided, late, autopilot, taken>>

\* The best settlement replaces the slot, also if there is none.
Store(a, found) ==
  /\ solve[a] = "running"
  /\ slot' = found
  /\ solve' = [solve EXCEPT ![a] = IF found = {} THEN "failed" ELSE "simulate"]
  /\ late' = late \cup Late(a)
  /\ UNCHANGED <<voided, autopilot, taken>>

\* Mutant of Void: the settlement stays in the slot.
VoidScoreOnly(a) ==
  /\ solve[a] = "simulate"
  /\ solve' = [solve EXCEPT ![a] = "failed"]
  /\ voided' = voided \cup {a}
  /\ UNCHANGED <<slot, late, autopilot, taken>>

\* The settlement reverts in a new block: the slot is emptied, whoever filled it.
Void(a) ==
  /\ solve[a] = "simulate"
  /\ slot' = {}
  /\ solve' = [solve EXCEPT ![a] = "failed"]
  /\ voided' = voided \cup {a}
  /\ late' = late \cup Late(a)
  /\ UNCHANGED <<autopilot, taken>>

\* The driver's deadline ends the re-simulation.
Solved(a) ==
  /\ solve[a] = "simulate"
  /\ solve' = [solve EXCEPT ![a] = "solved"]
  /\ UNCHANGED <<slot, voided, late, autopilot, taken>>

\* The driver notices that nobody waits for the handler.
DropSolve(a) ==
  /\ solve[a] \in {"running", "simulate"}
  /\ ~Expected(a)
  /\ solve' = [solve EXCEPT ![a] = "failed"]
  /\ UNCHANGED <<slot, voided, late, autopilot, taken>>

Restarted ==
  /\ slot' = {}
  /\ solve' = [a \in 1..MaxAuction |->
                 IF solve[a] \in {"running", "simulate"} THEN "failed" ELSE solve[a]]
  /\ UNCHANGED <<voided, late, autopilot, taken>>

----------------------------------------------------------------------------
(* The autopilot's auction, and the other two handlers.                    *)

StartAuction ==
  /\ pc = "idle"
  /\ id < MaxAuction
  /\ id' = id + 1
  /\ pc' = "compete"
  /\ solve' = [solve EXCEPT ![id + 1] = "running"]
  /\ UNCHANGED <<slot, voided, late, block_deadline, saved, taken, told>>

\* The driver wins with the solution it returned.
Win(submission_deadline) ==
  /\ pc = "compete"
  /\ solve[id] = "solved"
  /\ pc' = "reveal"
  /\ block_deadline' = submission_deadline
  /\ UNCHANGED <<handlers, id, saved, taken, told>>

\* Competition::reveal answers with the slot, if it is not empty.
Reveals(s) == slot = {s}

\* The calldata must end with the id of this auction, else AuctionMismatch.
Reveal ==
  /\ pc = "reveal"
  /\ Reveals(id)
  /\ pc' = "save"
  /\ UNCHANGED <<handlers, id, block_deadline, saved, taken, told>>

\* Mutant of Save: an error is logged and the auction goes on.
SaveIgnoringErrors ==
  /\ pc = "save"
  /\ saved' \in {saved, saved \cup {id}}
  /\ pc' = "settle"
  /\ UNCHANGED <<handlers, id, block_deadline, taken, told>>

Save ==
  /\ pc = "save"
  /\ saved' = saved \cup {id}
  /\ pc' = "settle"
  /\ UNCHANGED <<handlers, id, block_deadline, taken, told>>

\* Another driver wins; a request fails or times out; a write fails; the
\* settlement is found on chain or its deadline passes; the autopilot restarts.
Abandon ==
  /\ pc # "idle"
  /\ pc' = "idle"
  /\ UNCHANGED <<handlers, id, block_deadline, saved, taken, told>>

\* Competition::settle up to the execution: Option::take.
Take(s) ==
  /\ pc = "settle"
  /\ slot = {s}
  /\ slot' = {}
  /\ taken' = taken \cup {[asked |-> id, settlement |-> s]}
  /\ pc' = "wait"
  /\ UNCHANGED <<solve, voided, late, id, block_deadline, saved, told>>

\* The driver answers the request that the autopilot waits for.
Answer(s, r) ==
  /\ [asked |-> id, settlement |-> s] \in taken
  /\ pc = "wait"
  /\ pc' = "idle"
  /\ told' = IF r = "ok" THEN told \cup {id} ELSE told
  /\ UNCHANGED <<handlers, id, block_deadline, saved, taken>>

----------------------------------------------------------------------------
(* Properties.                                                             *)

CompetitionTypeOK ==
  /\ slot \subseteq 1..MaxAuction /\ \A a, b \in slot : a = b
  /\ solve \in [1..MaxAuction -> {"none", "running", "simulate", "solved", "failed"}]
  /\ pc \in {"idle", "compete", "reveal", "save", "settle", "wait"}
  /\ id \in 0..MaxAuction
  /\ block_deadline \in Nat
  /\ saved \subseteq 1..MaxAuction
  /\ taken \subseteq [asked : 1..MaxAuction, settlement : 1..MaxAuction]
  /\ voided \subseteq 1..MaxAuction
  /\ late \subseteq 1..MaxAuction
  /\ told \subseteq 1..MaxAuction

\* "The auction that should be executed is identified through its id": /settle
\* executes the settlement of the auction asked for, whose competition has been saved,
\* as long as no /solve handler touches the slot after the autopilot gave up on it.
SettlesWhatWasSaved ==
  late = {} => \A t \in taken : t.settlement = t.asked /\ t.settlement \in saved

\* A settlement that failed re-simulation ("winner voided") is not executed
\* afterwards, whichever handlers of other auctions run beside it.
VoidedNotExecuted ==
  [][\A t \in taken' \ taken : t.settlement \notin voided]_competitionVars
============================================================================
