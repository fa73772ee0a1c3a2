------------------------------ MODULE Mempools ------------------------------
(***************************************************************************)
(* Execution of settlements through the configured mempools                *)
(* (crates/driver/src/domain/mempools.rs): every mempool has a task that   *)
(* submits the transaction, watches it from block to block and cancels it  *)
(* when it expires or starts to revert; the first success wins.            *)
(*                                                                         *)
(* All transactions are sent from the solver's account with the account's  *)
(* next nonce, so a cancellation competes with the transaction it cancels. *)
(* Gas price and calldata are the same everywhere: a settlement's          *)
(* transaction hash depends on its nonce only.                             *)
(***************************************************************************)
EXTENDS Integers

CONSTANTS
  Auction,    \* ids of auctions; a settlement is named by its auction
  MayRevert,  \* settlements with interactions that can start to fail
  Mempool,
  Public,     \* mempools that include reverting transactions
  MaxBlock    \* bound: no new block from here on, unless awaited

ASSUME AuctionAssumption == Auction \subseteq Nat \ {0} /\ MayRevert \subseteq Auction
ASSUME MempoolAssumption == Mempool # {} /\ Public \subseteq Mempool
ASSUME MaxBlockAssumption == MaxBlock \in Nat

VARIABLES
  block,     \* current_block of the driver
  nonce,     \* chain: transactions of the account mined so far
  sent,      \* transactions some mempool has received
  executed,  \* chain: transactions with a receipt of status 1
  reverted,  \* chain: transactions with a receipt of status 0
  deadline,  \* [Auction -> Nat]: submission_deadline of execute
  result,    \* [Auction -> ...]: what execute returned
  task       \* [Auction -> [Mempool -> ...]]: the futures of submit

chain == <<nonce, sent, executed, reverted>>
mempoolVars == <<block, chain, deadline, result, task>>

Cancellation == 0   \* a transaction of the account to itself

Tx == [of : Auction \cup {Cancellation}, nonce : Nat]
Errors == {"expired", "sim_revert", "other"}
Pcs == {"idle", "submit", "wait", "status", "simulate", "cancel", "look", "ok", "err"}
Task == [pc : Pcs, seen : Nat, hash : Nat, error : Errors \cup {"none"}]

NoTask == [pc |-> "idle", seen |-> 0, hash |-> 0, error |-> "none"]

MempoolsInit ==
  /\ block = 1 /\ nonce = 0
  /\ sent = {} /\ executed = {} /\ reverted = {}
  /\ deadline = [s \in Auction |-> 0]
  /\ result = [s \in Auction |-> "none"]
  /\ task = [s \in Auction |-> [m \in Mempool |-> NoTask]]

----------------------------------------------------------------------------
(* The chain and its mempools; a new block comes in any case if one is     *)
(* awaited.                                                                *)

NewBlock(awaited) ==
  /\ block < MaxBlock \/ awaited
  /\ block' = block + 1
  /\ UNCHANGED <<chain, deadline, result, task>>

\* Of the transactions with the account's next nonce any one may be mined,
\* seen by the node before the driver polls the block.
Mine(tx) ==
  /\ tx.nonce = nonce
  /\ nonce' = nonce + 1
  /\ \/ /\ \A e \in executed : e.of = tx.of => tx.of = Cancellation
        /\ executed' = executed \cup {tx}
        /\ UNCHANGED reverted
     \/ /\ tx.of # Cancellation
        /\ reverted' = reverted \cup {tx}
        /\ UNCHANGED executed
  /\ UNCHANGED <<block, sent, deadline, result, task>>

----------------------------------------------------------------------------
(* Mempools::submit, one task per settlement and mempool.                  *)

RevertProtection == Mempool # Public

Running(s, m) == result[s] = "running" /\ task[s][m].pc \notin {"ok", "err"}

At(s, m, pc) == Running(s, m) /\ task[s][m].pc = pc

Becomes(s, m, t) ==
  /\ task' = [task EXCEPT ![s][m] = t]
  /\ UNCHANGED <<block, deadline, result>>

\* Some task waits for the next block.
Awaited == \E s \in Auction, m \in Mempool : At(s, m, "wait") /\ task[s][m].seen = block

\* Risky settlements stay out of public mempools; block_stream skips the current block.
Starts(s, m) ==
  IF s \in MayRevert /\ RevertProtection /\ m \in Public
    THEN [NoTask EXCEPT !.pc = "err", !.error = "other"]
    ELSE [NoTask EXCEPT !.pc = "submit", !.seen = block]

Execute(s, submission_deadline) ==
  /\ result[s] = "none"
  /\ result' = [result EXCEPT ![s] = "running"]
  /\ deadline' = [deadline EXCEPT ![s] = submission_deadline]
  /\ task' = [task EXCEPT ![s] = [m \in Mempool |-> Starts(s, m)]]
  /\ UNCHANGED <<block, chain>>

SubmitTx(s, m) ==
  /\ At(s, m, "submit")
  /\ sent' = sent \cup {[of |-> s, nonce |-> nonce]}
  /\ Becomes(s, m, [task[s][m] EXCEPT !.pc = "wait", !.hash = nonce])
  /\ UNCHANGED <<nonce, executed, reverted>>

\* The node refuses the transaction, or its answer is lost.
SubmitFails(s, m) ==
  /\ At(s, m, "submit")
  /\ sent' \in {sent, sent \cup {[of |-> s, nonce |-> nonce]}}
  /\ Becomes(s, m, [NoTask EXCEPT !.pc = "err", !.error = "other"])
  /\ UNCHANGED <<nonce, executed, reverted>>

\* The stream yields the newest block, not every block.
SeeBlock(s, m) ==
  /\ At(s, m, "wait")
  /\ task[s][m].seen < block
  /\ Becomes(s, m, [task[s][m] EXCEPT !.pc = "status", !.seen = block])
  /\ UNCHANGED chain

Hash(s, m) == [of |-> s, nonce |-> task[s][m].hash]

SeeExecuted(s, m) ==
  /\ At(s, m, "status")
  /\ Hash(s, m) \in executed
  /\ Becomes(s, m, [NoTask EXCEPT !.pc = "ok"])
  /\ UNCHANGED chain

SeeReverted(s, m) ==
  /\ At(s, m, "status")
  /\ Hash(s, m) \in reverted
  /\ Becomes(s, m, [task[s][m] EXCEPT !.pc = "look", !.seen = 0, !.error = "other"])
  /\ UNCHANGED chain

\* No receipt yet, or the request failed.
SeePending(s, m) ==
  /\ At(s, m, "status")
  /\ IF task[s][m].seen >= deadline[s]
       THEN Becomes(s, m, [task[s][m] EXCEPT !.pc = "cancel", !.seen = 0, !.error = "expired"])
       ELSE Becomes(s, m, [task[s][m] EXCEPT !.pc = "simulate"])
  /\ UNCHANGED chain

\* estimate_gas succeeds or fails for another reason than a revert.
StillSimulates(s, m) ==
  /\ At(s, m, "simulate")
  /\ Becomes(s, m, [task[s][m] EXCEPT !.pc = "wait"])
  /\ UNCHANGED chain

\* Mutant of StartsReverting: without the cancellation.
StartsRevertingOnly(s, m) ==
  /\ At(s, m, "simulate")
  /\ Becomes(s, m, [task[s][m] EXCEPT !.pc = "look", !.seen = 0, !.error = "sim_revert"])
  /\ UNCHANGED chain

StartsReverting(s, m) ==
  /\ At(s, m, "simulate")
  /\ Becomes(s, m, [task[s][m] EXCEPT !.pc = "cancel", !.seen = 0, !.error = "sim_revert"])
  /\ UNCHANGED chain

Cancel(s, m) ==
  /\ At(s, m, "cancel")
  /\ sent' = sent \cup {[of |-> Cancellation, nonce |-> nonce]}
  /\ Becomes(s, m, [task[s][m] EXCEPT !.pc = "look"])
  /\ UNCHANGED <<nonce, executed, reverted>>

CancelFails(s, m) ==
  /\ At(s, m, "cancel")
  /\ sent' \in {sent, sent \cup {[of |-> Cancellation, nonce |-> nonce]}}
  /\ Becomes(s, m, [task[s][m] EXCEPT !.pc = "look", !.error = "other"])
  /\ UNCHANGED <<nonce, executed, reverted>>

\* Mutant of FindConfirmed: any receipt will do.
FindReceipt(s, m) ==
  /\ At(s, m, "look")
  /\ Hash(s, m) \in executed \cup reverted
  /\ Becomes(s, m, [NoTask EXCEPT !.pc = "ok"])
  /\ UNCHANGED chain

\* One last attempt to see if the transaction was confirmed.
FindConfirmed(s, m) ==
  /\ At(s, m, "look")
  /\ Hash(s, m) \in executed
  /\ Becomes(s, m, [NoTask EXCEPT !.pc = "ok"])
  /\ UNCHANGED chain

\* Mutant of GiveUp: the last attempt waits for a receipt.
GiveUpOnReceipt(s, m) ==
  /\ At(s, m, "look")
  /\ Hash(s, m) \in reverted
  /\ Becomes(s, m, [task[s][m] EXCEPT !.pc = "err"])
  /\ UNCHANGED chain

\* It was not, or the request failed.
GiveUp(s, m) ==
  /\ At(s, m, "look")
  /\ Becomes(s, m, [task[s][m] EXCEPT !.pc = "err"])
  /\ UNCHANGED chain

Submit(s, m) ==
  \/ SubmitTx(s, m) \/ SubmitFails(s, m)
  \/ SeeBlock(s, m) \/ SeeExecuted(s, m) \/ SeeReverted(s, m) \/ SeePending(s, m)
  \/ StillSimulates(s, m) \/ StartsReverting(s, m)
  \/ Cancel(s, m) \/ CancelFails(s, m)
  \/ FindConfirmed(s, m) \/ GiveUp(s, m)

----------------------------------------------------------------------------
(* The end of Mempools::execute.                                           *)

\* select_ok: futures that have not completed are dropped.
Returns(s, r) ==
  /\ result[s] = "running"
  /\ \/ r = "ok" /\ \E m \in Mempool : task[s][m].pc = "ok"
     \/ r = "err" /\ \A m \in Mempool : task[s][m].pc = "err"
     \/ r = "dropped"   \* with the request's connection or the process
  /\ result' = [result EXCEPT ![s] = r]
  /\ task' = [task EXCEPT ![s] = [m \in Mempool |-> NoTask]]
  /\ deadline' = [deadline EXCEPT ![s] = 0]
  /\ UNCHANGED <<block, chain>>

----------------------------------------------------------------------------
(* Properties.                                                             *)

MempoolsTypeOK ==
  /\ block \in Nat /\ nonce \in Nat
  /\ sent \subseteq Tx
  /\ executed \subseteq sent /\ reverted \subseteq sent
  /\ deadline \in [Auction -> Nat]
  /\ result \in [Auction -> {"none", "running", "ok", "err", "dropped"}]
  /\ task \in [Auction -> [Mempool -> Task]]

\* "tx not confirmed in time, cancelling", "tx started failing in mempool,
\* cancelling": a task that reports its settlement as expired or reverting does
\* not leave the transaction alone in a mempool; if the transaction can still be
\* mined, a cancellation competes with it.
ExpiredIsCancelled ==
  \A s \in Auction, m \in Mempool :
    LET t == task[s][m] IN
      t.pc = "err" /\ t.error \in {"expired", "sim_revert"} /\ t.hash >= nonce =>
        [of |-> Cancellation, nonce |-> t.hash] \in sent
============================================================================
