-------------------------- MODULE RefundSubmitter --------------------------
(***************************************************************************)
(* The submitter of the refunder (crates/refunder/src/submitter.rs) and    *)
(* the node's pool of transactions of its account.  A submission uses the  *)
(* nonce of the last block; while the previous one is not mined, both fees *)
(* are raised so that the node takes the replacement.                      *)
(*                                                                         *)
(* Fees are integers: factors are applied rounding down.                   *)
(***************************************************************************)
EXTENDS Integers

CONSTANTS
  Uid,             \* orders
  Estimate,        \* max_fee_per_gas of the gas estimator
  MAX_GAS_PRICE, START_PRIORITY_FEE_TIP

\* Rounding must not eat the 10 percent that nodes ask for; below 40 it could.
ASSUME FeeAssumption ==
  /\ Estimate \subseteq Nat /\ \A e \in Estimate : e >= 40
  /\ START_PRIORITY_FEE_TIP \in Nat /\ START_PRIORITY_FEE_TIP >= 40
  /\ MAX_GAS_PRICE \in Nat /\ MAX_GAS_PRICE >= 40

VARIABLES
  last,      \* nonce_of_last_submission and gas_parameters_of_last_tx
  pending,   \* node: transactions that wait in its pool
  lost       \* history: why the memory may be behind the pool

submitter == <<last, pending, lost>>

NoSubmission == [nonce |-> -1, fee |-> 0, tip |-> 0]

MinOf(x, y) == IF x < y THEN x ELSE y
MaxOf(x, y) == IF x > y THEN x ELSE y

GAS_PRICE_BUFFER(fee) == (13 * fee) \div 10
GAS_PRICE_BUMP(fee) == (9 * fee) \div 8

calculate_submission_gas_price(estimate, nonce) ==
  LET fee == GAS_PRICE_BUFFER(estimate)
      tip == MinOf(START_PRIORITY_FEE_TIP, fee)
      again == nonce = last.nonce
      raised == IF again THEN MaxOf(fee, GAS_PRICE_BUMP(last.fee)) ELSE fee
      capped == MinOf(raised, MAX_GAS_PRICE)
      raised_tip == IF again THEN MaxOf(tip, GAS_PRICE_BUMP(last.tip)) ELSE tip
  IN  [nonce |-> nonce, fee |-> capped, tip |-> MinOf(raised_tip, capped)]

\* The node replaces a transaction for at least 10 percent more.
Replaces(gas, tx) == 10 * gas.fee >= 11 * tx.fee /\ 10 * gas.tip >= 11 * tx.tip

SameNonce(nonce) == {tx \in pending : tx.nonce = nonce}

----------------------------------------------------------------------------

SubmitterInit == last = NoSubmission /\ pending = {} /\ lost = {}

\* Mutant of Submit: remembered once the node answers, not when the answer is lost.
SubmitRememberLate(uids, estimate, nonce, mined) ==
  LET gas == calculate_submission_gas_price(estimate, nonce)
      tx == [nonce |-> gas.nonce, fee |-> gas.fee, tip |-> gas.tip, uids |-> uids]
      taken == nonce = mined /\ \A old \in SameNonce(nonce) : Replaces(gas, old)
  IN  /\ last' \in {last, gas}
      /\ pending' \in {pending} \cup IF taken THEN {(pending \ SameNonce(nonce)) \cup {tx}}
                                              ELSE {}
      /\ UNCHANGED lost

\* Submitter::submit: the gas price is remembered before the node answers.  The
\* node takes the transaction, rejects it as underpriced or already mined, or
\* cannot be reached; every answer is logged and forgotten.
Submit(uids, estimate, nonce, mined) ==
  LET gas == calculate_submission_gas_price(estimate, nonce)
      tx == [nonce |-> gas.nonce, fee |-> gas.fee, tip |-> gas.tip, uids |-> uids]
      taken == nonce = mined /\ \A old \in SameNonce(nonce) : Replaces(gas, old)
  IN  /\ last' = gas
      /\ pending' \in {pending} \cup IF taken THEN {(pending \ SameNonce(nonce)) \cup {tx}}
                                              ELSE {}
      /\ UNCHANGED lost

\* A transaction is mined.  The memory is of use again when none is left.
Mined(tx) ==
  /\ pending' = pending \ SameNonce(tx.nonce)
  /\ lost' = IF pending' = {} THEN {} ELSE lost
  /\ UNCHANGED last

\* Its block is reorganised away: it waits again, next to a later submission.
Unmined(tx) ==
  /\ pending' = pending \cup {tx}
  /\ lost' = lost \cup {"reorg"}
  /\ UNCHANGED last

\* The refunder restarts without the memory of its last submission.
RestartSubmitter ==
  /\ last' = NoSubmission
  /\ lost' = IF pending = {} THEN lost ELSE lost \cup {"restart"}
  /\ UNCHANGED pending

============================================================================
