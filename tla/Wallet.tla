------------------------------- MODULE Wallet -------------------------------
(***************************************************************************)
(* Wallets, their ledger of transactions, recharges through the payment    *)
(* gateway, withdrawals, transfers and refunds:                            *)
(* app/services/wallet_service.py, with the webhook handlers of            *)
(* app/services/razorpay_webhook_service.py and                            *)
(* app/api/webhooks/razorpay.py.                                           *)
(*                                                                         *)
(* Every operation that moves money locks the rows it reads before it      *)
(* decides, so it is one action.  initiate_refund decides on unlocked      *)
(* reads and inserts afterwards: two actions.  The older webhook endpoint  *)
(* credits, looks a row up and overwrites its status: three actions.       *)
(***************************************************************************)
EXTENDS Integers, Sequences, FiniteSets

CONSTANTS
    User,           \* wallets, one per user
    Order,          \* recharge orders of the gateway
    Payment,        \* the gateway's ids of payments made for orders
    Withdrawal,     \* primary keys of wallet_withdrawal_requests
    Refund,         \* primary keys of refunds
    Clerk,          \* callers of initiate_refund that run concurrently
    Amount,         \* sums of money, in minor units
    MaxTxn,         \* bound on the length of the ledger
    Hooks,          \* webhook handlers in use besides the canonical one
    Null            \* SQL NULL

ASSUME AmountAssumption == Amount \subseteq Nat \ {0}

ASSUME BoundAssumption == MaxTxn \in Nat

ASSUME HooksAssumption == Hooks \subseteq {"legacy", "refund_events"}

VARIABLES
    balance,        \* Wallet.balance
    txn,            \* the transactions table, oldest first
    gateway,        \* per order, the webhook events the gateway sends, again and again
    paid,           \* per order, razorpay_payment_id of its recharge intent
    looking,        \* credits of the older endpoint that has yet to look the intent up
    marking,        \* orders whose intent it is about to set to success
    withdrawal,     \* the wallet_withdrawal_requests table
    refund,         \* the refunds table
    call            \* what each clerk's initiate_refund has read

hookVars == <<gateway, paid, looking, marking>>

vars == <<balance, txn, hookVars, withdrawal, refund, call>>

\* The status column; "marked" is a status of success beside the description of
\* an intent, which apply_recharge_capture would have overwritten.
Status == {"pending", "success", "marked", "failed"}

\* category and reference_type in one
Category == {"deposit", "payment", "recharge", "hold", "reversal", "transfer", "refund"}

Reference == Order \cup Payment \cup Withdrawal \cup Refund \cup {Null}

Event == {"payment.failed", "payment.captured"} \X Payment

TxnRow == [user : User, type : {"credit", "debit"}, category : Category, ref : Reference,
           amount : Amount, status : Status]

WithdrawalRow == [status : {"none", "requested", "processed", "rejected"},
                  user : User \cup {Null}, amount : Amount \cup {0}]

RefundRow == [status : {"none", "pending", "processed", "failed"}, txn : 0 .. MaxTxn,
              amount : Amount \cup {0}]

NoWithdrawal == [status |-> "none", user |-> Null, amount |-> 0]

NoRefund == [status |-> "none", txn |-> 0, amount |-> 0]

-----------------------------------------------------------------------------
(* The ledger.                                                             *)

Row(u, type, category, ref, a, status) ==
    [user |-> u, type |-> type, category |-> category, ref |-> ref, amount |-> a, status |-> status]

HasRoom(n) == Len(txn) + n <= MaxTxn

\* The row of a recharge intent or of a withdrawal's hold.
Is(i, category, ref) == txn[i].category = category /\ txn[i].ref = ref

Successful(i) == txn[i].status \in {"success", "marked"}

\* The ledger with the status, and the amount, of one row overwritten.
Settled(i, status, a) ==
    [txn EXCEPT ![i] = Row(txn[i].user, txn[i].type, txn[i].category, txn[i].ref, a, status)]

Credit(u, a) == balance' = [balance EXCEPT ![u] = balance[u] + a]

Debit(u, a) == /\ balance[u] >= a
               /\ balance' = [balance EXCEPT ![u] = balance[u] - a]

-----------------------------------------------------------------------------
(* Plain credits, debits and transfers.                                    *)

\* add_balance, apply_cashback
AddBalance(u, a) ==
    /\ HasRoom(1)
    /\ Credit(u, a)
    /\ txn' = Append(txn, Row(u, "credit", "deposit", Null, a, "success"))
    /\ UNCHANGED <<hookVars, withdrawal, refund, call>>

\* Mutant: the balance is not compared with the amount.
DeductBalance_overdraft(u, a) ==
    /\ HasRoom(1)
    /\ balance' = [balance EXCEPT ![u] = balance[u] - a]
    /\ txn' = Append(txn, Row(u, "debit", "payment", Null, a, "success"))
    /\ UNCHANGED <<hookVars, withdrawal, refund, call>>

DeductBalance(u, a) ==
    /\ HasRoom(1)
    /\ Debit(u, a)
    /\ txn' = Append(txn, Row(u, "debit", "payment", Null, a, "success"))
    /\ UNCHANGED <<hookVars, withdrawal, refund, call>>

\* transfer_balance, both wallets locked in the order of their ids
TransferBalance(u, v, a) ==
    /\ HasRoom(2)
    /\ u # v
    /\ balance[u] >= a
    /\ balance' = [balance EXCEPT ![u] = balance[u] - a, ![v] = balance[v] + a]
    /\ txn' = txn \o << Row(u, "debit", "transfer", Null, a, "success"),
                        Row(v, "credit", "transfer", Null, a, "success") >>
    /\ UNCHANGED <<hookVars, withdrawal, refund, call>>

-----------------------------------------------------------------------------
(* Recharges.                                                              *)

\* An order that already has its intent is answered with that intent.
CreateRechargeIntent(u, o, a) ==
    /\ HasRoom(1)
    /\ \A i \in DOMAIN txn : ~Is(i, "recharge", o)
    /\ txn' = Append(txn, Row(u, "credit", "recharge", o, a, "pending"))
    /\ UNCHANGED <<balance, hookVars, withdrawal, refund, call>>

\* The gateway declines or captures a payment of the order, and may capture one
\* it had declined.  The events may be delivered any number of times, in any
\* order.
GatewaySends(o, event) ==
    /\ event \notin gateway[o]
    /\ \A other \in Order \ {o} : \A sent \in gateway[other] : sent[2] # event[2]
    /\ gateway' = [gateway EXCEPT ![o] = @ \cup {event}]
    /\ UNCHANGED <<balance, txn, paid, looking, marking, withdrawal, refund, call>>

\* Mutant: without the idempotency guard.
ApplyRechargeCapture_again(o, p, a) ==
    /\ <<"payment.captured", p>> \in gateway[o]
    /\ \E i \in DOMAIN txn :
          /\ Is(i, "recharge", o)
          /\ Credit(txn[i].user, a)
          /\ txn' = Settled(i, "success", a)
    /\ paid' = [paid EXCEPT ![o] = p]
    /\ UNCHANGED <<gateway, looking, marking, withdrawal, refund, call>>

\* _handle_payment_captured and apply_recharge_capture.  Without an intent the
\* event is ignored; a successful intent is returned as it is.
ApplyRechargeCapture(o, p, a) ==
    /\ <<"payment.captured", p>> \in gateway[o]
    /\ \E i \in DOMAIN txn :
          /\ Is(i, "recharge", o)
          /\ ~Successful(i)
          /\ Credit(txn[i].user, a)
          /\ txn' = Settled(i, "success", a)
    /\ paid' = [paid EXCEPT ![o] = p]
    /\ UNCHANGED <<gateway, looking, marking, withdrawal, refund, call>>

\* Mutant: a late failure event overrides the capture.
MarkRechargeIntentFailed_late(o, p) ==
    /\ <<"payment.failed", p>> \in gateway[o]
    /\ \E i \in DOMAIN txn :
          /\ Is(i, "recharge", o)
          /\ txn' = Settled(i, "failed", txn[i].amount)
    /\ paid' = [paid EXCEPT ![o] = p]
    /\ UNCHANGED <<balance, gateway, looking, marking, withdrawal, refund, call>>

\* _handle_payment_failed and mark_recharge_intent_failed, which also writes
\* the id of the failed payment into the intent.
MarkRechargeIntentFailed(o, p) ==
    /\ <<"payment.failed", p>> \in gateway[o]
    /\ \E i \in DOMAIN txn :
          /\ Is(i, "recharge", o)
          /\ ~Successful(i)
          /\ txn' = Settled(i, "failed", txn[i].amount)
    /\ paid' = [paid EXCEPT ![o] = p]
    /\ UNCHANGED <<balance, gateway, looking, marking, withdrawal, refund, call>>

\* razorpay_webhook_event: POST /api/webhooks/razorpay credits the user named in
\* the payment's notes with add_balance, whatever the order's intent says, and
\* puts the payment id into the description.
LegacyCapture(u, o, p, a) ==
    /\ "legacy" \in Hooks
    /\ <<"payment.captured", p>> \in gateway[o]
    /\ HasRoom(1)
    /\ Credit(u, a)
    /\ txn' = Append(txn, Row(u, "credit", "deposit", p, a, "success"))
    /\ looking' = looking \cup {Len(txn) + 1}
    /\ UNCHANGED <<gateway, paid, marking, withdrawal, refund, call>>

\* After that commit it selects, without a lock, the row that carries the payment
\* id: the intent of an order whose payment was captured or has failed.  One that
\* is successful already is not written again.
LegacyLookup(k) ==
    /\ k \in looking
    /\ looking' = looking \ {k}
    /\ marking' = marking \cup {o \in Order : /\ paid[o] = txn[k].ref
                                             /\ \E i \in DOMAIN txn : Is(i, "recharge", o) /\ ~Successful(i)}
    /\ UNCHANGED <<balance, txn, gateway, paid, withdrawal, refund, call>>

\* Its second commit sets the status alone, whatever it has become meanwhile.
LegacyMark(o) ==
    /\ o \in marking
    /\ marking' = marking \ {o}
    /\ \E i \in DOMAIN txn :
          /\ Is(i, "recharge", o)
          /\ txn' = IF Successful(i) THEN txn ELSE Settled(i, "marked", txn[i].amount)
    /\ UNCHANGED <<balance, gateway, paid, looking, withdrawal, refund, call>>

-----------------------------------------------------------------------------
(* Withdrawals.                                                            *)

RequestWithdrawal(u, w, a) ==
    /\ HasRoom(1)
    /\ withdrawal[w].status = "none"
    /\ Debit(u, a)
    /\ withdrawal' = [withdrawal EXCEPT ![w] = [status |-> "requested", user |-> u, amount |-> a]]
    /\ txn' = Append(txn, Row(u, "debit", "hold", w, a, "pending"))
    /\ UNCHANGED <<hookVars, refund, call>>

Decided(w, status) ==
    [withdrawal EXCEPT ![w] = [status |-> status, user |-> withdrawal[w].user,
                               amount |-> withdrawal[w].amount]]

\* Mutant: the request's status is not looked at, so a rejected one is paid out.
ApproveWithdrawal_anyStatus(w) ==
    /\ withdrawal[w].status # "none"
    /\ \E i \in DOMAIN txn : Is(i, "hold", w) /\ txn' = Settled(i, "success", txn[i].amount)
    /\ withdrawal' = Decided(w, "processed")
    /\ UNCHANGED <<balance, hookVars, refund, call>>

ApproveWithdrawal(w) ==
    /\ withdrawal[w].status = "requested"
    /\ \E i \in DOMAIN txn : Is(i, "hold", w) /\ txn' = Settled(i, "success", txn[i].amount)
    /\ withdrawal' = Decided(w, "processed")
    /\ UNCHANGED <<balance, hookVars, refund, call>>

RejectWithdrawal(w) ==
    /\ HasRoom(1)
    /\ withdrawal[w].status = "requested"
    /\ Credit(withdrawal[w].user, withdrawal[w].amount)
    /\ \E i \in DOMAIN txn :
          /\ Is(i, "hold", w)
          /\ ~Successful(i)
          /\ txn' = Append(Settled(i, "failed", txn[i].amount),
                           Row(withdrawal[w].user, "credit", "reversal", w, withdrawal[w].amount, "success"))
    /\ withdrawal' = Decided(w, "rejected")
    /\ UNCHANGED <<hookVars, refund, call>>

-----------------------------------------------------------------------------
(* Refunds.                                                                *)

\* initiate_refund's reads: the transaction is a credit, of whatever status, and
\* no refund of it is pending or processed.
InitiateRefundRead(c, i) ==
    /\ call[c] = 0
    /\ i \in DOMAIN txn
    /\ txn[i].type = "credit"
    /\ \A f \in Refund : ~(refund[f].txn = i /\ refund[f].status \in {"pending", "processed"})
    /\ call' = [call EXCEPT ![c] = i]
    /\ UNCHANGED <<balance, txn, hookVars, withdrawal, refund>>

InitiateRefundCommit(c, f, a) ==
    /\ call[c] # 0
    /\ a <= txn[call[c]].amount
    /\ refund[f].status = "none"
    /\ refund' = [refund EXCEPT ![f] = [status |-> "pending", txn |-> call[c], amount |-> a]]
    /\ call' = [call EXCEPT ![c] = 0]
    /\ UNCHANGED <<balance, txn, hookVars, withdrawal>>

\* Mutant: the refund is credited and no row records it.
ProcessRefund_noRow(f) ==
    /\ HasRoom(1)
    /\ refund[f].status = "pending"
    /\ Credit(txn[refund[f].txn].user, refund[f].amount)
    /\ refund' = [refund EXCEPT ![f].status = "processed"]
    /\ UNCHANGED <<txn, hookVars, withdrawal, call>>

ProcessRefund(f) ==
    LET u == txn[refund[f].txn].user IN
    /\ HasRoom(1)
    /\ refund[f].status = "pending"
    /\ Credit(u, refund[f].amount)
    /\ txn' = Append(txn, Row(u, "credit", "refund", f, refund[f].amount, "success"))
    /\ refund' = [refund EXCEPT ![f].status = "processed"]
    /\ UNCHANGED <<hookVars, withdrawal, call>>

\* _handle_refund_event: refund.created, refund.processed and refund.failed
\* overwrite the status, in whatever order they arrive; the refund.processed
\* branch of razorpay_webhook_event does the same.
RefundEvent(f, status) ==
    /\ "refund_events" \in Hooks
    /\ refund[f].status # "none"
    /\ refund' = [refund EXCEPT ![f].status = status]
    /\ UNCHANGED <<balance, txn, hookVars, withdrawal, call>>

-----------------------------------------------------------------------------
Init ==
    /\ balance = [u \in User |-> 0]
    /\ txn = << >>
    /\ gateway = [o \in Order |-> {}]
    /\ paid = [o \in Order |-> Null]
    /\ looking = {} /\ marking = {}
    /\ withdrawal = [w \in Withdrawal |-> NoWithdrawal]
    /\ refund = [f \in Refund |-> NoRefund]
    /\ call = [c \in Clerk |-> 0]

Move ==
    \E u \in User, a \in Amount :
        \/ AddBalance(u, a)
        \/ DeductBalance(u, a)
        \/ \E v \in User : TransferBalance(u, v, a)

Recharge ==
    \/ \E o \in Order : \/ \E event \in Event : GatewaySends(o, event)
                       \/ LegacyMark(o)
                       \/ \E u \in User, a \in Amount : CreateRechargeIntent(u, o, a)
    \/ \E o \in Order, p \in Payment :
          \/ MarkRechargeIntentFailed(o, p)
          \/ \E a \in Amount : ApplyRechargeCapture(o, p, a) \/ \E u \in User : LegacyCapture(u, o, p, a)
    \/ \E k \in 1 .. MaxTxn : LegacyLookup(k)

Withdraw ==
    \E w \in Withdrawal :
        \/ \E u \in User, a \in Amount : RequestWithdrawal(u, w, a)
        \/ ApproveWithdrawal(w)
        \/ RejectWithdrawal(w)

GiveBack ==
    \/ \E c \in Clerk : \/ \E i \in 1 .. MaxTxn : InitiateRefundRead(c, i)
                        \/ \E f \in Refund, a \in Amount : InitiateRefundCommit(c, f, a)
    \/ \E f \in Refund : \/ ProcessRefund(f)
                         \/ \E s \in {"pending", "processed", "failed"} : RefundEvent(f, s)

Next == Move \/ Recharge \/ Withdraw \/ GiveBack

Spec == Init /\ [][Next]_vars

-----------------------------------------------------------------------------
(* Properties.                                                             *)

TypeOK ==
    /\ balance \in [User -> Int]
    /\ txn \in Seq(TxnRow) /\ Len(txn) <= MaxTxn
    /\ gateway \in [Order -> SUBSET Event]
    /\ paid \in [Order -> Payment \cup {Null}]
    /\ looking \subseteq 1 .. MaxTxn /\ marking \subseteq Order
    /\ withdrawal \in [Withdrawal -> WithdrawalRow]
    /\ refund \in [Refund -> RefundRow]
    /\ call \in [Clerk -> 0 .. MaxTxn]

\* Wallet balance is never negative after any operation.
NonNegative == \A u \in User : balance[u] >= 0

\* What a row says of a wallet: a debit counts whatever its status, because a
\* hold that fails has its reversal as a row of its own; a credit counts once it
\* is successful.  An intent that only the older endpoint set to success does not
\* count: the endpoint's own deposit, a row beside it, is the credit.
Effect(row, u) ==
    CASE row.user = u /\ row.type = "debit" -> -row.amount
      [] row.user = u /\ row.type = "credit" /\ row.status = "success" -> row.amount
      [] OTHER -> 0

\* The sum of the rows of a ledger, for one wallet.
LedgerTotal(rows, u) ==
    LET total[n \in 0 .. Len(rows)] == IF n = 0 THEN 0 ELSE total[n - 1] + Effect(rows[n], u)
    IN  total[Len(rows)]

\* The balance is what the ledger adds up to, marked intents aside: no capture,
\* reversal or refund moves money without its row, or twice for one row, on
\* either endpoint and in any order of events.
LedgerTallies == \A u \in User : balance[u] = LedgerTotal(txn, u)

\* A withdrawal request and the ledger tell the same story: one hold, pending
\* while the request is open, successful when it was paid out, failed and
\* reversed by exactly one credit of the same amount when it was rejected.
WithdrawalAgrees ==
    \A w \in Withdrawal :
        LET holds == {i \in DOMAIN txn : Is(i, "hold", w)}
            reversals == {i \in DOMAIN txn : Is(i, "reversal", w)}
        IN  \/ /\ withdrawal[w].status = "none"
               /\ holds = {} /\ reversals = {}
            \/ \E i \in holds :
                  /\ holds = {i}
                  /\ txn[i].amount = withdrawal[w].amount
                  /\ txn[i].user = withdrawal[w].user
                  /\ <<withdrawal[w].status, txn[i].status>> \in
                        {<<"requested", "pending">>, <<"processed", "success">>, <<"rejected", "failed">>}
                  /\ Cardinality(reversals) = IF withdrawal[w].status = "rejected" THEN 1 ELSE 0

\* A successful row of the ledger is final: no late failure event, second
\* capture or rejection changes it, nor a capture an intent that was marked.
SuccessIsFinalStep ==
    \A i \in DOMAIN txn : Successful(i) => i \in DOMAIN txn' /\ txn'[i] = txn[i]

SuccessIsFinal == [][SuccessIsFinalStep]_vars
=============================================================================
