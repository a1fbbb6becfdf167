---------------------------- MODULE WalletProofs ----------------------------
(* Proofs about Wallet, for every set of users, orders, payments,          *)
(* withdrawals, refunds and clerks, every set of amounts and every bound   *)
(* on the ledger.                                                          *)
EXTENDS Wallet, FiniteSetTheorems, WellFoundedInduction, TLAPS

-----------------------------------------------------------------------------
(* What the operations do to the ledger.                                   *)

\* A row built from well-typed fields is a row of the ledger.
LEMMA RowType ==
    ASSUME NEW u \in User, NEW t \in {"credit", "debit"}, NEW c \in Category, NEW x \in Reference,
           NEW a \in Amount, NEW s \in Status
    PROVE  Row(u, t, c, x, a, s) \in TxnRow
BY DEF Row, TxnRow

\* A row of the ledger names a wallet and an amount.
LEMMA LedgerRow ==
    ASSUME txn \in Seq(TxnRow), NEW i \in DOMAIN txn
    PROVE  txn[i].user \in User /\ txn[i].amount \in Amount
<1>1. txn[i] \in TxnRow
  OBVIOUS
<1> QED  BY <1>1 DEF TxnRow

\* Appending a row keeps the type of the ledger, its older rows and its bound.
LEMMA Appended ==
    ASSUME txn \in Seq(TxnRow), HasRoom(1), MaxTxn \in Nat, NEW row \in TxnRow, txn' = Append(txn, row)
    PROVE  /\ txn' \in Seq(TxnRow)
           /\ Len(txn') <= MaxTxn
           /\ \A i \in DOMAIN txn : i \in DOMAIN txn' /\ txn'[i] = txn[i]
BY DEF HasRoom

\* The same for the two rows of a transfer.
LEMMA AppendedTwo ==
    ASSUME txn \in Seq(TxnRow), HasRoom(2), MaxTxn \in Nat, NEW r1 \in TxnRow, NEW r2 \in TxnRow,
           txn' = txn \o <<r1, r2>>
    PROVE  /\ txn' \in Seq(TxnRow)
           /\ Len(txn') <= MaxTxn
           /\ \A i \in DOMAIN txn : i \in DOMAIN txn' /\ txn'[i] = txn[i]
<1>1. <<r1, r2>> \in Seq(TxnRow) /\ Len(<<r1, r2>>) = 2
  OBVIOUS
<1> QED  BY <1>1 DEF HasRoom

\* Overwriting the status and the amount of one row keeps the type of the
\* ledger, its length and its other rows.
LEMMA SettledType ==
    ASSUME txn \in Seq(TxnRow), NEW i \in DOMAIN txn, NEW s \in Status, NEW a \in Amount
    PROVE  /\ Settled(i, s, a) \in Seq(TxnRow)
           /\ Len(Settled(i, s, a)) = Len(txn)
           /\ DOMAIN Settled(i, s, a) = DOMAIN txn
           /\ \A j \in DOMAIN txn : j # i => Settled(i, s, a)[j] = txn[j]
<1>1. txn[i] \in TxnRow
  OBVIOUS
<1>2. Row(txn[i].user, txn[i].type, txn[i].category, txn[i].ref, a, s) \in TxnRow
  BY <1>1 DEF Row, TxnRow
<1> QED  BY <1>2 DEF Settled

-----------------------------------------------------------------------------
(* The inductive invariant.                                                *)

\* What a row refers to exists: a withdrawal's wallet, the transaction of a
\* refund and the one an initiate_refund in flight has read.
RefersToRows ==
    /\ \A w \in Withdrawal : withdrawal[w].status # "none" =>
           withdrawal[w].user \in User /\ withdrawal[w].amount \in Amount
    /\ \A f \in Refund : refund[f].status # "none" =>
           refund[f].txn \in DOMAIN txn /\ refund[f].amount \in Amount
    /\ \A c \in Clerk : call[c] # 0 => call[c] \in DOMAIN txn

Inv == TypeOK /\ NonNegative /\ RefersToRows

\* The initial tables satisfy the invariant.
LEMMA InvInit == Init => Inv
<1> SUFFICES ASSUME Init PROVE Inv
  OBVIOUS
<1>1. TypeOK
  <2>1. withdrawal \in [Withdrawal -> WithdrawalRow]
    BY DEF Init, NoWithdrawal, WithdrawalRow
  <2>2. refund \in [Refund -> RefundRow]
    BY BoundAssumption DEF Init, NoRefund, RefundRow
  <2> QED  BY <2>1, <2>2, BoundAssumption DEF Init, TypeOK
<1>2. NonNegative /\ RefersToRows
  BY DEF Init, NonNegative, RefersToRows, NoWithdrawal, NoRefund
<1> QED  BY <1>1, <1>2 DEF Inv

\* A step that credits a wallet, or debits one that has the money, leaves every
\* balance a non-negative integer.
LEMMA BalanceStep ==
    ASSUME balance \in [User -> Int], NonNegative, NEW u \in User, NEW a \in Amount,
           Credit(u, a) \/ Debit(u, a)
    PROVE  balance' \in [User -> Int] /\ NonNegative'
BY AmountAssumption DEF NonNegative, Credit, Debit

\* The ledger only grows: what rows refer to stays in place.
LEMMA RefersStep ==
    ASSUME RefersToRows, DOMAIN txn \subseteq DOMAIN txn', UNCHANGED <<withdrawal, refund, call>>
    PROVE  RefersToRows'
BY DEF RefersToRows

\* A step that books one row and moves the balance keeps the invariant.
LEMMA BookStep ==
    ASSUME Inv, HasRoom(1), NEW u \in User, NEW a \in Amount, Credit(u, a) \/ Debit(u, a),
           NEW row \in TxnRow, txn' = Append(txn, row), looking' \subseteq 1 .. MaxTxn,
           UNCHANGED <<gateway, paid, marking, withdrawal, refund, call>>
    PROVE  Inv'
<1>1. txn' \in Seq(TxnRow) /\ Len(txn') <= MaxTxn /\ DOMAIN txn \subseteq DOMAIN txn'
  BY Appended, BoundAssumption DEF Inv, TypeOK
<1>2. balance' \in [User -> Int] /\ NonNegative'
  BY BalanceStep DEF Inv, TypeOK
<1>3. RefersToRows'
  BY <1>1, RefersStep DEF Inv
<1>4. TypeOK'
  BY <1>1, <1>2 DEF Inv, TypeOK
<1> QED  BY <1>2, <1>3, <1>4 DEF Inv

\* Credits, debits and transfers keep the invariant.
LEMMA MoveStep == Inv /\ Move => Inv'
<1> SUFFICES ASSUME Inv, Move PROVE Inv'
  OBVIOUS
<1>1. ASSUME NEW u \in User, NEW a \in Amount, AddBalance(u, a) PROVE Inv'
  <2>1. Row(u, "credit", "deposit", Null, a, "success") \in TxnRow
    BY RowType DEF Category, Reference, Status
  <2> QED  BY <1>1, <2>1, BookStep DEF AddBalance, hookVars, Inv, TypeOK
<1>2. ASSUME NEW u \in User, NEW a \in Amount, DeductBalance(u, a) PROVE Inv'
  <2>1. Row(u, "debit", "payment", Null, a, "success") \in TxnRow
    BY RowType DEF Category, Reference, Status
  <2> QED  BY <1>2, <2>1, BookStep DEF DeductBalance, hookVars, Inv, TypeOK
<1>3. ASSUME NEW u \in User, NEW v \in User, NEW a \in Amount, TransferBalance(u, v, a) PROVE Inv'
  <2>1. balance' \in [User -> Int] /\ NonNegative'
    <3>1. a \in Nat /\ balance \in [User -> Int] /\ NonNegative
      BY AmountAssumption DEF Inv, TypeOK
    <3>2. /\ u # v /\ balance[u] >= a
          /\ balance' = [balance EXCEPT ![u] = balance[u] - a, ![v] = balance[v] + a]
      BY <1>3 DEF TransferBalance
    <3>3. balance' \in [User -> Int]
      BY <3>1, <3>2
    <3>4. \A x \in User : balance'[x] = IF x = v THEN balance[v] + a
                                        ELSE IF x = u THEN balance[u] - a ELSE balance[x]
      BY <3>1, <3>2
    <3> QED  BY <3>1, <3>2, <3>3, <3>4 DEF NonNegative
  <2>2. /\ Row(u, "debit", "transfer", Null, a, "success") \in TxnRow
        /\ Row(v, "credit", "transfer", Null, a, "success") \in TxnRow
    BY RowType DEF Category, Reference, Status
  <2>3. txn' \in Seq(TxnRow) /\ Len(txn') <= MaxTxn /\ DOMAIN txn \subseteq DOMAIN txn'
    BY <1>3, <2>2, AppendedTwo, BoundAssumption DEF TransferBalance, Inv, TypeOK
  <2>4. RefersToRows'
    BY <1>3, <2>3, RefersStep DEF TransferBalance, Inv
  <2> QED  BY <1>3, <2>1, <2>3, <2>4 DEF TransferBalance, hookVars, Inv, TypeOK
<1> QED  BY <1>1, <1>2, <1>3 DEF Move

\* Recharges, captured and failed, keep the invariant.
LEMMA RechargeStep == Inv /\ Recharge => Inv'
<1> SUFFICES ASSUME Inv, Recharge PROVE Inv'
  OBVIOUS
<1>1. ASSUME NEW o \in Order, NEW event \in Event, GatewaySends(o, event) PROVE Inv'
  <2>1. gateway' \in [Order -> SUBSET Event]
    BY <1>1 DEF GatewaySends, Inv, TypeOK
  <2> QED  BY <1>1, <2>1 DEF GatewaySends, Inv, TypeOK, NonNegative, RefersToRows
<1>2. ASSUME NEW i \in DOMAIN txn, NEW s \in Status, NEW a \in Amount, txn' = Settled(i, s, a)
      PROVE  txn' \in Seq(TxnRow) /\ Len(txn') <= MaxTxn /\ DOMAIN txn \subseteq DOMAIN txn'
  BY <1>2, SettledType DEF Inv, TypeOK
<1>3. \A i \in DOMAIN txn : txn[i].user \in User /\ txn[i].amount \in Amount
  BY LedgerRow DEF Inv, TypeOK
<1>4. ASSUME NEW o \in Order, NEW p \in Payment, MarkRechargeIntentFailed(o, p) PROVE Inv'
  <2>1. txn' \in Seq(TxnRow) /\ Len(txn') <= MaxTxn /\ DOMAIN txn \subseteq DOMAIN txn'
    BY <1>2, <1>3, <1>4 DEF MarkRechargeIntentFailed, Status
  <2>2. RefersToRows'
    BY <1>4, <2>1, RefersStep DEF MarkRechargeIntentFailed, Inv
  <2>3. paid' \in [Order -> Payment \cup {Null}]
    BY <1>4 DEF MarkRechargeIntentFailed, Inv, TypeOK
  <2> QED  BY <1>4, <2>1, <2>2, <2>3 DEF MarkRechargeIntentFailed, Inv, TypeOK, NonNegative
<1>5. ASSUME NEW o \in Order, NEW p \in Payment, NEW a \in Amount, ApplyRechargeCapture(o, p, a) PROVE Inv'
  <2>1. txn' \in Seq(TxnRow) /\ Len(txn') <= MaxTxn /\ DOMAIN txn \subseteq DOMAIN txn'
    BY <1>2, <1>5 DEF ApplyRechargeCapture, Status
  <2>2. balance' \in [User -> Int] /\ NonNegative'
    BY <1>3, <1>5, BalanceStep DEF ApplyRechargeCapture, Inv, TypeOK
  <2>3. RefersToRows'
    BY <1>5, <2>1, RefersStep DEF ApplyRechargeCapture, Inv
  <2>4. paid' \in [Order -> Payment \cup {Null}]
    BY <1>5 DEF ApplyRechargeCapture, Inv, TypeOK
  <2> QED  BY <1>5, <2>1, <2>2, <2>3, <2>4 DEF ApplyRechargeCapture, Inv, TypeOK
<1>6. ASSUME NEW o \in Order, NEW a \in Amount, NEW u \in User, CreateRechargeIntent(u, o, a) PROVE Inv'
  <2>1. Row(u, "credit", "recharge", o, a, "pending") \in TxnRow
    BY RowType DEF Category, Reference, Status
  <2>2. txn' \in Seq(TxnRow) /\ Len(txn') <= MaxTxn /\ DOMAIN txn \subseteq DOMAIN txn'
    BY <1>6, <2>1, Appended, BoundAssumption DEF CreateRechargeIntent, Inv, TypeOK
  <2>3. RefersToRows'
    BY <1>6, <2>2, RefersStep DEF CreateRechargeIntent, Inv
  <2> QED  BY <1>6, <2>2, <2>3 DEF CreateRechargeIntent, hookVars, Inv, TypeOK, NonNegative
<1>7. ASSUME NEW o \in Order, NEW p \in Payment, NEW a \in Amount, NEW u \in User, LegacyCapture(u, o, p, a)
      PROVE  Inv'
  <2>1. Row(u, "credit", "deposit", p, a, "success") \in TxnRow
    BY RowType DEF Category, Reference, Status
  <2>2. Len(txn) + 1 \in 1 .. MaxTxn
    BY <1>7, BoundAssumption DEF LegacyCapture, HasRoom, Inv, TypeOK
  <2>3. looking' \subseteq 1 .. MaxTxn
    BY <1>7, <2>2 DEF LegacyCapture, Inv, TypeOK
  <2> QED  BY <1>7, <2>1, <2>3, BookStep DEF LegacyCapture
<1>8. ASSUME NEW k \in 1 .. MaxTxn, LegacyLookup(k) PROVE Inv'
  BY <1>8 DEF LegacyLookup, Inv, TypeOK, NonNegative, RefersToRows
<1>9. ASSUME NEW o \in Order, LegacyMark(o) PROVE Inv'
  <2>1. PICK i \in DOMAIN txn : txn' = IF Successful(i) THEN txn ELSE Settled(i, "marked", txn[i].amount)
    BY <1>9 DEF LegacyMark
  <2>2. txn' \in Seq(TxnRow) /\ Len(txn') <= MaxTxn /\ DOMAIN txn \subseteq DOMAIN txn'
    BY <1>2, <1>3, <2>1 DEF Status, Inv, TypeOK
  <2>3. RefersToRows'
    BY <1>9, <2>2, RefersStep DEF LegacyMark, Inv
  <2> QED  BY <1>9, <2>2, <2>3 DEF LegacyMark, Inv, TypeOK, NonNegative
<1> QED  BY <1>1, <1>4, <1>5, <1>6, <1>7, <1>8, <1>9 DEF Recharge

\* Requesting, approving and rejecting a withdrawal keep the invariant.
LEMMA WithdrawStep == Inv /\ Withdraw => Inv'
<1> SUFFICES ASSUME Inv, Withdraw PROVE Inv'
  OBVIOUS
<1>1. txn \in Seq(TxnRow) /\ Len(txn) <= MaxTxn /\ MaxTxn \in Nat
  BY BoundAssumption DEF Inv, TypeOK
<1>2. ASSUME DOMAIN txn \subseteq DOMAIN txn', NEW w \in Withdrawal, NEW u \in User, NEW a \in Amount,
             NEW st \in {"requested", "processed", "rejected"},
             withdrawal' = [withdrawal EXCEPT ![w] = [status |-> st, user |-> u, amount |-> a]],
             UNCHANGED <<refund, call>>
      PROVE  withdrawal' \in [Withdrawal -> WithdrawalRow] /\ RefersToRows'
  <2>1. withdrawal' \in [Withdrawal -> WithdrawalRow]
    BY <1>2 DEF Inv, TypeOK, WithdrawalRow
  <2>2. \A x \in Withdrawal : withdrawal'[x].status # "none" =>
            withdrawal'[x].user \in User /\ withdrawal'[x].amount \in Amount
    BY <1>2 DEF Inv, TypeOK, RefersToRows
  <2> QED  BY <1>2, <2>1, <2>2 DEF Inv, RefersToRows
<1>3. ASSUME NEW u \in User, NEW w \in Withdrawal, NEW a \in Amount, RequestWithdrawal(u, w, a) PROVE Inv'
  <2>1. Row(u, "debit", "hold", w, a, "pending") \in TxnRow
    BY RowType DEF Category, Reference, Status
  <2>2. txn' \in Seq(TxnRow) /\ Len(txn') <= MaxTxn /\ DOMAIN txn \subseteq DOMAIN txn'
    BY <1>1, <1>3, <2>1, Appended DEF RequestWithdrawal
  <2>3. balance' \in [User -> Int] /\ NonNegative'
    BY <1>3, BalanceStep DEF RequestWithdrawal, Inv, TypeOK
  <2>4. withdrawal' \in [Withdrawal -> WithdrawalRow] /\ RefersToRows'
    BY <1>2, <1>3, <2>2 DEF RequestWithdrawal
  <2> QED  BY <1>3, <2>2, <2>3, <2>4 DEF RequestWithdrawal, hookVars, Inv, TypeOK
<1>4. ASSUME NEW w \in Withdrawal, ApproveWithdrawal(w) PROVE Inv'
  <2>1. PICK i \in DOMAIN txn : txn' = Settled(i, "success", txn[i].amount)
    BY <1>4 DEF ApproveWithdrawal
  <2>2. txn' \in Seq(TxnRow) /\ Len(txn') <= MaxTxn /\ DOMAIN txn \subseteq DOMAIN txn'
    BY <1>1, <2>1, SettledType, LedgerRow DEF Status
  <2>3. withdrawal[w].user \in User /\ withdrawal[w].amount \in Amount
    BY <1>4 DEF ApproveWithdrawal, Inv, RefersToRows
  <2>4. withdrawal' \in [Withdrawal -> WithdrawalRow] /\ RefersToRows'
    BY <1>2, <1>4, <2>2, <2>3 DEF ApproveWithdrawal, Decided
  <2> QED  BY <1>4, <2>2, <2>4 DEF ApproveWithdrawal, hookVars, Inv, TypeOK, NonNegative
<1>5. ASSUME NEW w \in Withdrawal, RejectWithdrawal(w) PROVE Inv'
  <2>1. withdrawal[w].user \in User /\ withdrawal[w].amount \in Amount
    BY <1>5 DEF RejectWithdrawal, Inv, RefersToRows
  <2>2. PICK i \in DOMAIN txn :
            txn' = Append(Settled(i, "failed", txn[i].amount),
                          Row(withdrawal[w].user, "credit", "reversal", w, withdrawal[w].amount, "success"))
    BY <1>5 DEF RejectWithdrawal
  <2>3. Row(withdrawal[w].user, "credit", "reversal", w, withdrawal[w].amount, "success") \in TxnRow
    BY <2>1, RowType DEF Category, Reference, Status
  <2>4. Settled(i, "failed", txn[i].amount) \in Seq(TxnRow) /\ Len(Settled(i, "failed", txn[i].amount)) = Len(txn)
    BY <1>1, SettledType, LedgerRow DEF Status
  <2>5. txn' \in Seq(TxnRow) /\ Len(txn') = Len(txn) + 1
    BY <2>2, <2>3, <2>4
  <2>6. Len(txn') <= MaxTxn /\ DOMAIN txn \subseteq DOMAIN txn'
    BY <1>1, <1>5, <2>5 DEF RejectWithdrawal, HasRoom
  <2>7. balance' \in [User -> Int] /\ NonNegative'
    BY <1>5, <2>1, BalanceStep DEF RejectWithdrawal, Inv, TypeOK
  <2>8. withdrawal' \in [Withdrawal -> WithdrawalRow] /\ RefersToRows'
    BY <1>2, <1>5, <2>1, <2>6 DEF RejectWithdrawal, Decided
  <2> QED  BY <1>5, <2>5, <2>6, <2>7, <2>8 DEF RejectWithdrawal, hookVars, Inv, TypeOK
<1> QED  BY <1>3, <1>4, <1>5 DEF Withdraw

\* Initiating and processing refunds, and the refund events of the gateway,
\* keep the invariant.
LEMMA GiveBackStep == Inv /\ GiveBack => Inv'
<1> SUFFICES ASSUME Inv, GiveBack PROVE Inv'
  OBVIOUS
<1>1. txn \in Seq(TxnRow) /\ Len(txn) <= MaxTxn /\ MaxTxn \in Nat
  BY BoundAssumption DEF Inv, TypeOK
<1>2. ASSUME NEW c \in Clerk, NEW i \in 1 .. MaxTxn, InitiateRefundRead(c, i) PROVE Inv'
  <2>1. call' \in [Clerk -> 0 .. MaxTxn]
    BY <1>1, <1>2 DEF InitiateRefundRead, Inv, TypeOK
  <2>2. RefersToRows'
    BY <1>2 DEF InitiateRefundRead, Inv, TypeOK, RefersToRows
  <2> QED  BY <1>2, <2>1, <2>2 DEF InitiateRefundRead, hookVars, Inv, TypeOK, NonNegative
<1>3. ASSUME NEW c \in Clerk, NEW f \in Refund, NEW a \in Amount, InitiateRefundCommit(c, f, a) PROVE Inv'
  <2>1. call[c] \in DOMAIN txn /\ call[c] \in 0 .. MaxTxn
    BY <1>3 DEF InitiateRefundCommit, Inv, TypeOK, RefersToRows
  <2>2. refund' \in [Refund -> RefundRow]
    BY <1>3, <2>1 DEF InitiateRefundCommit, Inv, TypeOK, RefundRow
  <2>3. call' \in [Clerk -> 0 .. MaxTxn]
    BY <1>1, <1>3 DEF InitiateRefundCommit, Inv, TypeOK
  <2>4. \A g \in Refund : refund'[g].status # "none" => refund'[g].txn \in DOMAIN txn /\ refund'[g].amount \in Amount
    BY <1>3, <2>1 DEF InitiateRefundCommit, Inv, TypeOK, RefersToRows
  <2>5. \A d \in Clerk : call'[d] # 0 => call'[d] \in DOMAIN txn
    BY <1>3 DEF InitiateRefundCommit, Inv, TypeOK, RefersToRows
  <2>6. RefersToRows'
    BY <1>3, <2>4, <2>5 DEF InitiateRefundCommit, Inv, RefersToRows
  <2> QED  BY <1>3, <2>2, <2>3, <2>6 DEF InitiateRefundCommit, hookVars, Inv, TypeOK, NonNegative
<1>4. ASSUME NEW f \in Refund, refund[f].status # "none", NEW s \in {"pending", "processed", "failed"},
             refund' = [refund EXCEPT ![f].status = s], DOMAIN txn \subseteq DOMAIN txn',
             UNCHANGED <<withdrawal, call>>
      PROVE  refund' \in [Refund -> RefundRow] /\ RefersToRows'
  <2>1. refund' \in [Refund -> RefundRow]
    BY <1>4 DEF Inv, TypeOK, RefundRow
  <2>2. \A g \in Refund : /\ refund'[g].txn = refund[g].txn
                          /\ refund'[g].amount = refund[g].amount
                          /\ refund'[g].status # "none" => refund[g].status # "none"
    BY <1>4 DEF Inv, TypeOK, RefundRow
  <2> QED  BY <1>4, <2>1, <2>2 DEF Inv, RefersToRows
<1>5. ASSUME NEW f \in Refund, ProcessRefund(f) PROVE Inv'
  <2>1. refund[f].txn \in DOMAIN txn /\ refund[f].amount \in Amount
    BY <1>5 DEF ProcessRefund, Inv, RefersToRows
  <2>2. txn[refund[f].txn].user \in User
    BY <1>1, <2>1, LedgerRow
  <2>3. Row(txn[refund[f].txn].user, "credit", "refund", f, refund[f].amount, "success") \in TxnRow
    BY <2>1, <2>2, RowType DEF Category, Reference, Status
  <2>4. txn' \in Seq(TxnRow) /\ Len(txn') <= MaxTxn /\ DOMAIN txn \subseteq DOMAIN txn'
    BY <1>1, <1>5, <2>3, Appended DEF ProcessRefund
  <2>5. balance' \in [User -> Int] /\ NonNegative'
    BY <1>5, <2>1, <2>2, BalanceStep DEF ProcessRefund, Inv, TypeOK
  <2>6. refund' \in [Refund -> RefundRow] /\ RefersToRows'
    BY <1>4, <1>5, <2>4 DEF ProcessRefund
  <2> QED  BY <1>5, <2>4, <2>5, <2>6 DEF ProcessRefund, hookVars, Inv, TypeOK
<1>6. ASSUME NEW f \in Refund, NEW s \in {"pending", "processed", "failed"}, RefundEvent(f, s) PROVE Inv'
  <2>1. refund' \in [Refund -> RefundRow] /\ RefersToRows'
    BY <1>4, <1>6 DEF RefundEvent
  <2> QED  BY <1>6, <2>1 DEF RefundEvent, hookVars, Inv, TypeOK, NonNegative
<1> QED  BY <1>2, <1>3, <1>5, <1>6 DEF GiveBack

-----------------------------------------------------------------------------
(* The theorems.                                                           *)

\* The invariant holds in every reachable state.
LEMMA Invariant == Spec => []Inv
<1>1. Inv /\ [Next]_vars => Inv'
  <2> SUFFICES ASSUME Inv, [Next]_vars PROVE Inv'
    OBVIOUS
  <2>1. CASE UNCHANGED vars
    BY <2>1 DEF vars, hookVars, Inv, TypeOK, NonNegative, RefersToRows
  <2> QED  BY <2>1, MoveStep, RechargeStep, WithdrawStep, GiveBackStep DEF Next
<1> QED  BY <1>1, InvInit, PTL DEF Spec

\* The wallet tables keep their types: every status a row is given is one the
\* state machines know, and every ledger entry is in range.
THEOREM WalletTypeCorrect == Spec => []TypeOK
<1>1. Inv => TypeOK
  BY DEF Inv
<1> QED  BY <1>1, Invariant, PTL

\* No operation, and no interleaving of webhooks, withdrawals and refunds,
\* overdraws a wallet.
THEOREM WalletNeverNegative == Spec => []NonNegative
<1>1. Inv => NonNegative
  BY DEF Inv
<1> QED  BY <1>1, Invariant, PTL

-----------------------------------------------------------------------------
(* Withdrawals and their rows of the ledger.                               *)

\* The rows of a ledger that book a category for a withdrawal.
RowsIn(rows, category, w) == {i \in DOMAIN rows : rows[i].category = category /\ rows[i].ref = w}

\* WithdrawalAgrees for one request, with the reversals named and not counted.
Story(w) ==
    \/ /\ withdrawal[w].status = "none"
       /\ RowsIn(txn, "hold", w) = {} /\ RowsIn(txn, "reversal", w) = {}
    \/ \E i \in DOMAIN txn :
          /\ RowsIn(txn, "hold", w) = {i}
          /\ txn[i].amount = withdrawal[w].amount
          /\ txn[i].user = withdrawal[w].user
          /\ \/ /\ withdrawal[w].status = "requested" /\ txn[i].status = "pending"
                /\ RowsIn(txn, "reversal", w) = {}
             \/ /\ withdrawal[w].status = "processed" /\ txn[i].status = "success"
                /\ RowsIn(txn, "reversal", w) = {}
             \/ /\ withdrawal[w].status = "rejected" /\ txn[i].status = "failed"
                /\ \E k : RowsIn(txn, "reversal", w) = {k}

Stories == \A w \in Withdrawal : Story(w)

\* A request's story is untouched by a step that touches neither it nor its rows.
LEMMA StoryKept ==
    ASSUME NEW w \in Withdrawal, Story(w), withdrawal'[w] = withdrawal[w], DOMAIN txn \subseteq DOMAIN txn',
           RowsIn(txn', "hold", w) = RowsIn(txn, "hold", w),
           RowsIn(txn', "reversal", w) = RowsIn(txn, "reversal", w),
           \A i \in RowsIn(txn, "hold", w) : txn'[i] = txn[i]
    PROVE  Story(w)'
<1>1. CASE withdrawal[w].status = "none" /\ RowsIn(txn, "hold", w) = {} /\ RowsIn(txn, "reversal", w) = {}
  BY <1>1 DEF Story
<1>2. CASE withdrawal[w].status # "none" \/ RowsIn(txn, "hold", w) # {} \/ RowsIn(txn, "reversal", w) # {}
  <2>1. PICK i \in DOMAIN txn :
          /\ RowsIn(txn, "hold", w) = {i}
          /\ txn[i].amount = withdrawal[w].amount
          /\ txn[i].user = withdrawal[w].user
          /\ \/ /\ withdrawal[w].status = "requested" /\ txn[i].status = "pending"
                /\ RowsIn(txn, "reversal", w) = {}
             \/ /\ withdrawal[w].status = "processed" /\ txn[i].status = "success"
                /\ RowsIn(txn, "reversal", w) = {}
             \/ /\ withdrawal[w].status = "rejected" /\ txn[i].status = "failed"
                /\ \E k : RowsIn(txn, "reversal", w) = {k}
    BY <1>2 DEF Story
  <2>2. txn'[i] = txn[i] /\ i \in DOMAIN txn'
    BY <2>1
  <2> QED  BY <2>1, <2>2 DEF Story
<1> QED  BY <1>1, <1>2

\* Appending a row adds it to its own category and withdrawal, and to no other.
LEMMA RowsAppended ==
    ASSUME NEW rows \in Seq(TxnRow), NEW row \in TxnRow, NEW c, NEW w
    PROVE  /\ row.category = c /\ row.ref = w =>
                  RowsIn(Append(rows, row), c, w) = RowsIn(rows, c, w) \cup {Len(rows) + 1}
           /\ ~(row.category = c /\ row.ref = w) => RowsIn(Append(rows, row), c, w) = RowsIn(rows, c, w)
           /\ DOMAIN rows \subseteq DOMAIN Append(rows, row)
           /\ \A i \in DOMAIN rows : Append(rows, row)[i] = rows[i]
<1> DEFINE new == Append(rows, row)
<1>1. /\ Len(rows) \in Nat /\ DOMAIN rows = 1 .. Len(rows) /\ DOMAIN new = 1 .. Len(rows) + 1
      /\ new[Len(rows) + 1] = row /\ \A i \in DOMAIN rows : new[i] = rows[i]
  OBVIOUS
<1> HIDE DEF new
<1>2. DOMAIN new = DOMAIN rows \cup {Len(rows) + 1}
  BY <1>1
<1>3. RowsIn(new, c, w) = RowsIn(rows, c, w) \cup {i \in {Len(rows) + 1} : row.category = c /\ row.ref = w}
  BY <1>1, <1>2 DEF RowsIn
<1> QED  BY <1>1, <1>2, <1>3 DEF new

\* Settling a row changes its status and amount, and what it books for whom not.
LEMMA RowsSettled ==
    ASSUME txn \in Seq(TxnRow), NEW i \in DOMAIN txn, NEW s \in Status, NEW a \in Amount
    PROVE  /\ \A c, w : RowsIn(Settled(i, s, a), c, w) = RowsIn(txn, c, w)
           /\ Settled(i, s, a)[i].amount = a /\ Settled(i, s, a)[i].status = s
           /\ Settled(i, s, a)[i].user = txn[i].user
<1>1. DOMAIN Settled(i, s, a) = DOMAIN txn /\ \A j \in DOMAIN txn : j # i => Settled(i, s, a)[j] = txn[j]
  BY SettledType
<1>2. Settled(i, s, a)[i] = Row(txn[i].user, txn[i].type, txn[i].category, txn[i].ref, a, s)
  BY DEF Settled
<1>3. /\ Settled(i, s, a)[i].category = txn[i].category /\ Settled(i, s, a)[i].ref = txn[i].ref
      /\ Settled(i, s, a)[i].amount = a /\ Settled(i, s, a)[i].status = s
      /\ Settled(i, s, a)[i].user = txn[i].user
  BY <1>2 DEF Row
<1> QED  BY <1>1, <1>3 DEF RowsIn

\* Every step keeps every request's story.
LEMMA StoryStep ==
    ASSUME Inv, [Next]_vars, \A w \in Withdrawal : Story(w), NEW w \in Withdrawal
    PROVE  Story(w)'
<1>1. txn \in Seq(TxnRow) /\ DOMAIN withdrawal = Withdrawal
  BY DEF Inv, TypeOK
<1>2. \A i \in DOMAIN txn : txn[i].user \in User /\ txn[i].amount \in Amount
  BY <1>1, LedgerRow
<1>3. ASSUME NEW row \in TxnRow, row.category \notin {"hold", "reversal"} \/ row.ref # w,
             txn' = Append(txn, row), withdrawal'[w] = withdrawal[w]
      PROVE  Story(w)'
  <2>1. /\ RowsIn(txn', "hold", w) = RowsIn(txn, "hold", w)
        /\ RowsIn(txn', "reversal", w) = RowsIn(txn, "reversal", w)
        /\ DOMAIN txn \subseteq DOMAIN txn' /\ \A i \in DOMAIN txn : txn'[i] = txn[i]
    BY <1>1, <1>3, RowsAppended
  <2> QED  BY <1>3, <2>1, StoryKept DEF RowsIn
<1>4. ASSUME NEW i \in DOMAIN txn, ~Is(i, "hold", w), NEW s \in Status, NEW a \in Amount, txn' = Settled(i, s, a),
             withdrawal'[w] = withdrawal[w]
      PROVE  Story(w)'
  <2>1. \A c, x : RowsIn(txn', c, x) = RowsIn(txn, c, x)
    BY <1>1, <1>4, RowsSettled
  <2>2. DOMAIN txn' = DOMAIN txn /\ \A j \in DOMAIN txn : j # i => txn'[j] = txn[j]
    BY <1>1, <1>4, SettledType
  <2> QED  BY <1>4, <2>1, <2>2, StoryKept DEF RowsIn, Is
<1>5. CASE Move
  <2>1. ASSUME NEW u \in User, NEW a \in Amount, AddBalance(u, a) PROVE Story(w)'
    <3>1. Row(u, "credit", "deposit", Null, a, "success") \in TxnRow
      BY RowType DEF Category, Reference, Status
    <3> QED  BY <1>3, <2>1, <3>1 DEF AddBalance, Row
  <2>2. ASSUME NEW u \in User, NEW a \in Amount, DeductBalance(u, a) PROVE Story(w)'
    <3>1. Row(u, "debit", "payment", Null, a, "success") \in TxnRow
      BY RowType DEF Category, Reference, Status
    <3> QED  BY <1>3, <2>2, <3>1 DEF DeductBalance, Row
  <2>3. ASSUME NEW u \in User, NEW v \in User, NEW a \in Amount, TransferBalance(u, v, a) PROVE Story(w)'
    <3> DEFINE r1 == Row(u, "debit", "transfer", Null, a, "success")
               r2 == Row(v, "credit", "transfer", Null, a, "success")
    <3>1. r1 \in TxnRow /\ r2 \in TxnRow /\ r1.category = "transfer" /\ r2.category = "transfer"
      <4>1. r1 \in TxnRow /\ r2 \in TxnRow
        BY RowType DEF Category, Reference, Status
      <4> QED  BY <4>1 DEF Row
    <3>2. txn' = txn \o <<r1, r2>> /\ withdrawal' = withdrawal
      BY <2>3 DEF TransferBalance
    <3> HIDE DEF r1, r2
    <3>3. txn' = Append(Append(txn, r1), r2) /\ Append(txn, r1) \in Seq(TxnRow)
      BY <1>1, <3>1, <3>2
    <3>4. \A c \in {"hold", "reversal"} : RowsIn(txn', c, w) = RowsIn(txn, c, w)
      <4> SUFFICES ASSUME NEW c \in {"hold", "reversal"} PROVE RowsIn(txn', c, w) = RowsIn(txn, c, w)
        OBVIOUS
      <4>1. RowsIn(Append(txn, r1), c, w) = RowsIn(txn, c, w)
        BY <1>1, <3>1, RowsAppended
      <4> DEFINE mid == Append(txn, r1)
      <4>2. mid \in Seq(TxnRow) /\ txn' = Append(mid, r2) /\ RowsIn(mid, c, w) = RowsIn(txn, c, w)
        BY <3>3, <4>1
      <4> HIDE DEF mid
      <4>3. ~(r2.category = c /\ r2.ref = w)
        BY <3>1
      <4>4. RowsIn(Append(mid, r2), c, w) = RowsIn(mid, c, w)
        BY <3>1, <4>2, <4>3, RowsAppended
      <4> QED  BY <4>2, <4>4
    <3>5. DOMAIN txn \subseteq DOMAIN txn' /\ \A i \in DOMAIN txn : txn'[i] = txn[i]
      BY <1>1, <3>1, <3>3, RowsAppended
    <3> QED  BY <3>2, <3>4, <3>5, StoryKept DEF RowsIn
  <2> QED  BY <1>5, <2>1, <2>2, <2>3 DEF Move
<1>6. CASE Recharge
  <2>1. ASSUME NEW o \in Order, NEW a \in Amount, NEW u \in User, CreateRechargeIntent(u, o, a) PROVE Story(w)'
    <3>1. Row(u, "credit", "recharge", o, a, "pending") \in TxnRow
      BY RowType DEF Category, Reference, Status
    <3> QED  BY <1>3, <2>1, <3>1 DEF CreateRechargeIntent, Row
  <2>2. ASSUME NEW o \in Order, NEW p \in Payment, NEW a \in Amount, NEW u \in User, LegacyCapture(u, o, p, a)
        PROVE  Story(w)'
    <3>1. Row(u, "credit", "deposit", p, a, "success") \in TxnRow
      BY RowType DEF Category, Reference, Status
    <3> QED  BY <1>3, <2>2, <3>1 DEF LegacyCapture, Row
  <2>3. ASSUME NEW o \in Order, NEW p \in Payment, NEW a \in Amount, ApplyRechargeCapture(o, p, a) PROVE Story(w)'
    BY <1>4, <2>3 DEF ApplyRechargeCapture, Is, Status
  <2>4. ASSUME NEW o \in Order, NEW p \in Payment, MarkRechargeIntentFailed(o, p) PROVE Story(w)'
    BY <1>2, <1>4, <2>4 DEF MarkRechargeIntentFailed, Is, Status
  <2>5. CASE UNCHANGED <<txn, withdrawal>>
    BY <2>5, StoryKept
  <2>6. ASSUME NEW o \in Order, LegacyMark(o) PROVE Story(w)'
    BY <1>2, <1>4, <2>5, <2>6 DEF LegacyMark, Is, Status
  <2> QED  BY <1>6, <2>1, <2>2, <2>3, <2>4, <2>5, <2>6 DEF Recharge, GatewaySends, LegacyLookup
<1>7. CASE GiveBack
  <2>1. ASSUME NEW f \in Refund, ProcessRefund(f) PROVE Story(w)'
    <3>1. refund[f].txn \in DOMAIN txn /\ refund[f].amount \in Amount
      BY <2>1 DEF ProcessRefund, Inv, RefersToRows
    <3>2. Row(txn[refund[f].txn].user, "credit", "refund", f, refund[f].amount, "success") \in TxnRow
      BY <1>2, <3>1, RowType DEF Category, Reference, Status
    <3> QED  BY <1>3, <2>1, <3>2 DEF ProcessRefund, Row
  <2>2. CASE UNCHANGED <<txn, withdrawal>>
    BY <2>2, StoryKept
  <2> QED  BY <1>7, <2>1, <2>2 DEF GiveBack, InitiateRefundRead, InitiateRefundCommit, RefundEvent
<1>8. ASSUME NEW u \in User, NEW x \in Withdrawal, NEW a \in Amount, RequestWithdrawal(u, x, a) PROVE Story(w)'
  <2> DEFINE row == Row(u, "debit", "hold", x, a, "pending")
  <2>1. row \in TxnRow
    BY RowType DEF Category, Reference, Status
  <2>2. /\ row.category = "hold" /\ row.ref = x /\ row.amount = a /\ row.user = u /\ row.status = "pending"
        /\ txn' = Append(txn, row)
    BY <1>8 DEF RequestWithdrawal, Row
  <2>3. CASE x # w
    <3>1. withdrawal'[w] = withdrawal[w]
      BY <1>1, <1>8, <2>3 DEF RequestWithdrawal
    <3> QED  BY <1>3, <2>1, <2>2, <2>3, <3>1
  <2>4. CASE x = w
    <3> HIDE DEF row
    <3>1. /\ withdrawal[w].status = "none" /\ withdrawal'[w].status = "requested"
          /\ withdrawal'[w].user = u /\ withdrawal'[w].amount = a
      BY <1>1, <1>8, <2>4 DEF RequestWithdrawal
    <3>2. RowsIn(txn, "hold", w) = {} /\ RowsIn(txn, "reversal", w) = {}
      BY <3>1 DEF Story
    <3>3. RowsIn(txn', "hold", w) = {Len(txn) + 1} /\ RowsIn(txn', "reversal", w) = {}
      BY <1>1, <2>1, <2>2, <2>4, <3>2, RowsAppended
    <3>4. Len(txn) + 1 \in DOMAIN txn' /\ txn'[Len(txn) + 1] = row
      BY <1>1, <2>1, <2>2
    <3> QED  BY <2>2, <3>1, <3>3, <3>4 DEF Story
  <2> QED  BY <2>3, <2>4
<1>9. ASSUME NEW x \in Withdrawal, ApproveWithdrawal(x) PROVE Story(w)'
  <2>1. PICK i \in DOMAIN txn : Is(i, "hold", x) /\ txn' = Settled(i, "success", txn[i].amount)
    BY <1>9 DEF ApproveWithdrawal
  <2>2. CASE x # w
    <3>1. withdrawal'[w] = withdrawal[w] /\ ~Is(i, "hold", w)
      BY <1>1, <1>9, <2>1, <2>2 DEF ApproveWithdrawal, Decided, Is
    <3> QED  BY <1>2, <1>4, <2>1, <3>1 DEF Status
  <2>3. CASE x = w
    <3>1. /\ withdrawal[w].status = "requested" /\ withdrawal'[w].status = "processed"
          /\ withdrawal'[w].user = withdrawal[w].user /\ withdrawal'[w].amount = withdrawal[w].amount
      BY <1>1, <1>9, <2>3 DEF ApproveWithdrawal, Decided
    <3>2. PICK h \in DOMAIN txn : /\ RowsIn(txn, "hold", w) = {h} /\ RowsIn(txn, "reversal", w) = {}
                                  /\ txn[h].amount = withdrawal[w].amount /\ txn[h].user = withdrawal[w].user
      BY <3>1 DEF Story
    <3>3. i = h
      BY <2>1, <2>3, <3>2 DEF RowsIn, Is
    <3>4. /\ RowsIn(txn', "hold", w) = {h} /\ RowsIn(txn', "reversal", w) = {}
          /\ txn'[h].amount = txn[h].amount /\ txn'[h].user = txn[h].user /\ txn'[h].status = "success"
          /\ h \in DOMAIN txn'
      BY <1>1, <1>2, <2>1, <3>2, <3>3, RowsSettled, SettledType DEF Status
    <3> QED  BY <3>1, <3>2, <3>4 DEF Story
  <2> QED  BY <2>2, <2>3
<1>10. ASSUME NEW x \in Withdrawal, RejectWithdrawal(x) PROVE Story(w)'
  <2> DEFINE row == Row(withdrawal[x].user, "credit", "reversal", x, withdrawal[x].amount, "success")
  <2>1. row \in TxnRow /\ row.category = "reversal" /\ row.ref = x
    <3>1. withdrawal[x].user \in User /\ withdrawal[x].amount \in Amount
      BY <1>10 DEF RejectWithdrawal, Inv, RefersToRows
    <3>2. row \in TxnRow
      BY <3>1, RowType DEF Category, Reference, Status
    <3> QED  BY <3>2 DEF Row
  <2>2. PICK i \in DOMAIN txn : Is(i, "hold", x) /\ txn' = Append(Settled(i, "failed", txn[i].amount), row)
    BY <1>10 DEF RejectWithdrawal
  <2> HIDE DEF row
  <2> DEFINE mid == Settled(i, "failed", txn[i].amount)
  <2>3. /\ mid \in Seq(TxnRow) /\ DOMAIN mid = DOMAIN txn /\ (\A j \in DOMAIN txn : j # i => mid[j] = txn[j])
        /\ Len(mid) = Len(txn)
    BY <1>1, <1>2, SettledType DEF Status
  <2>4. /\ \A c, y : RowsIn(mid, c, y) = RowsIn(txn, c, y)
        /\ mid[i].amount = txn[i].amount /\ mid[i].status = "failed" /\ mid[i].user = txn[i].user
    BY <1>1, <1>2, RowsSettled DEF Status
  <2>5. txn' = Append(mid, row)
    BY <2>2
  <2> HIDE DEF mid
  <2>6. DOMAIN txn \subseteq DOMAIN txn' /\ \A j \in DOMAIN txn : txn'[j] = mid[j]
    BY <2>1, <2>3, <2>5, RowsAppended
  <2>7. RowsIn(txn', "hold", w) = RowsIn(txn, "hold", w)
    BY <2>1, <2>3, <2>4, <2>5, RowsAppended
  <2>8. CASE x # w
    <3>1. withdrawal'[w] = withdrawal[w] /\ i \notin RowsIn(txn, "hold", w)
      BY <1>1, <1>10, <2>2, <2>8 DEF RejectWithdrawal, Decided, Is, RowsIn
    <3>2. RowsIn(txn', "reversal", w) = RowsIn(txn, "reversal", w)
      BY <2>1, <2>3, <2>4, <2>5, <2>8, RowsAppended
    <3>3. \A j \in RowsIn(txn, "hold", w) : txn'[j] = txn[j]
      BY <2>3, <2>6, <3>1 DEF RowsIn
    <3> QED  BY <2>6, <2>7, <3>1, <3>2, <3>3, StoryKept
  <2>9. CASE x = w
    <3>1. /\ withdrawal[w].status = "requested" /\ withdrawal'[w].status = "rejected"
          /\ withdrawal'[w].user = withdrawal[w].user /\ withdrawal'[w].amount = withdrawal[w].amount
      BY <1>1, <1>10, <2>9 DEF RejectWithdrawal, Decided
    <3>2. PICK h \in DOMAIN txn : /\ RowsIn(txn, "hold", w) = {h} /\ RowsIn(txn, "reversal", w) = {}
                                  /\ txn[h].amount = withdrawal[w].amount /\ txn[h].user = withdrawal[w].user
      BY <3>1 DEF Story
    <3>3. i = h
      BY <2>2, <2>9, <3>2 DEF RowsIn, Is
    <3>4. \E k : RowsIn(txn', "reversal", w) = {k}
      <4>1. RowsIn(Append(mid, row), "reversal", w) = RowsIn(mid, "reversal", w) \cup {Len(mid) + 1}
        BY <2>1, <2>3, <2>9, RowsAppended
      <4>2. RowsIn(mid, "reversal", w) = {}
        BY <2>4, <3>2
      <4>3. RowsIn(txn', "reversal", w) = {Len(mid) + 1}
        BY <2>5, <4>1, <4>2
      <4> QED  BY <4>3
    <3>5. /\ txn'[h].amount = txn[h].amount /\ txn'[h].user = txn[h].user /\ txn'[h].status = "failed"
          /\ h \in DOMAIN txn'
      BY <2>4, <2>6, <3>3
    <3>6. /\ RowsIn(txn', "hold", w) = {h} /\ txn'[h].amount = withdrawal'[w].amount
          /\ txn'[h].user = withdrawal'[w].user
      BY <2>7, <3>1, <3>2, <3>5
    <3> QED  BY <3>1, <3>4, <3>5, <3>6 DEF Story
  <2> QED  BY <2>8, <2>9
<1>11. CASE UNCHANGED vars
  BY <1>11, StoryKept DEF vars
<1> QED  BY <1>5, <1>6, <1>7, <1>8, <1>9, <1>10, <1>11 DEF Next, Withdraw

\* Every request has its story, in every reachable state.
LEMMA StoriesHold == Spec => []Stories
<1>1. Init => Stories
  BY DEF Init, Stories, Story, RowsIn, NoWithdrawal
<1>2. Inv /\ Stories /\ [Next]_vars => Stories'
  BY StoryStep DEF Stories
<1> QED  BY <1>1, <1>2, Invariant, PTL DEF Spec

\* A withdrawal request and the ledger tell the same story, for any number of
\* requests and clerks: one hold, settled as the request was decided, and
\* exactly one reversal of a rejected request.
THEOREM WithdrawalsAgree == Spec => []WithdrawalAgrees
<1>1. Stories => WithdrawalAgrees
  <2> SUFFICES ASSUME NEW w \in Withdrawal, Story(w)
               PROVE  LET holds == {i \in DOMAIN txn : Is(i, "hold", w)}
                          reversals == {i \in DOMAIN txn : Is(i, "reversal", w)}
                      IN  \/ /\ withdrawal[w].status = "none"
                             /\ holds = {} /\ reversals = {}
                          \/ \E i \in holds :
                                /\ holds = {i}
                                /\ txn[i].amount = withdrawal[w].amount
                                /\ txn[i].user = withdrawal[w].user
                                /\ <<withdrawal[w].status, txn[i].status>> \in
                                      {<<"requested", "pending">>, <<"processed", "success">>, <<"rejected", "failed">>}
                                /\ Cardinality(reversals) = IF withdrawal[w].status = "rejected" THEN 1 ELSE 0
    BY DEF Stories, WithdrawalAgrees
  <2> DEFINE holds == {i \in DOMAIN txn : Is(i, "hold", w)}
             reversals == {i \in DOMAIN txn : Is(i, "reversal", w)}
  <2>1. holds = RowsIn(txn, "hold", w) /\ reversals = RowsIn(txn, "reversal", w)
    BY DEF RowsIn, Is
  <2>2. reversals = {} => Cardinality(reversals) = 0
    BY FS_EmptySet
  <2>3. (\E k : reversals = {k}) => Cardinality(reversals) = 1
    BY FS_Singleton
  <2> HIDE DEF holds, reversals
  <2>4. \/ withdrawal[w].status = "none" /\ holds = {} /\ reversals = {}
        \/ \E i \in holds :
              /\ holds = {i}
              /\ txn[i].amount = withdrawal[w].amount
              /\ txn[i].user = withdrawal[w].user
              /\ <<withdrawal[w].status, txn[i].status>> \in
                    {<<"requested", "pending">>, <<"processed", "success">>, <<"rejected", "failed">>}
              /\ Cardinality(reversals) = IF withdrawal[w].status = "rejected" THEN 1 ELSE 0
    BY <2>1, <2>2, <2>3 DEF Story
  <2> QED  BY <2>4 DEF holds, reversals
<1> QED  BY <1>1, StoriesHold, PTL

\* Settling a row that was not successful leaves the successful ones alone.
LEMMA SettledKeepsSuccess ==
    ASSUME txn \in Seq(TxnRow), NEW i \in DOMAIN txn, ~Successful(i),
           NEW s \in Status, NEW a \in Amount, NEW j \in DOMAIN txn, Successful(j)
    PROVE  j \in DOMAIN Settled(i, s, a) /\ Settled(i, s, a)[j] = txn[j]
BY SettledType

\* No capture on either endpoint, failure event, approval, rejection or refund,
\* in whatever order they arrive, changes a row of the ledger that was
\* successful.  An approval settles a hold that is pending, by its request's
\* story.
THEOREM SuccessfulRowsAreFinal == Spec => SuccessIsFinal
<1>1. Inv /\ Stories /\ [Next]_vars => [SuccessIsFinalStep]_vars
  <2> SUFFICES ASSUME Inv, Stories, Next, NEW j \in DOMAIN txn, Successful(j)
               PROVE  j \in DOMAIN txn' /\ txn'[j] = txn[j]
    BY DEF SuccessIsFinalStep
  <2>1. txn \in Seq(TxnRow) /\ Len(txn) <= MaxTxn /\ MaxTxn \in Nat
    BY BoundAssumption DEF Inv, TypeOK
  <2>2. \A i \in DOMAIN txn : txn[i].user \in User /\ txn[i].amount \in Amount
    BY <2>1, LedgerRow
  <2>3. ASSUME NEW row, txn' = Append(txn, row) PROVE j \in DOMAIN txn' /\ txn'[j] = txn[j]
    BY <2>1, <2>3
  <2>4. ASSUME NEW r1, NEW r2, txn' = txn \o <<r1, r2>> PROVE j \in DOMAIN txn' /\ txn'[j] = txn[j]
    BY <2>1, <2>4
  <2>5. ASSUME NEW i \in DOMAIN txn, ~Successful(i), NEW s \in Status, NEW a \in Amount,
               txn' = Settled(i, s, a)
        PROVE  j \in DOMAIN txn' /\ txn'[j] = txn[j]
    BY <2>1, <2>5, SettledKeepsSuccess
  <2>6. CASE Move
    BY <2>3, <2>4, <2>6 DEF Move, AddBalance, DeductBalance, TransferBalance
  <2>7. CASE Recharge
    <3>1. ASSUME NEW o \in Order, NEW p \in Payment, MarkRechargeIntentFailed(o, p)
          PROVE  j \in DOMAIN txn' /\ txn'[j] = txn[j]
      BY <2>2, <2>5, <3>1 DEF MarkRechargeIntentFailed, Status
    <3>2. ASSUME NEW o \in Order, NEW p \in Payment, NEW a \in Amount, ApplyRechargeCapture(o, p, a)
          PROVE  j \in DOMAIN txn' /\ txn'[j] = txn[j]
      BY <2>5, <3>2 DEF ApplyRechargeCapture, Status
    <3>3. ASSUME NEW o \in Order, LegacyMark(o) PROVE j \in DOMAIN txn' /\ txn'[j] = txn[j]
      BY <2>2, <2>5, <3>3 DEF LegacyMark, Status
    <3> QED  BY <2>3, <2>7, <3>1, <3>2, <3>3 DEF Recharge, GatewaySends, CreateRechargeIntent, LegacyCapture, LegacyLookup
  <2>8. CASE Withdraw
    <3>1. ASSUME NEW w \in Withdrawal, ApproveWithdrawal(w) PROVE j \in DOMAIN txn' /\ txn'[j] = txn[j]
      <4>1. PICK i \in DOMAIN txn : Is(i, "hold", w) /\ txn' = Settled(i, "success", txn[i].amount)
        BY <3>1 DEF ApproveWithdrawal
      <4>2. txn[i].status = "pending"
        BY <3>1, <4>1 DEF ApproveWithdrawal, Stories, Story, RowsIn, Is
      <4> QED  BY <2>2, <2>5, <4>1, <4>2 DEF Status, Successful
    <3>2. ASSUME NEW w \in Withdrawal, RejectWithdrawal(w) PROVE j \in DOMAIN txn' /\ txn'[j] = txn[j]
      <4>1. PICK i \in DOMAIN txn :
                /\ ~Successful(i)
                /\ txn' = Append(Settled(i, "failed", txn[i].amount),
                                 Row(withdrawal[w].user, "credit", "reversal", w, withdrawal[w].amount, "success"))
        BY <3>2 DEF RejectWithdrawal
      <4>2. Settled(i, "failed", txn[i].amount)[j] = txn[j]
        BY <2>1, <2>2, <4>1, SettledKeepsSuccess DEF Status
      <4>3. /\ Settled(i, "failed", txn[i].amount) \in Seq(TxnRow)
            /\ Len(Settled(i, "failed", txn[i].amount)) = Len(txn)
        BY <2>1, <2>2, SettledType DEF Status
      <4> QED  BY <2>1, <4>1, <4>2, <4>3
    <3> QED  BY <2>3, <2>8, <3>1, <3>2 DEF Withdraw, RequestWithdrawal
  <2>9. CASE GiveBack
    BY <2>3, <2>9 DEF GiveBack, InitiateRefundRead, InitiateRefundCommit, ProcessRefund, RefundEvent
  <2> QED  BY <2>6, <2>7, <2>8, <2>9 DEF Next
<1> QED  BY <1>1, Invariant, StoriesHold, PTL DEF Spec, SuccessIsFinal

-----------------------------------------------------------------------------
(* The sum over the ledger.  LedgerTotal is a recursive function; what it  *)
(* computes is shown without induction over its argument, by naming its    *)
(* running totals and carrying them from step to step.                     *)

\* A set of numbers that is not empty has a least element.
Less == {pair \in Nat \X Nat : pair[1] < pair[2]}

LEMMA LeastElement ==
    ASSUME NEW S \in SUBSET Nat, S # {}
    PROVE  \E m \in S : \A k \in S : m <= k
<1>1. IsWellFoundedOn(Less, Nat)
  BY NatLessThanWellFounded DEF OpToRel, Less
<1>2. PICK m \in S : \A k \in S : ~(<<k, m>> \in Less)
  BY <1>1, WFMin
<1>3. \A k \in S : ~(k < m)
  BY <1>2 DEF Less
<1> QED  BY <1>3

\* t holds the running totals of a ledger.
Totals(rows, u, t) == t = [n \in 0 .. Len(rows) |-> IF n = 0 THEN 0 ELSE t[n - 1] + Effect(rows[n], u)]

\* The ledger adds up to x.
Adds(rows, u, x) == \E t \in [0 .. Len(rows) -> Int] : Totals(rows, u, t) /\ t[Len(rows)] = x

LEMMA EffectType ==
    ASSUME NEW row \in TxnRow, NEW u
    PROVE  Effect(row, u) \in Int
<1>1. row.amount \in Amount
  BY DEF TxnRow
<1>2. \A a \in Amount : a \in Int /\ -a \in Int
  BY AmountAssumption
<1>3. row.amount \in Int /\ -row.amount \in Int
  BY <1>1, <1>2, Zenon
<1> QED  BY <1>3 DEF Effect

\* Two functions that satisfy the recursion agree: they do at the least index
\* where they would not.
LEMMA TotalsUnique ==
    ASSUME NEW rows, Len(rows) \in Nat, NEW u, NEW t, Totals(rows, u, t), NEW v, Totals(rows, u, v)
    PROVE  \A n \in 0 .. Len(rows) : t[n] = v[n]
<1> DEFINE Apart == {n \in 0 .. Len(rows) : t[n] # v[n]}
<1>1. SUFFICES ASSUME Apart # {} PROVE FALSE
  OBVIOUS
<1> Apart \in SUBSET Nat
  OBVIOUS
<1> HIDE DEF Apart
<1>2. PICK m \in Apart : \A k \in Apart : m <= k
  BY <1>1, LeastElement
<1>3. m \in 0 .. Len(rows) /\ t[m] # v[m]
  BY <1>2 DEF Apart
<1>4. /\ t[m] = IF m = 0 THEN 0 ELSE t[m - 1] + Effect(rows[m], u)
      /\ v[m] = IF m = 0 THEN 0 ELSE v[m - 1] + Effect(rows[m], u)
  BY <1>3 DEF Totals
<1>5. m # 0
  BY <1>3, <1>4
<1>6. m - 1 \in 0 .. Len(rows) /\ ~(m <= m - 1)
  BY <1>3, <1>5
<1>7. t[m - 1] = v[m - 1]
  BY <1>2, <1>6 DEF Apart
<1> QED  BY <1>3, <1>4, <1>5, <1>7

\* What a ledger adds up to is what the recursive function computes.
LEMMA AddsTotal ==
    ASSUME NEW rows \in Seq(TxnRow), NEW u, NEW x, Adds(rows, u, x)
    PROVE  LedgerTotal(rows, u) = x
<1> DEFINE total == CHOOSE t : t = [n \in 0 .. Len(rows) |-> IF n = 0 THEN 0 ELSE t[n - 1] + Effect(rows[n], u)]
<1>1. PICK t : Totals(rows, u, t) /\ t[Len(rows)] = x
  BY DEF Adds
<1>2. Totals(rows, u, total)
  BY <1>1, Zenon DEF Totals
<1>3. Len(rows) \in 0 .. Len(rows) /\ Len(rows) \in Nat
  OBVIOUS
<1>4. t[Len(rows)] = total[Len(rows)]
  BY <1>1, <1>2, <1>3, TotalsUnique
<1>5. LedgerTotal(rows, u) = total[Len(rows)]
  BY Zenon DEF LedgerTotal
<1> QED  BY <1>1, <1>4, <1>5

LEMMA AddsEmpty == ASSUME NEW u PROVE Adds(<< >>, u, 0)
<1> DEFINE t == [n \in 0 .. 0 |-> 0]
<1>1. Len(<< >>) = 0 /\ t \in [0 .. Len(<< >>) -> Int] /\ t[0] = 0
  OBVIOUS
<1>2. Totals(<< >>, u, t)
  BY <1>1 DEF Totals
<1> QED  BY <1>1, <1>2 DEF Adds

\* A further row counts once.
LEMMA AddsAppend ==
    ASSUME NEW rows \in Seq(TxnRow), NEW u, NEW x \in Int, Adds(rows, u, x), NEW row \in TxnRow
    PROVE  Adds(Append(rows, row), u, x + Effect(row, u))
<1> DEFINE more == Append(rows, row)
           N == Len(rows)
<1>1. N \in Nat /\ Len(more) = N + 1 /\ more[N + 1] = row /\ \A n \in 1 .. N : more[n] = rows[n]
  OBVIOUS
<1>2. PICK t \in [0 .. N -> Int] : Totals(rows, u, t) /\ t[N] = x
  BY DEF Adds
<1>3. Effect(row, u) \in Int
  BY EffectType
<1> DEFINE v == [n \in 0 .. N + 1 |-> IF n = N + 1 THEN x + Effect(row, u) ELSE t[n]]
<1> HIDE DEF more, N
<1>4. v \in [0 .. N + 1 -> Int] /\ v[N + 1] = x + Effect(row, u)
  BY <1>1, <1>2, <1>3
<1>5. \A n \in 0 .. N + 1 : v[n] = IF n = 0 THEN 0 ELSE v[n - 1] + Effect(more[n], u)
  <2> SUFFICES ASSUME NEW n \in 0 .. N + 1 PROVE v[n] = IF n = 0 THEN 0 ELSE v[n - 1] + Effect(more[n], u)
    OBVIOUS
  <2>1. CASE n = N + 1
    BY <1>1, <1>2, <2>1
  <2>2. CASE n # N + 1
    <3>1. n \in 0 .. N /\ v[n] = t[n] /\ (n # 0 => n \in 1 .. N /\ v[n - 1] = t[n - 1])
      BY <1>1, <2>2
    <3>2. t[n] = IF n = 0 THEN 0 ELSE t[n - 1] + Effect(rows[n], u)
      BY <1>2, <3>1 DEF Totals, N
    <3> QED  BY <1>1, <3>1, <3>2
  <2> QED  BY <2>1, <2>2
<1>6. Totals(more, u, v)
  BY <1>1, <1>5 DEF Totals
<1> QED  BY <1>1, <1>4, <1>6 DEF Adds, more

\* Overwriting row i moves the totals from i on by the difference.
LEMMA AddsExchange ==
    ASSUME NEW rows \in Seq(TxnRow), NEW u, NEW x \in Int, Adds(rows, u, x), NEW i \in DOMAIN rows,
           NEW row \in TxnRow
    PROVE  Adds([rows EXCEPT ![i] = row], u, x + (Effect(row, u) - Effect(rows[i], u)))
<1> DEFINE other == [rows EXCEPT ![i] = row]
           N == Len(rows)
           d == Effect(row, u) - Effect(rows[i], u)
<1>1. /\ N \in Nat /\ Len(other) = N /\ i \in 1 .. N /\ other[i] = row
      /\ \A n \in 1 .. N : n # i => other[n] = rows[n]
  OBVIOUS
<1>2. PICK t \in [0 .. N -> Int] : Totals(rows, u, t) /\ t[N] = x
  BY DEF Adds
<1>3. Effect(row, u) \in Int /\ Effect(rows[i], u) \in Int /\ d \in Int
  BY EffectType
<1> DEFINE v == [n \in 0 .. N |-> IF n < i THEN t[n] ELSE t[n] + d]
<1>4. \A n \in 1 .. N : Effect(rows[n], u) \in Int
  BY EffectType
<1> HIDE DEF other, N, d
<1>5. v \in [0 .. N -> Int] /\ v[N] = x + d
  BY <1>1, <1>2, <1>3
<1>6. \A n \in 0 .. N : v[n] = IF n = 0 THEN 0 ELSE v[n - 1] + Effect(other[n], u)
  <2> SUFFICES ASSUME NEW n \in 0 .. N PROVE v[n] = IF n = 0 THEN 0 ELSE v[n - 1] + Effect(other[n], u)
    OBVIOUS
  <2>1. t[n] = IF n = 0 THEN 0 ELSE t[n - 1] + Effect(rows[n], u)
    BY <1>2 DEF Totals, N
  <2>2. CASE n = 0
    BY <1>1, <2>1, <2>2
  <2>3. CASE n # 0
    <3>1. n \in 1 .. N /\ n - 1 \in 0 .. N /\ t[n - 1] \in Int /\ t[n] = t[n - 1] + Effect(rows[n], u)
      BY <1>1, <1>2, <2>1, <2>3
    <3>2. CASE n < i
      BY <1>1, <3>1, <3>2
    <3>3. CASE n = i
      <4>1. v[n] = t[n] + d /\ v[n - 1] = t[n - 1] /\ other[n] = row
        BY <1>1, <3>1, <3>3
      <4>2. t[n - 1] + Effect(rows[i], u) + (Effect(row, u) - Effect(rows[i], u)) = t[n - 1] + Effect(row, u)
        BY <1>3, <3>1
      <4> QED  BY <2>3, <3>1, <3>3, <4>1, <4>2 DEF d
    <3>4. CASE n > i
      <4>1. v[n] = t[n] + d /\ v[n - 1] = t[n - 1] + d /\ other[n] = rows[n]
        BY <1>1, <3>1, <3>4
      <4>2. Effect(rows[n], u) \in Int
        BY <1>4, <3>1
      <4>3. t[n - 1] + Effect(rows[n], u) + d = t[n - 1] + d + Effect(rows[n], u)
        BY <1>3, <3>1, <4>2
      <4> QED  BY <2>3, <3>1, <4>1, <4>3
    <3> QED  BY <1>1, <3>1, <3>2, <3>3, <3>4
  <2> QED  BY <2>2, <2>3
<1>7. Totals(other, u, v)
  BY <1>1, <1>6 DEF Totals
<1> QED  BY <1>1, <1>5, <1>7 DEF Adds, other, d

-----------------------------------------------------------------------------
(* The balance and its ledger.                                             *)

\* An intent is a credit and a hold a debit: settling the one books its amount,
\* settling the other leaves the sum alone.
Sides == \A i \in DOMAIN txn : /\ txn[i].category = "recharge" => txn[i].type = "credit"
                               /\ txn[i].category = "hold" => txn[i].type = "debit"

Tallies == Sides /\ \A u \in User : Adds(txn, u, balance[u])

\* What the rows that the operations write say of a wallet.
LEMMA CreditEffect ==
    ASSUME NEW v, NEW c, NEW x, NEW a, NEW u
    PROVE  Effect(Row(v, "credit", c, x, a, "success"), u) = IF u = v THEN a ELSE 0
BY DEF Effect, Row

LEMMA DebitEffect ==
    ASSUME NEW v, NEW c, NEW x, NEW a, NEW u, NEW s
    PROVE  Effect(Row(v, "debit", c, x, a, s), u) = IF u = v THEN -a ELSE 0
BY DEF Effect, Row

LEMMA UnsettledEffect ==
    ASSUME NEW v, NEW c, NEW x, NEW a, NEW u, NEW s, s # "success"
    PROVE  Effect(Row(v, "credit", c, x, a, s), u) = 0
BY DEF Effect, Row

\* A step that appends a row and moves the balances by what the row says.
LEMMA BookedTallies ==
    ASSUME Inv, Tallies, NEW row \in TxnRow, txn' = Append(txn, row),
           row.category = "recharge" => row.type = "credit", row.category = "hold" => row.type = "debit",
           \A u \in User : balance'[u] = balance[u] + Effect(row, u)
    PROVE  Tallies'
<1>1. txn \in Seq(TxnRow) /\ balance \in [User -> Int]
  BY DEF Inv, TypeOK
<1>2. Len(txn) \in Nat /\ DOMAIN txn' = 1 .. Len(txn) + 1 /\ txn'[Len(txn) + 1] = row
      /\ \A i \in DOMAIN txn : txn'[i] = txn[i]
  BY <1>1
<1>3. \A i \in DOMAIN txn' : i \in DOMAIN txn \/ i = Len(txn) + 1
  BY <1>1, <1>2
<1>4. Sides'
  BY <1>2, <1>3 DEF Sides, Tallies
<1>5. ASSUME NEW u \in User PROVE Adds(txn', u, balance'[u])
  <2>1. balance[u] \in Int /\ Adds(txn, u, balance[u])
    BY <1>1 DEF Tallies
  <2> QED  BY <1>1, <2>1, AddsAppend
<1> QED  BY <1>4, <1>5 DEF Tallies

\* A step that settles a row and moves the balances by the difference.
LEMMA SettledTallies ==
    ASSUME Inv, Tallies, NEW i \in DOMAIN txn, NEW s \in Status, NEW a \in Amount, txn' = Settled(i, s, a),
           \A u \in User : balance'[u] = balance[u] + (Effect(Settled(i, s, a)[i], u) - Effect(txn[i], u))
    PROVE  Tallies'
<1> DEFINE row == Row(txn[i].user, txn[i].type, txn[i].category, txn[i].ref, a, s)
<1>1. txn \in Seq(TxnRow) /\ balance \in [User -> Int] /\ txn[i] \in TxnRow
  BY DEF Inv, TypeOK
<1>2. row \in TxnRow /\ row.type = txn[i].type /\ row.category = txn[i].category
  BY <1>1 DEF Row, TxnRow
<1>3. txn' = [txn EXCEPT ![i] = row] /\ Settled(i, s, a)[i] = row
  BY <1>1 DEF Settled
<1> HIDE DEF row
<1>4. Sides'
  BY <1>1, <1>2, <1>3 DEF Sides, Tallies
<1>5. ASSUME NEW u \in User PROVE Adds(txn', u, balance'[u])
  <2>1. balance[u] \in Int /\ Adds(txn, u, balance[u])
    BY <1>1 DEF Tallies
  <2>2. Adds([txn EXCEPT ![i] = row], u, balance[u] + (Effect(row, u) - Effect(txn[i], u)))
    BY <1>1, <1>2, <2>1, AddsExchange
  <2> QED  BY <1>3, <2>2
<1> QED  BY <1>4, <1>5 DEF Tallies

\* Steps that book nothing.
LEMMA NothingBooked ==
    ASSUME Tallies, UNCHANGED <<balance, txn>>
    PROVE  Tallies'
BY DEF Tallies, Sides, Adds

\* A credit or debit with its row.
LEMMA CreditBooked ==
    ASSUME Inv, Tallies, NEW u \in User, NEW a \in Amount, NEW c \in Category \ {"hold"}, NEW x \in Reference,
           Credit(u, a), txn' = Append(txn, Row(u, "credit", c, x, a, "success"))
    PROVE  Tallies'
<1> DEFINE row == Row(u, "credit", c, x, a, "success")
<1>1. row \in TxnRow /\ row.type = "credit" /\ row.category # "hold"
  BY RowType DEF Row, Status
<1>2. a \in Int /\ balance \in [User -> Int]
  BY AmountAssumption DEF Inv, TypeOK
<1>3. \A v \in User : balance'[v] = balance[v] + (IF v = u THEN a ELSE 0)
  BY <1>2 DEF Credit
<1>4. \A v \in User : balance'[v] = balance[v] + Effect(row, v)
  BY <1>3, CreditEffect
<1> HIDE DEF row
<1> QED  BY <1>1, <1>4, BookedTallies DEF row

LEMMA DebitBooked ==
    ASSUME Inv, Tallies, NEW u \in User, NEW a \in Amount, NEW c \in Category \ {"recharge"}, NEW x \in Reference,
           NEW s \in Status, Debit(u, a), txn' = Append(txn, Row(u, "debit", c, x, a, s))
    PROVE  Tallies'
<1> DEFINE row == Row(u, "debit", c, x, a, s)
<1>1. row \in TxnRow /\ row.type = "debit" /\ row.category # "recharge"
  BY RowType DEF Row
<1>2. a \in Int /\ balance \in [User -> Int]
  BY AmountAssumption DEF Inv, TypeOK
<1>3. \A v \in User : balance'[v] = balance[v] + (IF v = u THEN -a ELSE 0)
  BY <1>2 DEF Debit
<1>4. \A v \in User : Effect(row, v) = IF v = u THEN -a ELSE 0
  BY DebitEffect
<1>5. \A v \in User : balance'[v] = balance[v] + Effect(row, v)
  BY <1>3, <1>4
<1> HIDE DEF row
<1> QED  BY <1>1, <1>5, BookedTallies DEF row

\* Both rows of a transfer.
LEMMA TransferBooked ==
    ASSUME Inv, Tallies, NEW u \in User, NEW v \in User, NEW a \in Amount, TransferBalance(u, v, a)
    PROVE  Tallies'
<1> DEFINE out == Row(u, "debit", "transfer", Null, a, "success")
           in == Row(v, "credit", "transfer", Null, a, "success")
           half == Append(txn, out)
<1>1. /\ out \in TxnRow /\ in \in TxnRow
      /\ out.category = "transfer" /\ in.category = "transfer"
  BY RowType DEF Row, Category, Reference, Status
<1>2. txn \in Seq(TxnRow) /\ balance \in [User -> Int] /\ a \in Int
  BY AmountAssumption DEF Inv, TypeOK
<1>3. txn' = txn \o <<out, in>>
  BY DEF TransferBalance
<1>4. /\ \A z \in User : Effect(out, z) = IF z = u THEN -a ELSE 0
      /\ \A z \in User : Effect(in, z) = IF z = v THEN a ELSE 0
  BY DebitEffect, CreditEffect
<1>5. \A z \in User : balance'[z] = IF z = u THEN balance[z] - a ELSE IF z = v THEN balance[z] + a ELSE balance[z]
  BY <1>2 DEF TransferBalance
<1>6. u # v
  BY DEF TransferBalance
<1> HIDE DEF out, in
<1>7. half \in Seq(TxnRow) /\ txn' = Append(half, in)
  BY <1>1, <1>2, <1>3
<1>8. /\ Len(txn) \in Nat /\ DOMAIN txn = 1 .. Len(txn) /\ DOMAIN txn' = 1 .. Len(txn) + 2
      /\ txn'[Len(txn) + 1] = out /\ txn'[Len(txn) + 2] = in
      /\ \A i \in DOMAIN txn : txn'[i] = txn[i]
  BY <1>1, <1>2, <1>3
<1>9. \A i \in DOMAIN txn' : i \in DOMAIN txn \/ i = Len(txn) + 1 \/ i = Len(txn) + 2
  BY <1>8
<1>10. Sides'
  BY <1>1, <1>8, <1>9 DEF Sides, Tallies
<1>11. ASSUME NEW z \in User PROVE Adds(txn', z, balance'[z])
  <2>1. balance[z] \in Int /\ Adds(txn, z, balance[z])
    BY <1>2 DEF Tallies
  <2>2. Adds(half, z, balance[z] + Effect(out, z)) /\ balance[z] + Effect(out, z) \in Int
    BY <1>1, <1>2, <2>1, AddsAppend, EffectType
  <2>3. Adds(Append(half, in), z, balance[z] + Effect(out, z) + Effect(in, z))
    BY <1>1, <1>7, <2>2, AddsAppend
  <2>4. balance'[z] = balance[z] + Effect(out, z) + Effect(in, z)
    BY <1>2, <1>4, <1>5, <1>6, <2>1
  <2> QED  BY <1>7, <2>3, <2>4
<1> QED  BY <1>10, <1>11 DEF Tallies

\* What settling a row does to its effect.
LEMMA SettledRow ==
    ASSUME txn \in Seq(TxnRow), NEW i \in DOMAIN txn, NEW s, NEW a
    PROVE  Settled(i, s, a)[i] = Row(txn[i].user, txn[i].type, txn[i].category, txn[i].ref, a, s)
BY DEF Settled

\* A debit says the same whatever its status; an unsuccessful credit says
\* nothing.
LEMMA EffectOfUnsettled ==
    ASSUME NEW row \in TxnRow, NEW u
    PROVE  /\ row.type = "debit" => Effect(row, u) = IF u = row.user THEN -row.amount ELSE 0
           /\ row.type = "credit" /\ row.status # "success" => Effect(row, u) = 0
BY DEF Effect, TxnRow

\* Recharges: the capture books the intent, its failure and the status that the
\* older endpoint sets nothing.
LEMMA RechargeTallies == Inv /\ Tallies /\ Recharge => Tallies'
<1> SUFFICES ASSUME Inv, Tallies, Recharge PROVE Tallies'
  OBVIOUS
<1>1. txn \in Seq(TxnRow) /\ balance \in [User -> Int]
  BY DEF Inv, TypeOK
<1>2. \A i \in DOMAIN txn : txn[i] \in TxnRow /\ txn[i].user \in User /\ txn[i].amount \in Amount
  BY <1>1, LedgerRow
<1>3. ASSUME NEW o \in Order, NEW p \in Payment, MarkRechargeIntentFailed(o, p) PROVE Tallies'
  <2>1. PICK i \in DOMAIN txn : /\ Is(i, "recharge", o) /\ txn[i].status # "success"
                                /\ txn' = Settled(i, "failed", txn[i].amount)
    BY <1>3 DEF MarkRechargeIntentFailed, Successful
  <2>2. txn[i].type = "credit"
    BY <2>1 DEF Is, Tallies, Sides
  <2>3. ASSUME NEW u \in User
        PROVE  balance'[u] = balance[u] + (Effect(Settled(i, "failed", txn[i].amount)[i], u) - Effect(txn[i], u))
    <3>1. Effect(txn[i], u) = 0
      BY <1>2, <2>1, <2>2, EffectOfUnsettled
    <3>2. Effect(Settled(i, "failed", txn[i].amount)[i], u) = 0
      BY <1>1, <2>2, SettledRow, UnsettledEffect
    <3>3. balance'[u] = balance[u] /\ balance[u] \in Int
      BY <1>1, <1>3 DEF MarkRechargeIntentFailed
    <3> QED  BY <3>1, <3>2, <3>3
  <2> QED  BY <1>2, <2>1, <2>3, SettledTallies DEF Status
<1>4. ASSUME NEW o \in Order, NEW p \in Payment, NEW a \in Amount, ApplyRechargeCapture(o, p, a) PROVE Tallies'
  <2>1. PICK i \in DOMAIN txn : /\ Is(i, "recharge", o) /\ txn[i].status # "success"
                                /\ Credit(txn[i].user, a) /\ txn' = Settled(i, "success", a)
    BY <1>4 DEF ApplyRechargeCapture, Successful
  <2>2. txn[i].type = "credit"
    BY <2>1 DEF Is, Tallies, Sides
  <2>3. ASSUME NEW u \in User
        PROVE  balance'[u] = balance[u] + (Effect(Settled(i, "success", a)[i], u) - Effect(txn[i], u))
    <3>1. Effect(txn[i], u) = 0
      BY <1>2, <2>1, <2>2, EffectOfUnsettled
    <3>2. Effect(Settled(i, "success", a)[i], u) = IF u = txn[i].user THEN a ELSE 0
      BY <1>1, <2>2, SettledRow, CreditEffect
    <3>3. a \in Int /\ balance[u] \in Int
      BY <1>1, AmountAssumption
    <3>4. balance'[u] = IF u = txn[i].user THEN balance[u] + a ELSE balance[u]
      BY <1>1, <1>2, <2>1 DEF Credit
    <3> QED  BY <3>1, <3>2, <3>3, <3>4
  <2> QED  BY <2>1, <2>3, SettledTallies DEF Status
<1>5. ASSUME NEW o \in Order, NEW u \in User, NEW a \in Amount, CreateRechargeIntent(u, o, a) PROVE Tallies'
  <2> DEFINE row == Row(u, "credit", "recharge", o, a, "pending")
  <2>1. row \in TxnRow /\ row.type = "credit" /\ row.category = "recharge"
    BY RowType DEF Row, Category, Reference, Status
  <2>2. \A v \in User : Effect(row, v) = 0
    BY UnsettledEffect
  <2>3. balance' = balance /\ txn' = Append(txn, row)
    BY <1>5 DEF CreateRechargeIntent
  <2> HIDE DEF row
  <2>4. \A v \in User : balance'[v] = balance[v] + Effect(row, v)
    BY <1>1, <2>2, <2>3
  <2> QED  BY <2>1, <2>3, <2>4, BookedTallies
<1>6. ASSUME NEW o \in Order, NEW p \in Payment, NEW u \in User, NEW a \in Amount, LegacyCapture(u, o, p, a)
      PROVE  Tallies'
  BY <1>6, CreditBooked DEF LegacyCapture, Category, Reference
<1>7. ASSUME NEW o \in Order, LegacyMark(o) PROVE Tallies'
  <2>1. PICK i \in DOMAIN txn : /\ Is(i, "recharge", o)
                                /\ txn' = IF Successful(i) THEN txn ELSE Settled(i, "marked", txn[i].amount)
    BY <1>7 DEF LegacyMark
  <2>2. CASE Successful(i)
    BY <1>7, <2>1, <2>2, NothingBooked DEF LegacyMark
  <2>3. CASE ~Successful(i)
    <3>1. txn[i].type = "credit" /\ txn[i].status # "success"
      BY <2>1, <2>3 DEF Is, Tallies, Sides, Successful
    <3>2. ASSUME NEW u \in User
          PROVE  balance'[u] = balance[u] + (Effect(Settled(i, "marked", txn[i].amount)[i], u) - Effect(txn[i], u))
      <4>1. Effect(txn[i], u) = 0
        BY <1>2, <3>1, EffectOfUnsettled
      <4>2. Effect(Settled(i, "marked", txn[i].amount)[i], u) = 0
        BY <1>1, <3>1, SettledRow, UnsettledEffect
      <4>3. balance'[u] = balance[u] /\ balance[u] \in Int
        BY <1>1, <1>7 DEF LegacyMark
      <4> QED  BY <4>1, <4>2, <4>3
    <3> QED  BY <1>2, <2>1, <2>3, <3>2, SettledTallies DEF Status
  <2> QED  BY <2>2, <2>3
<1> QED  BY <1>3, <1>4, <1>5, <1>6, <1>7, NothingBooked DEF Recharge, GatewaySends, LegacyLookup

\* Withdrawals: the hold is booked when it is made, and its reversal is a row of
\* its own.
LEMMA WithdrawTallies == Inv /\ Tallies /\ Withdraw => Tallies'
<1> SUFFICES ASSUME Inv, Tallies, Withdraw PROVE Tallies'
  OBVIOUS
<1>1. txn \in Seq(TxnRow) /\ balance \in [User -> Int]
  BY DEF Inv, TypeOK
<1>2. \A i \in DOMAIN txn : txn[i] \in TxnRow /\ txn[i].user \in User /\ txn[i].amount \in Amount
  BY <1>1, LedgerRow
<1>3. ASSUME NEW i \in DOMAIN txn, txn[i].category = "hold", NEW s, NEW u
      PROVE  Effect(Settled(i, s, txn[i].amount)[i], u) = Effect(txn[i], u)
  <2>1. txn[i].type = "debit"
    BY <1>3 DEF Tallies, Sides
  <2>2. Effect(txn[i], u) = IF u = txn[i].user THEN -txn[i].amount ELSE 0
    BY <1>2, <2>1, EffectOfUnsettled
  <2>3. Effect(Settled(i, s, txn[i].amount)[i], u) = IF u = txn[i].user THEN -txn[i].amount ELSE 0
    BY <1>1, <2>1, SettledRow, DebitEffect
  <2> QED  BY <2>2, <2>3
<1>4. \A i \in DOMAIN txn, u \in User : Effect(txn[i], u) \in Int
  BY <1>2, EffectType
<1>5. ASSUME NEW w \in Withdrawal, NEW u \in User, NEW a \in Amount, RequestWithdrawal(u, w, a) PROVE Tallies'
  BY <1>5, DebitBooked DEF RequestWithdrawal, Category, Reference, Status
<1>6. ASSUME NEW w \in Withdrawal, ApproveWithdrawal(w) PROVE Tallies'
  <2>1. PICK i \in DOMAIN txn : Is(i, "hold", w) /\ txn' = Settled(i, "success", txn[i].amount)
    BY <1>6 DEF ApproveWithdrawal
  <2>2. ASSUME NEW u \in User
        PROVE  balance'[u] = balance[u] + (Effect(Settled(i, "success", txn[i].amount)[i], u) - Effect(txn[i], u))
    <3>1. Effect(Settled(i, "success", txn[i].amount)[i], u) = Effect(txn[i], u)
      BY <1>3, <2>1 DEF Is
    <3>2. balance'[u] = balance[u] /\ balance[u] \in Int /\ Effect(txn[i], u) \in Int
      BY <1>1, <1>4, <1>6 DEF ApproveWithdrawal
    <3> QED  BY <3>1, <3>2
  <2> QED  BY <1>2, <2>1, <2>2, SettledTallies DEF Status
<1>7. ASSUME NEW w \in Withdrawal, RejectWithdrawal(w) PROVE Tallies'
  <2> DEFINE v == withdrawal[w].user
             a == withdrawal[w].amount
             back == Row(v, "credit", "reversal", w, a, "success")
  <2>1. PICK i \in DOMAIN txn : Is(i, "hold", w) /\ txn' = Append(Settled(i, "failed", txn[i].amount), back)
    BY <1>7 DEF RejectWithdrawal
  <2> DEFINE failed == Settled(i, "failed", txn[i].amount)
             row == Row(txn[i].user, txn[i].type, txn[i].category, txn[i].ref, txn[i].amount, "failed")
  <2>2. v \in User /\ a \in Amount
    BY <1>7 DEF RejectWithdrawal, Inv, RefersToRows
  <2>3. back \in TxnRow /\ back.category = "reversal"
    BY <2>2, RowType DEF Row, Category, Reference, Status
  <2>4. row \in TxnRow /\ row.type = txn[i].type /\ row.category = txn[i].category
    BY <1>2 DEF Row, TxnRow, Status
  <2>5. /\ failed \in Seq(TxnRow) /\ Len(failed) = Len(txn) /\ DOMAIN failed = DOMAIN txn
        /\ \A j \in DOMAIN txn : j # i => failed[j] = txn[j]
    BY <1>1, <1>2, SettledType DEF Status
  <2>6. failed[i] = row /\ failed = [txn EXCEPT ![i] = row]
    BY <1>1, SettledRow DEF Settled
  <2>7. \A u \in User : Effect(row, u) = Effect(txn[i], u)
    BY <1>3, <2>1, <2>6 DEF Is
  <2>8. \A u \in User : Effect(back, u) = IF u = v THEN a ELSE 0
    BY CreditEffect
  <2>9. a \in Int /\ \A u \in User : balance'[u] = IF u = v THEN balance[u] + a ELSE balance[u]
    <3>1. balance' = [balance EXCEPT ![v] = balance[v] + a]
      BY <1>7 DEF RejectWithdrawal, Credit
    <3>2. \A b \in Amount : b \in Int
      BY AmountAssumption
    <3> HIDE DEF v, a
    <3> QED  BY <1>1, <2>2, <3>1, <3>2
  <2> HIDE DEF row, back, failed, v, a
  <2>10. /\ Len(txn) \in Nat /\ DOMAIN txn = 1 .. Len(txn) /\ DOMAIN txn' = 1 .. Len(txn) + 1
         /\ txn'[Len(txn) + 1] = back /\ \A j \in DOMAIN txn : txn'[j] = failed[j]
    <3>1. txn' = Append(failed, back)
      BY <2>1 DEF failed
    <3>2. Len(txn) \in Nat /\ DOMAIN txn = 1 .. Len(txn)
      BY <1>1
    <3>3. /\ DOMAIN Append(failed, back) = 1 .. Len(failed) + 1 /\ Append(failed, back)[Len(failed) + 1] = back
          /\ \A j \in 1 .. Len(failed) : Append(failed, back)[j] = failed[j]
      BY <2>5
    <3> QED  BY <2>5, <3>1, <3>2, <3>3
  <2>11. \A j \in DOMAIN txn' : j \in DOMAIN txn \/ j = Len(txn) + 1
    BY <2>10
  <2>12. Sides'
    BY <2>3, <2>4, <2>5, <2>6, <2>10, <2>11 DEF Sides, Tallies
  <2>13. ASSUME NEW u \in User PROVE Adds(txn', u, balance'[u])
    <3>1. balance[u] \in Int /\ Adds(txn, u, balance[u]) /\ Effect(txn[i], u) \in Int
      BY <1>1, <1>4 DEF Tallies
    <3>2. Adds([txn EXCEPT ![i] = row], u, balance[u] + (Effect(row, u) - Effect(txn[i], u)))
      BY <1>1, <2>4, <3>1, AddsExchange
    <3>3. balance[u] + (Effect(row, u) - Effect(txn[i], u)) = balance[u]
      BY <2>7, <3>1
    <3>4. Adds(failed, u, balance[u])
      BY <2>6, <3>2, <3>3
    <3>5. Adds(Append(failed, back), u, balance[u] + Effect(back, u))
      BY <2>3, <2>5, <3>1, <3>4, AddsAppend
    <3>6. balance'[u] = balance[u] + Effect(back, u)
      BY <2>8, <2>9, <3>1
    <3> QED  BY <2>1, <3>5, <3>6 DEF failed
  <2> QED  BY <2>12, <2>13 DEF Tallies
<1> QED  BY <1>5, <1>6, <1>7 DEF Withdraw

\* The balance of every wallet is the sum of its rows in the ledger, for ledgers
\* of any length, whatever webhooks repeat, fail late or come in on both
\* endpoints; an intent the older endpoint only set to success is not counted.
THEOREM BalanceIsLedgerTotal == Spec => []LedgerTallies
<1>1. Init => Tallies
  BY AddsEmpty DEF Init, Tallies, Sides
<1>2. Inv /\ Tallies /\ [Next]_vars => Tallies'
  <2> SUFFICES ASSUME Inv, Tallies, [Next]_vars PROVE Tallies'
    OBVIOUS
  <2>1. CASE Move
    <3>1. ASSUME NEW u \in User, NEW a \in Amount, AddBalance(u, a) PROVE Tallies'
      BY <3>1, CreditBooked DEF AddBalance, Category, Reference
    <3>2. ASSUME NEW u \in User, NEW a \in Amount, DeductBalance(u, a) PROVE Tallies'
      BY <3>2, DebitBooked DEF DeductBalance, Category, Reference, Status
    <3> QED  BY <2>1, <3>1, <3>2, TransferBooked DEF Move
  <2>2. CASE GiveBack
    <3>1. ASSUME NEW f \in Refund, ProcessRefund(f) PROVE Tallies'
      <4>1. txn[refund[f].txn].user \in User /\ refund[f].amount \in Amount
        BY <3>1, LedgerRow DEF ProcessRefund, Inv, TypeOK, RefersToRows
      <4> QED  BY <3>1, <4>1, CreditBooked DEF ProcessRefund, Category, Reference
    <3> QED  BY <2>2, <3>1, NothingBooked DEF GiveBack, InitiateRefundRead, InitiateRefundCommit, RefundEvent
  <2>3. CASE UNCHANGED vars
    BY <2>3, NothingBooked DEF vars
  <2> QED  BY <2>1, <2>2, <2>3, RechargeTallies, WithdrawTallies DEF Next
<1>3. Inv /\ Tallies => LedgerTallies
  BY AddsTotal DEF Inv, TypeOK, Tallies, LedgerTallies
<1> QED  BY <1>1, <1>2, <1>3, Invariant, PTL DEF Spec
=============================================================================
