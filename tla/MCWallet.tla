------------------------------ MODULE MCWallet ------------------------------
(* TLC instance of Wallet.                                                 *)
EXTENDS Wallet, TLC

WalletSymmetry == Permutations(User) \cup Permutations(Order) \cup Permutations(Payment) \cup Permutations(Withdrawal)
                  \cup Permutations(Refund) \cup Permutations(Clerk)
=============================================================================
