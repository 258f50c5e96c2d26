----------------------------- MODULE MCAccounts -------------------------------
(* Instances of Accounts. *)
EXTENDS Accounts, TLC

CONSTANTS ann, bob, p1, p2, k1, k2, t1, t2

MCUsers == {ann, bob}
MCPasswords == {p1, p2}
MCTokens == {k1, k2}
MCThreads == {t1, t2}
MCSymmetry ==
  Permutations(MCUsers) \cup Permutations(MCPasswords) \cup Permutations(MCTokens)
    \cup Permutations(MCThreads)
=============================================================================
