--------------------------- MODULE AccountAssets ---------------------------
(* The spot balance sheet of x/account (keeper/asset.go): every account    *)
(* holds, per asset, a balance and the part of it that resting spot orders *)
(* have locked.  The keeper functions are operators from one sheet `k' to  *)
(* the next; a predicate named after the guard says when they return nil.  *)
EXTENDS Integers

CONSTANTS Accounts, \* account indexes, the treasury account among them
          Assets    \* asset indexes

Rows == Accounts \X Assets

BankType == [bal : [Rows -> Nat], locked : [Rows -> Nat]]

LesserOf(x, y) == IF x <= y THEN x ELSE y

\* AvailableBalance: Balance - LockedBalance, clamped at zero.
AvailableBalance(k, a, s) ==
  LET avail == k.bal[<<a, s>>] - k.locked[<<a, s>>]
  IN IF avail < 0 THEN 0 ELSE avail

\* Mutant: the guard forgets what is locked already.
CanLockTwice(k, a, s, amount) == k.bal[<<a, s>>] >= amount

\* IncreaseLockedBalance and its ErrInsufficientFunds guard.
CanLock(k, a, s, amount) ==
  amount = 0 \/ k.bal[<<a, s>>] - k.locked[<<a, s>>] >= amount

IncreaseLockedBalance(k, a, s, amount) ==
  [k EXCEPT !.locked[<<a, s>>] = @ + amount]

\* DecreaseLockedBalance: an over-release is clamped to what is locked.
DecreaseLockedBalance(k, a, s, amount) ==
  [k EXCEPT !.locked[<<a, s>>] = @ - LesserOf(amount, @)]

\* Mutant: locked funds may leave too.
CanDebitLocked(k, a, s, amount) == k.bal[<<a, s>>] >= amount

\* AddAccountAssetBalance with a negative delta: only available funds leave.
CanDebit(k, a, s, amount) == k.bal[<<a, s>>] - k.locked[<<a, s>>] >= amount

AddAccountAssetBalance(k, a, s, delta) == [k EXCEPT !.bal[<<a, s>>] = @ + delta]

\* TransferAccountAssetBalance.  The source row is written first and the
\* destination row, read before that write, second: with from = to the second
\* write wins.
CanTransfer(k, from, s, amount, drainLockedFirst) ==
  \/ amount = 0
  \/ IF drainLockedFirst
       THEN k.bal[<<from, s>>] >= amount
       ELSE k.bal[<<from, s>>] - k.locked[<<from, s>>] >= amount

\* Mutant: the destination row is overwritten instead of credited.
TransferOverwrites(k, from, to, s, amount, drainLockedFirst) ==
  IF amount = 0 THEN k ELSE
  LET drain == IF drainLockedFirst THEN LesserOf(amount, k.locked[<<from, s>>]) ELSE 0
  IN [bal    |-> [k.bal EXCEPT ![<<from, s>>] = @ - amount, ![<<to, s>>] = amount],
      locked |-> [k.locked EXCEPT ![<<from, s>>] = @ - drain]]

TransferAccountAssetBalance(k, from, to, s, amount, drainLockedFirst) ==
  IF amount = 0 THEN k ELSE
  LET drain == IF drainLockedFirst THEN LesserOf(amount, k.locked[<<from, s>>]) ELSE 0
  IN [bal    |-> [k.bal EXCEPT ![<<from, s>>] = @ - amount,
                               ![<<to, s>>]   = k.bal[<<to, s>>] + amount],
      locked |-> [k.locked EXCEPT ![<<from, s>>] = @ - drain,
                                  ![<<to, s>>]   = k.locked[<<to, s>>]]]
=============================================================================
