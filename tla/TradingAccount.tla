---------------------------- MODULE TradingAccount ---------------------------
(***************************************************************************)
(* The capital arithmetic of TradingAccountService.  An account mutation   *)
(* is computed on a copy, appended to the account ledger, and only then    *)
(* made visible, so an append that throws leaves the account as it was.    *)
(* The daily counters and the exchange balances are left out.              *)
(***************************************************************************)
EXTENDS Integers

\* Every account the operators below can produce.
Accounts == [current : Nat, available : Nat, openTrades : Nat]

NewAccount(capital) == [current |-> capital, available |-> capital, openTrades |-> 0]

Lesser(a, b) == IF a <= b THEN a ELSE b
Greater(a, b) == IF a <= b THEN b ELSE a

\* Seeded fault: the amount is held against the whole capital.
ReservableFromCapital(account, amount) == amount <= account.current

\* reserveCapital() approves an amount only out of the available capital.
Reservable(account, amount) == amount <= account.available

Reserve(account, amount) ==
  [account EXCEPT !.available = @ - amount, !.openTrades = @ + 1]

\* Seeded fault: the release forgets that losses may have shrunk the capital.
ReleaseUnclamped(account, amount) ==
  [account EXCEPT !.available = @ + amount, !.openTrades = Greater(0, @ - 1)]

\* releaseCapital() never makes more available than the account has.
Release(account, amount) ==
  [account EXCEPT !.available = Lesser(account.current, @ + amount),
                  !.openTrades = Greater(0, @ - 1)]

\* recordProfit(): both balances move, neither below zero, and the available
\* one never past the current one.
RecordProfit(account, profit) ==
  LET current == Greater(0, account.current + profit)
  IN  [account EXCEPT !.current = current,
         !.available = Greater(0, Lesser(current, account.available + profit))]
=============================================================================
