---------------------------- MODULE TokenLedger ----------------------------
(***************************************************************************)
(* Balances of the SDK's token module and the calls the modules make to    *)
(* it.  A ledger maps <<account, token>> to the available and the locked   *)
(* balance.  A call is a sequence of updates of accounts, each of which    *)
(* reads one record and writes it back later.                              *)
(***************************************************************************)
EXTENDS Integers, Sequences

Debit(account, token, amount) ==
    [key |-> <<account, token>>, available |-> -amount, locked |-> 0]
Credit(account, token, amount) ==
    [key |-> <<account, token>>, available |-> amount, locked |-> 0]
Locking(account, token, amount) ==
    [key |-> <<account, token>>, available |-> -amount, locked |-> amount]

Transfer(sender, recipient, token, amount) ==
    <<Debit(sender, token, amount), Credit(recipient, token, amount)>>
Lock(account, token, amount) == <<Locking(account, token, amount)>>
Unlock(account, token, amount) == Lock(account, token, -amount)

\* An update throws when the balance it takes from is too low.
Covers(account, step) ==
    /\ account.available + step.available >= 0
    /\ account.locked + step.locked >= 0

Moved(account, step) ==
    [available |-> account.available + step.available,
     locked |-> account.locked + step.locked]
=============================================================================
