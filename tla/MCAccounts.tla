----------------------------- MODULE MCAccounts -----------------------------
EXTENDS Accounts, TLC

CONSTANTS c1, c2

TwoSlots == {c1, c2}
Symmetric == Permutations(TwoSlots)

Tokens == {"login", "refresh", "logout"}
Forgotten == {"login", "forgot", "reset"}
Strangers == {"register", "send", "verify"}
Google == {"register", "google", "ban"}
Administered == {"google", "refresh", "request", "delete", "restore"}
AllWorkloads == {Tokens, Forgotten, Strangers, Google, Administered}
=============================================================================
