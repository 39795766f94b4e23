------------------------------- MODULE MCRegister -------------------------------
(* Register on a small instance; one user's name is the other's address.            *)
EXTENDS Register, TLC

CONSTANTS e1, e2, n1, p1, p2, k1, k2

AskCode(e) == [kind |-> "code", email |-> e]
Ask(e, n, p) == [kind |-> "register", email |-> e, name |-> n, pwd |-> p, code |-> k1]
Login(i, p) == [kind |-> "login", ident |-> i, pwd |-> p]

(* Two accounts, the name of one the address of the other, and a third that collides  *)
(* with both; a code that is asked for; a login under the shared identifier.         *)
SomeAsked == {AskCode(e1), Ask(e1, e2, p2), Ask(e2, n1, p2), Ask(e2, e2, p1), Login(e2, p2)}

(* Calls for a code only.                                                            *)
OnlyCodes == {AskCode(e1)}

================================================================================
