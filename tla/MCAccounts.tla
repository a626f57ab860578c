----------------------------- MODULE MCAccounts -----------------------------
(* Small instances of Accounts: three emails, four concurrent calls. *)
EXTENDS Accounts, TLC

CONSTANTS e1, e2, e3, n1, n2, p1

Send(op, e)  == [op |-> op, email |-> e]
Reset(e, p)  == [op |-> "reset", email |-> e, password |-> p]
Enter(e, p)  == [op |-> "login", email |-> e, password |-> p]
Naming(e, n) == [op |-> "rename", email |-> e, name |-> n]

(* A user with a name, one without, and an email that is free. *)
TwoUsers ==
  (e1 :> [hash |-> p1, status |-> "ACTIVE", name |-> n1])
  @@ (e2 :> [hash |-> p1, status |-> "ACTIVE", name |-> Nobody])
  @@ (e3 :> Nobody)

(* Registration against its codes and logins; a name given up and taken     *)
(* while a reset holds the row that had it.                                 *)
SomeCalls ==
  {Send("register", e3), Send("forgot", e1),
   Reset(e3, Default), Reset(e3, p1), Reset(e1, p1),
   Enter(e3, Default),
   Naming(e1, n2), Naming(e2, n1)}

OneReset == {Send("forgot", e1), Reset(e1, p1)}

Symmetry == Permutations(Handlers)
=============================================================================
