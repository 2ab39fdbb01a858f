----------------------------- MODULE MCAccounts -----------------------------
(* Two people who want the same address, and each person may ask twice.     *)
EXTENDS Accounts

MCPersons == {[name |-> "ann", email |-> "a@x"], [name |-> "bob", email |-> "a@x"], [name |-> "bob", email |-> "b@x"]}
=============================================================================
