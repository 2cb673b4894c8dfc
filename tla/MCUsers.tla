------------------------------ MODULE MCUsers ------------------------------
(* An instance of Users for TLC. *)
EXTENDS Users, Sequences

Rq(op, user, name) ==
  [op |-> op, user |-> user, name |-> name, type |-> "bot", active |-> TRUE,
   module |-> "", permission |-> "", method |-> "Health", token |-> None]

\* One update of one user
UpdateOnce == {<<Rq("CreateUser", None, "a"), Rq("UpdateUser", 1, "b")>>}
=============================================================================
