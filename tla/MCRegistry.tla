----------------------------- MODULE MCRegistry -----------------------------
(* An instance of Registry for TLC. *)
EXTENDS Registry

Rq(op, tag, files) ==
  [op |-> op, name |-> "m", tag |-> tag, files |-> files, deps |-> <<>>]

Files == <<[filename |-> "a.proto", content |-> "A1"],
           [filename |-> "b.proto", content |-> "B1"]>>

\* One push, one delete of the tag, one pull
Immutable == {<<Rq("Register", "", <<>>), Rq("Push", "v1", Files),
                Rq("DeleteTag", "v1", <<>>), Rq("Pull", "v1", <<>>)>>}
=============================================================================
