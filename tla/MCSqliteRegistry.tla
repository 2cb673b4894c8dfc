-------------------------- MODULE MCSqliteRegistry --------------------------
(***************************************************************************)
(* Instances of SqliteRegistry for TLC, behind either driver: drafts, and  *)
(* pushes that contend for a tag and for the write lock.                   *)
(***************************************************************************)
EXTENDS SqliteRegistry

R(op) == [op |-> op, name |-> "m", tag |-> "v1", files |-> <<>>, deps |-> <<>>]
F(name, content) == [filename |-> name, content |-> content]

TwoFiles == <<F("a.proto", "A1"), F("b.proto", "B1")>>
OneFile == <<F("a.proto", "A2")>>
TwiceTheFile == <<F("a.proto", "A1"), F("a.proto", "A2")>>

Push(tag, files) == [R("Push") EXCEPT !.tag = tag, !.files = files]
PushOn(tag, dep) ==
  [Push(tag, OneFile) EXCEPT !.deps = <<[name |-> "m", tag |-> dep]>>]
Draft(files) == [R("PushDraft") EXCEPT !.files = files]

\* Drafts alone, and beside a stable tag of the same name
Drafts ==
  {<<R("Register"), Draft(TwoFiles), Draft(OneFile), R(op)>> :
     op \in {"Pull", "DeleteModule"}}
  \cup
  {<<R("Register"), Draft(TwoFiles), Push("v1", OneFile), R(op)>> :
     op \in {"Pull", "DeleteTag"}}

\* Two transactions, and a request whose statements come between theirs
Pushes ==
  {<<R("Register"), Push("v1", TwoFiles), Push("v1", OneFile), R("DeleteModule")>>,
   <<R("Register"), Push("v1", TwoFiles), Push("v2", TwiceTheFile), R("DeleteTag")>>,
   <<R("Register"), Push("v1", TwoFiles), PushOn("v2", "v1"), R("GetDependencies")>>}

\* Two calls that wait for each other's connections, and one that meets a
\* dependency deleted under it
Dependencies ==
  {<<R("Register"), PushOn("v1", "v1"), R("GetDependencies"), R(op)>> :
     op \in {"GetDependencies", "DeleteTag"}}

EveryWorkload == Drafts \cup Pushes \cup Dependencies
=============================================================================
