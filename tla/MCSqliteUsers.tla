--------------------------- MODULE MCSqliteUsers ----------------------------
(***************************************************************************)
(* Instances of SqliteUsers for TLC: handler 1 creates the user the others *)
(* work on, each workload fixes what they do.                              *)
(***************************************************************************)
EXTENDS SqliteUsers, Sequences

Rq(op, user) ==
  [op |-> op, user |-> user, name |-> "", type |-> "bot", active |-> TRUE,
   module |-> "", permission |-> "", method |-> "Health", token |-> None]

Create(name) == [Rq("CreateUser", None) EXCEPT !.name = name]
Update(name, active) == [Rq("UpdateUser", 1) EXCEPT !.name = name, !.active = active]
Rotate == Rq("RegenerateToken", 1)
Delete == Rq("DeleteUser", 1)
Grant(module, p) ==
  [Rq("GrantPermission", 1) EXCEPT !.module = module, !.permission = p]
Revoke(module) == [Rq("RevokePermission", 1) EXCEPT !.module = module]
Call(method, module, token) ==
  [Rq("Call", None) EXCEPT !.method = method, !.module = module, !.token = token]

\* Tokens: updates and rotations of one user, and a caller with the first token
Tokens ==
  {<<Create("a"), x, y, z, Call("Health", "", 1)>> :
     x \in {Update("", TRUE), Update("b", FALSE), Rotate},
     y \in {Update("", FALSE), Rotate, Create("b")},
     z \in {Update("", TRUE), Rotate, Delete}}

\* Permissions: grants on the module and on "*" around the check of a call
Permissions ==
  {<<Create("a"), Grant("m", p), Grant("*", q), x, y>> :
     p \in {"read", "write"}, q \in {"", "read", "admin"},
     x \in {Revoke("m"), Delete, Grant("m", "admin"), Rq("UpdateUser", None)},
     y \in {Call("PushModule", "m", 1), Call("DeleteModule", "m", 1),
            Call("ListModules", "", 1), Call("UserService", "", AdminToken),
            Call("PullModule", "m", None)}}

TokensAndPermissions == Tokens \cup Permissions
=============================================================================
