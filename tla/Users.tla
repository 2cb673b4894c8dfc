------------------------------- MODULE Users -------------------------------
(***************************************************************************)
(* Users, tokens and permissions: the handlers of internal/server/users.go *)
(* over the users and acl tables, and the authentication and authorisation *)
(* middlewares that read these tables before every call.                   *)
(*                                                                         *)
(* As in Registry, one action is one SQL statement, a handler c serves the *)
(* single request req[c], and the id of the row it inserts is c.  The      *)
(* token generateToken draws for handler c is c too.                       *)
(***************************************************************************)
EXTENDS Naturals, FiniteSets

CONSTANTS
  Client,       \* the handlers
  Workload,     \* the assignments of requests to handlers to consider
  ForeignKeys,  \* does a connection enforce foreign keys?  {TRUE} on PostgreSQL
  AdminToken,   \* SERVER_STATIC_TOKEN
  None          \* no id, no token, no row

ASSUME ForeignKeysAssumption == ForeignKeys \subseteq BOOLEAN /\ ForeignKeys # {}

ASSUME ModelValuesAssumption ==
  None \notin Client /\ AdminToken \notin Client \cup {None}

Permission == {"read", "write", "admin"}

Operation == {"CreateUser", "UpdateUser", "DeleteUser", "RegenerateToken",
              "GrantPermission", "RevokePermission", "Call"}

Method == {"ListModules", "PullModule", "PushModule", "DeleteModule",
           "UserService", "AcknowledgeDriftEvent", "Health"}

\* user: an id, None if it does not parse; token: the one a Call presents
Request == [op : Operation, user : Client \cup {None}, name : STRING,
            type : STRING, active : BOOLEAN, module : STRING,
            permission : STRING, method : Method,
            token : Client \cup {AdminToken, None}]

ASSUME WorkloadAssumption == Workload \subseteq [Client -> Request]

VARIABLES
  users,        \* rows [id, name, token, is_active]
  acl,          \* rows [user_id, module_name, permission]
  req, pc, answer,
  loc,          \* the user row a handler has read
  superseded,   \* history: tokens that a rotation has overwritten
  deactivated,  \* history: users deactivated with no rotation under way
  held,         \* history: calls that had the permission while being checked
  overtaken     \* history: calls that a grant overtook between two selects

tables == <<users, acl>>
history == <<superseded, deactivated>>
vars == <<users, acl, req, pc, answer, loc, superseded, deactivated, held,
          overtaken>>

-----------------------------------------------------------------------------

Statement == {"Validate", "InsertUser", "SelectUser", "UpdateRow",
              "DeletePermissions", "DeleteUserRow", "InsertGrant",
              "SelectBack", "DeleteGrant", "Authenticate", "SelectExact", "SelectWildcard",
              "Done"}

Status == {"none", "ok", "invalid", "user not found", "permission not found",
           "token invalid", "permission denied", "internal", "error"}

\* A stored token: the plain one and how often it has been hashed
StoredToken == [plain : Client, hashes : Nat]

\* crypt(t, gen_salt('bf')), sha256hex(t): of a plain token or of a stored one
Crypt(t) == [plain |-> t.plain, hashes |-> t.hashes + 1]
Plain(c) == [plain |-> c, hashes |-> 0]

UserRows(id) == {u \in users : u.id = id}

\* hasRequiredPermission
Level == [read |-> 1, write |-> 2, admin |-> 3]
HasRequiredPermission(granted, required) == Level[granted] >= Level[required]

AclRows(id, module) == {a \in acl : a.user_id = id /\ a.module_name = module}

\* getRequiredPermission; "" is no check
RequiredPermission(method) ==
  CASE method \in {"ListModules", "PullModule"} -> "read"
    [] method \in {"PushModule", "AcknowledgeDriftEvent"} -> "write"
    [] method \in {"DeleteModule", "UserService"} -> "admin"
    [] method = "Health" -> ""

\* extractModuleName: a request without a module name asks for "*"
RequiredModule(r) ==
  IF r.method \in {"PullModule", "PushModule", "DeleteModule"} /\ r.module # ""
  THEN r.module
  ELSE "*"

\* Mutant: permissionFromV1's default case is dropped
ValidAnyPermission(r) ==
  CASE r.op = "CreateUser" -> r.type \in {"user", "bot"} /\ r.name # ""
    [] r.op = "Call" -> r.token # None
    [] OTHER -> r.user # None

\* The checks each handler makes first
Valid(r) ==
  CASE r.op = "CreateUser" -> r.type \in {"user", "bot"} /\ r.name # ""
    [] r.op = "GrantPermission" -> r.user # None /\ r.permission \in Permission
    [] r.op = "Call" -> r.token # None
    [] OTHER -> r.user # None

FirstStatement(op) ==
  CASE op = "CreateUser" -> "InsertUser"
    [] op \in {"UpdateUser", "RegenerateToken", "GrantPermission"} -> "SelectUser"
    [] op = "DeleteUser" -> "DeletePermissions"
    [] op = "RevokePermission" -> "DeleteGrant"
    [] op = "Call" -> "Authenticate"

At(c, s) == pc[c] = s /\ answer[c] = "none"

Goto(c, s) ==
  /\ pc' = [pc EXCEPT ![c] = s]
  /\ UNCHANGED <<answer, req>>

Succeed(c) ==
  /\ pc' = [pc EXCEPT ![c] = "Done"]
  /\ answer' = [answer EXCEPT ![c] = "ok"]
  /\ UNCHANGED req

\* An early return: pc keeps the statement at which the handler gave up
Fail(c, status) ==
  /\ answer' = [answer EXCEPT ![c] = status]
  /\ UNCHANGED <<pc, req>>

Validate(c) ==
  /\ At(c, "Validate")
  /\ \/ Valid(req[c]) /\ Goto(c, FirstStatement(req[c].op))
     \/ /\ ~Valid(req[c])
        /\ Fail(c, IF req[c].op = "Call" THEN "token invalid" ELSE "invalid")
  /\ UNCHANGED <<tables, loc, history, overtaken>>

\* The request's context is cancelled between two statements.
Abort(c) ==
  /\ answer[c] = "none" /\ pc[c] # "Validate"
  /\ Fail(c, "error")
  /\ UNCHANGED <<tables, loc, history, overtaken>>

-----------------------------------------------------------------------------
(* CreateUser, UpdateUser, RegenerateToken                                 *)

NameTaken(name, id) == \E u \in users : u.name = name /\ u.id # id

\* INSERT INTO users, UNIQUE (name)
InsertUser(c) ==
  /\ At(c, "InsertUser")
  /\ \/ /\ NameTaken(req[c].name, c)
        /\ Fail(c, "internal")
        /\ UNCHANGED users
     \/ /\ ~NameTaken(req[c].name, c)
        /\ users' = users \cup {[id |-> c, name |-> req[c].name,
                                 token |-> Crypt(Plain(c)), is_active |-> TRUE]}
        /\ Succeed(c)
  /\ UNCHANGED <<acl, loc, history, overtaken>>

\* GetUser, as UpdateUser, RegenerateToken and GrantPermission call it
SelectUser(c) ==
  /\ At(c, "SelectUser")
  /\ \/ /\ UserRows(req[c].user) = {}
        /\ Fail(c, "user not found")
        /\ UNCHANGED loc
     \/ \E u \in UserRows(req[c].user) :
          /\ loc' = [loc EXCEPT ![c] = u]
          /\ Goto(c, IF req[c].op = "GrantPermission" THEN "InsertGrant"
                     ELSE "UpdateRow")
  /\ UNCHANGED <<tables, history, overtaken>>

\* Mutant: a rotation also activates the user
UpdatedRowActivates(c) ==
  LET u == loc[c]
  IN  IF req[c].op = "RegenerateToken"
      THEN [u EXCEPT !.token = Crypt(Plain(c)), !.is_active = TRUE]
      ELSE [u EXCEPT !.name = IF req[c].name = "" THEN @ ELSE req[c].name,
                     !.token = Crypt(@),
                     !.is_active = req[c].active]

\* Mutant: the update writes the stored token back as it was read
UpdatedRowKeepsHash(c) ==
  LET u == loc[c]
  IN  IF req[c].op = "RegenerateToken"
      THEN [u EXCEPT !.token = Crypt(Plain(c))]
      ELSE [u EXCEPT !.name = IF req[c].name = "" THEN @ ELSE req[c].name,
                     !.is_active = req[c].active]

\* The row the handler writes back: every column, from what it read.  The
\* repository hashes user.Token, which for UpdateUser is the stored hash.
UpdatedRow(c) ==
  LET u == loc[c]
  IN  IF req[c].op = "RegenerateToken"
      THEN [u EXCEPT !.token = Crypt(Plain(c))]
      ELSE [u EXCEPT !.name = IF req[c].name = "" THEN @ ELSE req[c].name,
                     !.token = Crypt(@),
                     !.is_active = req[c].active]

\* A rotation of this user has read an active row and not yet written it
RotationUnderWay(id) ==
  \E r \in Client : /\ req[r].op = "RegenerateToken" /\ req[r].user = id
                    /\ At(r, "UpdateRow") /\ loc[r].is_active

\* UPDATE users SET name, token, type, is_active WHERE id; UNIQUE (name)
UpdateRow(c) ==
  LET row == UpdatedRow(c)
      old == UserRows(row.id)
  IN  /\ At(c, "UpdateRow")
      /\ \/ /\ old = {} \/ NameTaken(row.name, row.id)
            /\ Fail(c, "internal")
            /\ UNCHANGED <<users, history>>
         \/ /\ old # {} /\ ~NameTaken(row.name, row.id)
            /\ users' = (users \ old) \cup {row}
            /\ superseded' = IF req[c].op = "RegenerateToken"
                             THEN superseded \cup {u.token.plain : u \in old}
                             ELSE superseded
            /\ deactivated' = IF req[c].op = "RegenerateToken" THEN deactivated
                              ELSE IF row.is_active \/ RotationUnderWay(row.id)
                              THEN deactivated \ {row.id}
                              ELSE deactivated \cup {row.id}
            /\ Succeed(c)
      /\ UNCHANGED <<acl, loc, overtaken>>

-----------------------------------------------------------------------------
(* DeleteUser, GrantPermission, RevokePermission                           *)

DeletePermissions(c) ==
  /\ At(c, "DeletePermissions")
  /\ acl' = {a \in acl : a.user_id # req[c].user}
  /\ Goto(c, "DeleteUserRow")
  /\ UNCHANGED <<users, loc, history, overtaken>>

\* Mutant: the foreign key does not cascade
DeleteUserRowOnly(c, enforced) ==
  /\ At(c, "DeleteUserRow")
  /\ users' = users \ UserRows(req[c].user)
  /\ IF UserRows(req[c].user) = {} THEN Fail(c, "user not found") ELSE Succeed(c)
  /\ UNCHANGED <<acl, loc, history, overtaken>>

\* DELETE FROM users; ON DELETE CASCADE takes the permissions granted since, if
\* the connection enforces foreign keys
DeleteUserRow(c, enforced) ==
  /\ At(c, "DeleteUserRow")
  /\ users' = users \ UserRows(req[c].user)
  /\ acl' = {a \in acl : a.user_id # req[c].user \/ ~enforced}
  /\ IF UserRows(req[c].user) = {} THEN Fail(c, "user not found") ELSE Succeed(c)
  /\ UNCHANGED <<loc, history, overtaken>>

\* A grant for the module comes between the two selects of the call d
Overtaken(id, module) ==
  {d \in Client : /\ At(d, "SelectWildcard") /\ loc[d].id = id
                  /\ RequiredModule(req[d]) = module}

\* INSERT INTO acl ... ON CONFLICT (user_id, module_name) DO UPDATE
UpsertGrant(c) ==
  LET id == req[c].user
      module == req[c].module
  IN  /\ acl' = (acl \ AclRows(id, module)) \cup
                  {[user_id |-> id, module_name |-> module,
                    permission |-> req[c].permission]}
      /\ overtaken' = overtaken \cup Overtaken(id, module)

\* ... which the foreign key refuses when the user is gone
InsertGrant(c, enforced) ==
  /\ At(c, "InsertGrant")
  /\ \/ /\ enforced /\ UserRows(req[c].user) = {}
        /\ Fail(c, "internal")
        /\ UNCHANGED <<acl, overtaken>>
     \/ /\ enforced => UserRows(req[c].user) # {}
        /\ UpsertGrant(c)
        /\ Succeed(c)
  /\ UNCHANGED <<users, loc, history>>

DeleteGrant(c) ==
  LET rows == AclRows(req[c].user, req[c].module)
  IN  /\ At(c, "DeleteGrant")
      /\ acl' = acl \ rows
      /\ IF rows = {} THEN Fail(c, "permission not found") ELSE Succeed(c)
      /\ UNCHANGED <<users, loc, history, overtaken>>

-----------------------------------------------------------------------------
(* The middlewares of a call: aclAuth, then authorisation.                 *)

\* A caller has its token from the answer that showed it.
Shown(t) == t # AdminToken => answer[t] = "ok"

\* token = crypt($1, token) AND is_active
Matches(u, t) == u.is_active /\ u.token = Crypt(Plain(t))

Authenticate(c) ==
  LET t == req[c].token
      rows == {u \in users : Matches(u, t)}
      required == RequiredPermission(req[c].method)
  IN  /\ At(c, "Authenticate") /\ Shown(t)
      /\ \/ t = AdminToken /\ Succeed(c) /\ UNCHANGED loc
         \/ /\ t # AdminToken /\ rows = {}
            /\ Fail(c, "token invalid")
            /\ UNCHANGED loc
         \/ /\ t # AdminToken
            /\ \E u \in rows : loc' = [loc EXCEPT ![c] = u]
            /\ IF required = "" THEN Succeed(c) ELSE Goto(c, "SelectExact")
      /\ UNCHANGED <<tables, history, overtaken>>

Decide(c, granted) ==
  IF HasRequiredPermission(granted, RequiredPermission(req[c].method))
  THEN Succeed(c)
  ELSE Fail(c, "permission denied")

\* Mutant: an exact row that does not suffice falls back to the wildcard
SelectExactFallsBack(c) ==
  LET rows == AclRows(loc[c].id, RequiredModule(req[c]))
      enough == {a \in rows : HasRequiredPermission(a.permission,
                                RequiredPermission(req[c].method))}
  IN  /\ At(c, "SelectExact")
      /\ \/ enough = {} /\ Goto(c, "SelectWildcard")
         \/ enough # {} /\ Succeed(c)
      /\ UNCHANGED <<tables, loc, history, overtaken>>

\* CheckPermission's first select: a row for the module decides alone
SelectExact(c) ==
  LET rows == AclRows(loc[c].id, RequiredModule(req[c]))
  IN  /\ At(c, "SelectExact")
      /\ \/ rows = {} /\ Goto(c, "SelectWildcard")
         \/ \E a \in rows : Decide(c, a.permission)
      /\ UNCHANGED <<tables, loc, history, overtaken>>

\* Its second: the row for "*"
SelectWildcard(c) ==
  LET rows == AclRows(loc[c].id, "*")
  IN  /\ At(c, "SelectWildcard")
      /\ \/ rows = {} /\ Fail(c, "permission denied")
         \/ \E a \in rows : Decide(c, a.permission)
      /\ UNCHANGED <<tables, loc, history, overtaken>>

-----------------------------------------------------------------------------

\* What CheckPermission would answer if its two selects saw one state
Effective(c) ==
  LET exact == AclRows(loc[c].id, RequiredModule(req[c]))
      rows == IF exact # {} THEN exact ELSE AclRows(loc[c].id, "*")
  IN  \E a \in rows : HasRequiredPermission(a.permission,
                        RequiredPermission(req[c].method))

BeingChecked(c) == At(c, "SelectExact") \/ At(c, "SelectWildcard")

Init ==
  /\ users = {} /\ acl = {}
  /\ req \in Workload
  /\ pc = [c \in Client |-> "Validate"]
  /\ answer = [c \in Client |-> "none"]
  /\ loc = [c \in Client |-> None]
  /\ superseded = {} /\ deactivated = {} /\ held = {} /\ overtaken = {}

Step(c) ==
  \/ Validate(c) \/ Abort(c)
  \/ InsertUser(c) \/ SelectUser(c) \/ UpdateRow(c)
  \/ DeletePermissions(c) \/ DeleteGrant(c)
  \/ \E enforced \in ForeignKeys : DeleteUserRow(c, enforced) \/ InsertGrant(c, enforced)
  \/ Authenticate(c) \/ SelectExact(c) \/ SelectWildcard(c)

Observe == held' = held \cup {c \in Client : BeingChecked(c)' /\ Effective(c)'}

Next == (\E c \in Client : Step(c)) /\ Observe

Spec == Init /\ [][Next]_vars

-----------------------------------------------------------------------------
(* Properties                                                              *)

User == [id : Client, name : STRING, token : StoredToken, is_active : BOOLEAN]

\* The tables respect the schema: a permission row always names one of the
\* three levels, whatever number the request carried.
TypeOK ==
  /\ users \subseteq User
  /\ acl \subseteq [user_id : Client, module_name : STRING,
                    permission : Permission]
  /\ req \in [Client -> Request]
  /\ pc \in [Client -> Statement]
  /\ answer \in [Client -> Status]
  /\ loc \in [Client -> User \cup {None}]
  /\ superseded \subseteq Client /\ deactivated \subseteq Client
  /\ held \subseteq Client /\ overtaken \subseteq Client

\* "Rotate a compromised token": a token that RegenerateToken has replaced is
\* never accepted again, although UpdateUser and RegenerateToken write back a
\* whole row that they read earlier.
RotatedTokenStaysDead ==
  \A u \in users : \A t \in superseded : u.token # Crypt(Plain(t))

\* A user whom UpdateUser has deactivated stays inactive until UpdateUser
\* activates it again, unless a RegenerateToken had read the row before and
\* writes is_active back.
DeactivationHolds ==
  \A u \in users : u.id \in deactivated => ~u.is_active

\* A call that is let through had, at one moment of its check, the permission
\* of its module's row or without one that of "*": the two selects disagree
\* with every single state only if a grant for the module came between them.
AllowedWasEffective ==
  \A c \in Client :
    /\ req[c].op = "Call" /\ answer[c] = "ok" /\ req[c].token # AdminToken
    /\ RequiredPermission(req[c].method) # ""
    => c \in held \cup overtaken

\* README: "Tokens are displayed only once - at creation or rotation time",
\* so the token displayed at creation is good until it is rotated.
ShownTokenAuthenticates ==
  \A c \in Client :
    /\ req[c].op = "CreateUser" /\ answer[c] = "ok"
    /\ \A r \in Client : req[r].op = "RegenerateToken" => pc[r] = "Validate"
    => \A u \in UserRows(c) : u.is_active => Matches(u, c)
=============================================================================
