---------------------------- MODULE SqliteUsers -----------------------------
(***************************************************************************)
(* Users and permissions behind the driver that was opened: PostgreSQL,    *)
(* which Users models, or SQLite (sqlite/users.go and sqlite/acl.go).      *)
(*                                                                         *)
(* Two things differ on SQLite.  Only one connection of the pool enforces  *)
(* foreign keys, so which grants are refused and which permissions cascade *)
(* depends on the connection a statement gets.  And GrantPermission reads  *)
(* back the row it has written, in a second statement.                     *)
(***************************************************************************)
EXTENDS Users

CONSTANT Drivers   \* the drivers that may be opened

ASSUME DriversAssumption == Drivers \subseteq {"postgres", "sqlite"}

\* PostgreSQL enforces foreign keys on every connection
ASSUME PostgresAssumption == ForeignKeys = {TRUE}

VARIABLES
  driver,
  loose   \* history: users that a statement without foreign keys was about

svars == <<driver, loose>>

-----------------------------------------------------------------------------
(* userRepo and aclRepo, one definition for each method                    *)

CreateUser(c) == InsertUser(c) /\ UNCHANGED svars

GetUser(c) == SelectUser(c) /\ UNCHANGED svars

\* sha256hex in place of crypt(): UpdatedRow's Crypt
UpdateUser(c) == UpdateRow(c) /\ UNCHANGED svars

DeleteUserPermissions(c) == DeletePermissions(c) /\ UNCHANGED svars

DeleteUser(c) ==
  \E enforced \in BOOLEAN :
    /\ DeleteUserRow(c, enforced)
    /\ loose' = IF enforced THEN loose ELSE loose \cup {req[c].user}
    /\ UNCHANGED driver

\* Mutant: ON CONFLICT DO NOTHING
UpsertKeepsOld(c) ==
  /\ At(c, "InsertGrant")
  /\ acl' = IF AclRows(req[c].user, req[c].module) # {} THEN acl
            ELSE acl \cup {[user_id |-> req[c].user,
                            module_name |-> req[c].module,
                            permission |-> req[c].permission]}
  /\ overtaken' = overtaken \cup Overtaken(req[c].user, req[c].module)
  /\ Goto(c, "SelectBack")
  /\ UNCHANGED <<users, loc, history, svars>>

\* INSERT ... ON CONFLICT DO UPDATE; the handler is not done yet
Upsert(c) ==
  \E enforced \in BOOLEAN :
    /\ At(c, "InsertGrant")
    /\ \/ /\ enforced /\ UserRows(req[c].user) = {}
          /\ Fail(c, "internal")
          /\ UNCHANGED <<acl, overtaken>>
       \/ /\ enforced => UserRows(req[c].user) # {}
          /\ UpsertGrant(c)
          /\ Goto(c, "SelectBack")
    /\ loose' = IF enforced THEN loose ELSE loose \cup {req[c].user}
    /\ UNCHANGED <<users, loc, history, driver>>

\* SELECT id, created_at FROM acl: without a row the grant answers an error
SelectBack(c) ==
  /\ At(c, "SelectBack")
  /\ IF AclRows(req[c].user, req[c].module) # {}
     THEN Succeed(c) ELSE Fail(c, "internal")
  /\ UNCHANGED <<tables, loc, history, overtaken, svars>>

GrantPermission(c) == Upsert(c) \/ SelectBack(c)

RevokePermission(c) == DeleteGrant(c) /\ UNCHANGED svars

\* token = sha256hex($1) AND is_active = 1
GetUserByToken(c) == Authenticate(c) /\ UNCHANGED svars

CheckPermission(c) == (SelectExact(c) \/ SelectWildcard(c)) /\ UNCHANGED svars

-----------------------------------------------------------------------------

StoreInit == Init /\ driver \in Drivers /\ loose = {}

SqliteStep(c) ==
  \/ (Validate(c) \/ Abort(c)) /\ UNCHANGED svars
  \/ CreateUser(c) \/ GetUser(c) \/ UpdateUser(c)
  \/ DeleteUserPermissions(c) \/ DeleteUser(c)
  \/ GrantPermission(c) \/ RevokePermission(c)
  \/ GetUserByToken(c) \/ CheckPermission(c)

StoreNext ==
  /\ \E c \in Client : \/ driver = "postgres" /\ Step(c) /\ UNCHANGED svars
                       \/ driver = "sqlite" /\ SqliteStep(c)
  /\ Observe

StoreSpec == StoreInit /\ [][StoreNext]_<<vars, svars>>

-----------------------------------------------------------------------------
(* Properties                                                              *)

\* A grant is done when its row is written; how the read that follows on
\* SQLite ends makes no difference to the tables.
Store ==
  INSTANCE Users WITH
    ForeignKeys <- BOOLEAN,
    pc <- [c \in Client |-> IF pc[c] = "SelectBack" THEN "Done" ELSE pc[c]],
    answer <- [c \in Client |-> IF pc[c] = "SelectBack" THEN "ok" ELSE answer[c]]

\* The SQLite repositories implement Users with connections that may or may
\* not enforce foreign keys: a grant takes effect with its first statement,
\* and a permission check may let calls through before the grant has answered.
ImplementsUsers == Store!Spec

\* No permission outlives its user on connections that enforce foreign keys: a
\* grant that is checked before, and inserted after, the permissions of a
\* deleted user were removed is refused or removed with the user's row.  Only
\* statements on SQLite's other connections leave one behind.
PermissionsHaveUsers ==
  \A a \in acl : \/ \E u \in users : u.id = a.user_id
                 \/ driver = "sqlite" /\ a.user_id \in loose
=============================================================================
