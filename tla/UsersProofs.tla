---------------------------- MODULE UsersProofs -----------------------------
(***************************************************************************)
(* What Users and SqliteUsers guarantee for every set of handlers, every   *)
(* workload and every driver.                                              *)
(***************************************************************************)
EXTENDS SqliteUsers, TLAPS

\* What a handler of the request r at statement s has checked and read.
Own(r, s, l) ==
  /\ s # "Validate" => Valid(r)
  /\ s = "InsertUser" => r.op = "CreateUser"
  /\ s = "SelectUser" =>
       r.op \in {"UpdateUser", "RegenerateToken", "GrantPermission"}
  /\ s = "UpdateRow" => /\ r.op \in {"UpdateUser", "RegenerateToken"}
                        /\ l \in User /\ l.id = r.user
  /\ s \in {"DeletePermissions", "DeleteUserRow"} => r.op = "DeleteUser"
  /\ s \in {"InsertGrant", "SelectBack"} => r.op = "GrantPermission"
  /\ s = "DeleteGrant" => r.op = "RevokePermission"
  /\ s = "Authenticate" => r.op = "Call"
  /\ s \in {"SelectExact", "SelectWildcard"} => r.op = "Call" /\ l \in User

HandlersOK ==
  /\ req \in [Client -> Request]
  /\ pc \in [Client -> Statement]
  /\ answer \in [Client -> Status]
  /\ loc \in [Client -> User \cup {None}]
  /\ \A c \in Client : Own(req[c], pc[c], loc[c])

TablesOK ==
  /\ users \subseteq User
  /\ acl \subseteq [user_id : Client, module_name : STRING,
                    permission : Permission]
  /\ superseded \subseteq Client /\ deactivated \subseteq Client
  /\ held \subseteq Client /\ overtaken \subseteq Client

TypeInv == HandlersOK /\ TablesOK

LEMMA TypeInvTypeOK == TypeInv => TypeOK
  BY DEF TypeInv, HandlersOK, TablesOK, TypeOK

LEMMA InitTypeInv == Init => TypeInv
<1> SUFFICES ASSUME Init PROVE TypeInv
  OBVIOUS
<1>1. req \in [Client -> Request]
  BY WorkloadAssumption DEF Init
<1>2. \A c \in Client : Own(req[c], pc[c], loc[c])
  BY DEF Init, Own
<1> QED
  BY <1>1, <1>2 DEF Init, TypeInv, HandlersOK, TablesOK, Statement, Status

\* The statements of both drivers.
AnyStep(c) ==
  \/ Validate(c) \/ Abort(c)
  \/ InsertUser(c) \/ SelectUser(c) \/ UpdateRow(c)
  \/ DeletePermissions(c) \/ DeleteGrant(c)
  \/ \E enforced \in BOOLEAN : DeleteUserRow(c, enforced) \/ InsertGrant(c, enforced)
  \/ Authenticate(c) \/ SelectExact(c) \/ SelectWildcard(c)
  \/ Upsert(c) \/ SelectBack(c)

AnyNext == (\E c \in Client : AnyStep(c)) /\ Observe

LEMMA StoreNextIsAny == StoreNext => AnyNext
<1> SUFFICES ASSUME StoreNext PROVE AnyNext
  OBVIOUS
<1>1. PICK c \in Client : Step(c) \/ SqliteStep(c)
  BY DEF StoreNext
<1>2. ASSUME Step(c) PROVE AnyStep(c)
  BY <1>2, ForeignKeysAssumption DEF Step, AnyStep
<1>3. ASSUME SqliteStep(c) PROVE AnyStep(c)
  BY <1>3 DEF SqliteStep, AnyStep, CreateUser, GetUser, UpdateUser,
     DeleteUserPermissions, DeleteUser, GrantPermission, RevokePermission,
     GetUserByToken, CheckPermission
<1> QED
  BY <1>1, <1>2, <1>3 DEF StoreNext, AnyNext

(* How a statement moves its handler.                                      *)

\* Handler c goes to statement s with answer a and has then read l.
Moves(c, s, a, l) ==
  /\ req' = req
  /\ pc' = [pc EXCEPT ![c] = s]
  /\ answer' = [answer EXCEPT ![c] = a]
  /\ loc' = [loc EXCEPT ![c] = l]

LEMMA MovesFrame ==
  ASSUME HandlersOK, NEW c \in Client, NEW s, NEW a, NEW l, Moves(c, s, a, l)
  PROVE  /\ req' = req /\ pc'[c] = s /\ answer'[c] = a /\ loc'[c] = l
         /\ \A d \in Client \ {c} : /\ pc'[d] = pc[d] /\ answer'[d] = answer[d]
                                    /\ loc'[d] = loc[d]
  BY DEF HandlersOK, Moves

LEMMA MovesHandlers ==
  ASSUME HandlersOK, NEW c \in Client, NEW s \in Statement, NEW a \in Status,
         NEW l \in User \cup {None}, Moves(c, s, a, l), Own(req[c], s, l)
  PROVE  HandlersOK'
<1>1. \A d \in Client : Own(req[d], pc[d], loc[d])'
  <2> SUFFICES ASSUME NEW d \in Client PROVE Own(req'[d], pc'[d], loc'[d])
    BY DEF Own, Valid, User, StoredToken, Permission
  <2>1. CASE d = c
    BY <2>1, MovesFrame
  <2>2. CASE d # c
    BY <2>2, MovesFrame DEF HandlersOK
  <2> QED
    BY <2>1, <2>2
<1> QED
  BY <1>1 DEF HandlersOK, Moves

\* Goto, Succeed and Fail in this form, with loc set to l.
LEMMA EndsMove ==
  ASSUME HandlersOK, NEW c \in Client, NEW l, loc' = [loc EXCEPT ![c] = l]
  PROVE  /\ \A s : Goto(c, s) => Moves(c, s, answer[c], l)
         /\ Succeed(c) => Moves(c, "Done", "ok", l)
         /\ \A a : Fail(c, a) => Moves(c, pc[c], a, l)
  BY DEF HandlersOK, Goto, Succeed, Fail, Moves

LEMMA SameLocals ==
  ASSUME HandlersOK, NEW c \in Client, UNCHANGED loc
  PROVE  loc' = [loc EXCEPT ![c] = loc[c]]
  BY DEF HandlersOK

-----------------------------------------------------------------------------
(* Every statement keeps the tables and the handlers well formed.          *)

\* A statement that gives up, or succeeds, or goes on, with the same locals.
LEMMA KeepsLocals ==
  ASSUME HandlersOK, NEW c \in Client, UNCHANGED loc
  PROVE  /\ Succeed(c) /\ pc[c] # "Validate" => HandlersOK'
         /\ \A a \in Status : Fail(c, a) => HandlersOK'
         /\ \A s \in Statement : Goto(c, s) /\ Own(req[c], s, loc[c]) => HandlersOK'
<1>0. /\ loc[c] \in User \cup {None} /\ Own(req[c], pc[c], loc[c])
      /\ answer[c] \in Status /\ pc[c] \in Statement
  BY DEF HandlersOK
<1>1. ASSUME Succeed(c), pc[c] # "Validate" PROVE HandlersOK'
  <2>1. Own(req[c], "Done", loc[c])
    BY <1>0, <1>1 DEF Own
  <2>2. Moves(c, "Done", "ok", loc[c])
    BY <1>1, SameLocals, EndsMove
  <2>3. "Done" \in Statement /\ "ok" \in Status
    BY DEF Statement, Status
  <2> QED
    BY <1>0, <2>1, <2>2, <2>3, MovesHandlers
<1>2. ASSUME NEW a \in Status, Fail(c, a) PROVE HandlersOK'
  <2>1. Moves(c, pc[c], a, loc[c])
    BY <1>2, SameLocals, EndsMove
  <2> QED
    BY <1>0, <2>1, MovesHandlers
<1>3. ASSUME NEW s \in Statement, Goto(c, s), Own(req[c], s, loc[c])
      PROVE  HandlersOK'
  <2>1. Moves(c, s, answer[c], loc[c])
    BY <1>3, SameLocals, EndsMove
  <2> QED
    BY <1>0, <1>3, <2>1, MovesHandlers
<1> QED
  BY <1>1, <1>2, <1>3

\* What the checks of a request give the statements.
LEMMA ValidGives ==
  ASSUME NEW r \in Request, Valid(r)
  PROVE  /\ r.op \in {"UpdateUser", "DeleteUser", "RegenerateToken",
                      "GrantPermission", "RevokePermission"} => r.user \in Client
         /\ r.op = "GrantPermission" => r.permission \in Permission
<1>1. /\ r.op \in {"UpdateUser", "DeleteUser", "RegenerateToken",
                   "GrantPermission", "RevokePermission"} => r.user # None
      /\ r.op = "GrantPermission" => r.permission \in Permission
  BY Zenon DEF Valid
<1>2. r.user \in Client \cup {None}
  BY DEF Request
<1> QED
  BY <1>1, <1>2

LEMMA ValidateHandlers ==
  ASSUME HandlersOK, NEW c \in Client, Validate(c) \/ Abort(c)
  PROVE  HandlersOK'
<1>0. UNCHANGED loc
  BY DEF Validate, Abort
<1>1. CASE Valid(req[c]) /\ Goto(c, FirstStatement(req[c].op))
  <2> DEFINE s == FirstStatement(req[c].op)
  <2>1. req[c].op \in Operation
    BY DEF HandlersOK, Request
  <2>2. s \in Statement /\ Own(req[c], s, loc[c])
    BY <1>1, <2>1 DEF Operation, FirstStatement, Statement, Own
  <2> HIDE DEF s
  <2> QED
    BY <1>0, <1>1, <2>2, KeepsLocals DEF s
<1>2. ASSUME NEW a \in {"token invalid", "invalid", "error"}, Fail(c, a)
      PROVE  HandlersOK'
  <2>1. a \in Status
    BY DEF Status
  <2> QED
    BY <1>0, <1>2, <2>1, KeepsLocals
<1> QED
  BY <1>1, <1>2 DEF Validate, Abort

LEMMA SelectUserHandlers ==
  ASSUME TypeInv, NEW c \in Client, SelectUser(c)
  PROVE  HandlersOK'
<1> USE DEF TypeInv
<1>1. CASE Fail(c, "user not found") /\ UNCHANGED loc
  BY <1>1, KeepsLocals DEF Status
<1>2. ASSUME NEW u \in UserRows(req[c].user), loc' = [loc EXCEPT ![c] = u],
             Goto(c, IF req[c].op = "GrantPermission" THEN "InsertGrant" ELSE "UpdateRow")
      PROVE  HandlersOK'
  <2> DEFINE s == IF req[c].op = "GrantPermission" THEN "InsertGrant" ELSE "UpdateRow"
  <2>1. u \in User /\ u.id = req[c].user
    BY DEF TablesOK, UserRows
  <2>2. Own(req[c], pc[c], loc[c]) /\ pc[c] = "SelectUser" /\ answer[c] \in Status
    BY DEF HandlersOK, SelectUser, At
  <2>3. s \in Statement /\ Own(req[c], s, u)
    BY <2>1, <2>2 DEF Own, Statement
  <2>4. Moves(c, s, answer[c], u)
    BY <1>2, EndsMove
  <2> HIDE DEF s
  <2> QED
    BY <2>1, <2>2, <2>3, <2>4, MovesHandlers
<1> QED
  BY <1>1, <1>2 DEF SelectUser

LEMMA AuthenticateHandlers ==
  ASSUME TypeInv, NEW c \in Client, Authenticate(c)
  PROVE  HandlersOK'
<1> USE DEF TypeInv
<1>0. Own(req[c], pc[c], loc[c]) /\ pc[c] = "Authenticate" /\ answer[c] \in Status
  BY DEF HandlersOK, Authenticate, At
<1>1. CASE Succeed(c) /\ UNCHANGED loc
  BY <1>0, <1>1, KeepsLocals
<1>2. CASE Fail(c, "token invalid") /\ UNCHANGED loc
  BY <1>2, KeepsLocals DEF Status
<1>3. ASSUME NEW u \in users, loc' = [loc EXCEPT ![c] = u],
             Succeed(c) \/ Goto(c, "SelectExact")
      PROVE  HandlersOK'
  <2>1. u \in User
    BY DEF TablesOK
  <2>2. Own(req[c], "Done", u) /\ Own(req[c], "SelectExact", u)
    BY <1>0, <2>1 DEF Own
  <2>3. {"Done", "SelectExact"} \subseteq Statement /\ "ok" \in Status
    BY DEF Statement, Status
  <2>4. Moves(c, "Done", "ok", u) \/ Moves(c, "SelectExact", answer[c], u)
    BY <1>3, EndsMove
  <2> QED
    BY <1>0, <2>1, <2>2, <2>3, <2>4, MovesHandlers
<1> QED
  BY <1>1, <1>2, <1>3 DEF Authenticate

\* The statements that leave the locals alone.
LEMMA OtherHandlers ==
  ASSUME HandlersOK, NEW c \in Client,
         \/ InsertUser(c) \/ UpdateRow(c) \/ DeletePermissions(c)
         \/ DeleteGrant(c) \/ SelectExact(c) \/ SelectWildcard(c)
         \/ \E enforced \in BOOLEAN :
              DeleteUserRow(c, enforced) \/ InsertGrant(c, enforced)
         \/ Upsert(c) \/ SelectBack(c)
  PROVE  HandlersOK'
<1>0. UNCHANGED loc
  BY DEF InsertUser, UpdateRow, DeletePermissions, DeleteGrant, SelectExact,
     SelectWildcard, DeleteUserRow, InsertGrant, Upsert, SelectBack
<1>1. /\ Own(req[c], pc[c], loc[c])
      /\ pc[c] \in {"InsertUser", "UpdateRow", "DeletePermissions", "DeleteGrant",
                    "SelectExact", "SelectWildcard", "DeleteUserRow",
                    "InsertGrant", "SelectBack"}
  BY DEF InsertUser, UpdateRow, DeletePermissions, DeleteGrant, SelectExact,
     SelectWildcard, DeleteUserRow, InsertGrant, Upsert, SelectBack, At, HandlersOK
<1>2. CASE Succeed(c)
  BY <1>0, <1>1, <1>2, KeepsLocals
<1>3. CASE \E a \in Status : Fail(c, a)
  BY <1>0, <1>3, KeepsLocals
<1>4. {"internal", "permission not found", "user not found", "permission denied"}
        \subseteq Status
  BY DEF Status
<1>5. CASE DeletePermissions(c)
  <2>1. Own(req[c], "DeleteUserRow", loc[c]) /\ "DeleteUserRow" \in Statement
    BY <1>1, <1>5 DEF DeletePermissions, At, Own, Statement
  <2> QED
    BY <1>0, <1>5, <2>1, KeepsLocals DEF DeletePermissions
<1>6. CASE SelectExact(c)
  <2>1. Own(req[c], "SelectWildcard", loc[c]) /\ "SelectWildcard" \in Statement
    BY <1>1, <1>6 DEF SelectExact, At, Own, Statement
  <2> QED
    BY <1>0, <1>2, <1>3, <1>4, <1>6, <2>1, KeepsLocals DEF SelectExact, Decide
<1>7. CASE Upsert(c)
  <2>1. Own(req[c], "SelectBack", loc[c]) /\ "SelectBack" \in Statement
    BY <1>1, <1>7 DEF Upsert, At, Own, Statement
  <2> QED
    BY <1>0, <1>3, <1>4, <1>7, <2>1, KeepsLocals DEF Upsert
<1>8. CASE InsertUser(c) \/ UpdateRow(c) \/ DeleteGrant(c) \/ SelectBack(c)
  BY <1>2, <1>3, <1>4, <1>8 DEF InsertUser, UpdateRow, DeleteGrant, SelectBack
<1>9. CASE SelectWildcard(c)
  BY <1>2, <1>3, <1>4, <1>9 DEF SelectWildcard, Decide
<1>10. CASE \E enforced \in BOOLEAN :
              DeleteUserRow(c, enforced) \/ InsertGrant(c, enforced)
  BY <1>2, <1>3, <1>4, <1>10 DEF DeleteUserRow, InsertGrant
<1> QED
  BY <1>5, <1>6, <1>7, <1>8, <1>9, <1>10

LEMMA UserFields ==
  ASSUME NEW u \in User
  PROVE  /\ u.id \in Client /\ u.name \in STRING /\ u.token \in StoredToken
         /\ u.is_active \in BOOLEAN
         /\ u.token.plain \in Client /\ u.token.hashes \in Nat
  BY DEF User, StoredToken

\* The row that UpdateUser or RegenerateToken writes back.
LEMMA UpdatedRowIs ==
  ASSUME HandlersOK, NEW c \in Client, At(c, "UpdateRow")
  PROVE  /\ UpdatedRow(c) \in User
         /\ UpdatedRow(c).id = loc[c].id /\ loc[c] \in User
         /\ req[c].op = "RegenerateToken" =>
              /\ UpdatedRow(c).token = [plain |-> c, hashes |-> 1]
              /\ UpdatedRow(c).is_active = loc[c].is_active
         /\ req[c].op # "RegenerateToken" =>
              UpdatedRow(c).token = [plain |-> loc[c].token.plain,
                                     hashes |-> loc[c].token.hashes + 1]
<1>1. /\ loc[c] \in User /\ req[c] \in Request
      /\ req[c].op \in {"UpdateUser", "RegenerateToken"}
  BY DEF At, HandlersOK, Own
<1>2. /\ Crypt(Plain(c)) = [plain |-> c, hashes |-> 1]
      /\ Crypt(Plain(c)) \in StoredToken
      /\ Crypt(loc[c].token) = [plain |-> loc[c].token.plain,
                                hashes |-> loc[c].token.hashes + 1]
      /\ Crypt(loc[c].token) \in StoredToken
  BY <1>1, UserFields DEF Crypt, Plain, StoredToken
<1>3. req[c].name \in STRING /\ req[c].active \in BOOLEAN
  BY <1>1 DEF Request
<1>4. CASE req[c].op = "RegenerateToken"
  <2>1. UpdatedRow(c) = [loc[c] EXCEPT !.token = Crypt(Plain(c))]
    BY <1>4 DEF UpdatedRow
  <2> QED
    BY <1>1, <1>2, <1>4, <2>1 DEF User
<1>5. CASE req[c].op # "RegenerateToken"
  <2> DEFINE n == IF req[c].name = "" THEN loc[c].name ELSE req[c].name
  <2>1. UpdatedRow(c) = [loc[c] EXCEPT !.name = n, !.token = Crypt(loc[c].token),
                                       !.is_active = req[c].active]
    BY <1>1, <1>5 DEF UpdatedRow, User
  <2>2. n \in STRING
    BY <1>1, <1>3, UserFields
  <2> HIDE DEF n
  <2> QED
    BY <1>1, <1>2, <1>3, <1>5, <2>1, <2>2 DEF User
<1> QED
  BY <1>4, <1>5

LEMMA StepTables ==
  ASSUME TypeInv, NEW c \in Client, AnyStep(c), Observe
  PROVE  TablesOK'
<1> USE DEF TypeInv
<1>0. held' \subseteq Client
  BY DEF Observe, TablesOK
<1>1. CASE UNCHANGED <<tables, history, overtaken>>
  BY <1>0, <1>1 DEF TablesOK, tables, history
<1>2. CASE InsertUser(c)
  <2> DEFINE row == [id |-> c, name |-> req[c].name, token |-> Crypt(Plain(c)),
                     is_active |-> TRUE]
  <2>1. row \in User
    BY DEF HandlersOK, Request, User, Crypt, Plain, StoredToken
  <2>2. users' \subseteq users \cup {row}
    BY <1>2 DEF InsertUser
  <2> HIDE DEF row
  <2> QED
    BY <1>0, <1>2, <2>1, <2>2 DEF InsertUser, TablesOK, history
<1>3. CASE UpdateRow(c)
  <2>1. UpdatedRow(c) \in User
    BY <1>3, UpdatedRowIs DEF UpdateRow
  <2>2. /\ users' \subseteq users \cup {UpdatedRow(c)}
        /\ superseded' \subseteq superseded \cup {u.token.plain : u \in users}
        /\ deactivated' \subseteq deactivated \cup {UpdatedRow(c).id}
    BY <1>3 DEF UpdateRow, UserRows, history
  <2>3. UpdatedRow(c).id \in Client /\ {u.token.plain : u \in users} \subseteq Client
    BY <2>1, UserFields DEF TablesOK
  <2>4. UNCHANGED <<acl, overtaken>>
    BY <1>3 DEF UpdateRow
  <2> QED
    BY <1>0, <2>1, <2>2, <2>3, <2>4 DEF TablesOK
<1>4. CASE DeletePermissions(c) \/ DeleteGrant(c)
           \/ \E enforced \in BOOLEAN : DeleteUserRow(c, enforced)
  BY <1>0, <1>4 DEF DeletePermissions, DeleteGrant, DeleteUserRow, TablesOK, history
<1>5. ASSUME pc[c] = "InsertGrant", UpsertGrant(c), UNCHANGED <<users, history>>
      PROVE  TablesOK'
  <2> DEFINE row == [user_id |-> req[c].user, module_name |-> req[c].module,
                     permission |-> req[c].permission]
  <2>1. req[c] \in Request /\ Valid(req[c]) /\ req[c].op = "GrantPermission"
    BY <1>5 DEF HandlersOK, Own
  <2>2. req[c].user \in Client /\ req[c].permission \in Permission
    BY <2>1, ValidGives
  <2>3. row \in [user_id : Client, module_name : STRING, permission : Permission]
    BY <2>1, <2>2 DEF Request
  <2>4. acl' \subseteq acl \cup {row} /\ overtaken' \subseteq Client
    BY <1>5 DEF UpsertGrant, TablesOK, Overtaken
  <2> HIDE DEF row
  <2> QED
    BY <1>0, <1>5, <2>3, <2>4 DEF TablesOK, history
<1>6. CASE Upsert(c) \/ \E enforced \in BOOLEAN : InsertGrant(c, enforced)
  BY <1>1, <1>5, <1>6 DEF Upsert, InsertGrant, At, tables
<1> QED
  BY <1>1, <1>2, <1>3, <1>4, <1>6
  DEF AnyStep, Validate, Abort, SelectUser, Authenticate, SelectExact,
      SelectWildcard, SelectBack

LEMMA StepTypeInv ==
  ASSUME TypeInv, NEW c \in Client, AnyStep(c), Observe
  PROVE  TypeInv'
<1>1. HandlersOK'
  BY ValidateHandlers, SelectUserHandlers, AuthenticateHandlers, OtherHandlers
  DEF AnyStep, TypeInv
<1> QED
  BY <1>1, StepTables DEF TypeInv

-----------------------------------------------------------------------------
(* One step, as the invariants below see it.                               *)

Frame(c) ==
  /\ req' = req
  /\ \A d \in Client \ {c} : /\ pc'[d] = pc[d] /\ answer'[d] = answer[d]
                             /\ loc'[d] = loc[d]
  /\ pc[c] = "Done" => pc'[c] = "Done"
  /\ pc'[c] = "UpdateRow" =>
       \/ pc[c] = "UpdateRow" /\ loc'[c] = loc[c] /\ answer'[c] # "none"
       \/ loc'[c] \in users /\ loc'[c].id = req[c].user

LEMMA FrameFrom ==
  ASSUME HandlersOK, NEW c \in Client, NEW s, NEW a, NEW l, Moves(c, s, a, l),
         pc[c] = "Done" => s = "Done",
         s = "UpdateRow" => \/ pc[c] = "UpdateRow" /\ l = loc[c] /\ a # "none"
                            \/ l \in users /\ l.id = req[c].user
  PROVE  Frame(c)
  BY MovesFrame DEF Frame

LEMMA StepFrame ==
  ASSUME TypeInv, NEW c \in Client, AnyStep(c)
  PROVE  Frame(c)
<1> USE DEF TypeInv
<1>1. ASSUME UNCHANGED loc, pc[c] # "Done", Succeed(c) PROVE Frame(c)
  BY <1>1, SameLocals, EndsMove, FrameFrom
<1>2. ASSUME UNCHANGED loc, NEW a, a # "none", Fail(c, a) PROVE Frame(c)
  BY <1>2, SameLocals, EndsMove, FrameFrom
<1>3. ASSUME UNCHANGED loc, NEW s, s # "UpdateRow", pc[c] # "Done", Goto(c, s)
      PROVE  Frame(c)
  BY <1>3, SameLocals, EndsMove, FrameFrom
<1>4. CASE Validate(c) \/ Abort(c)
  <2>1. FirstStatement(req[c].op) # "UpdateRow"
    BY DEF HandlersOK, Request, Operation, FirstStatement
  <2> QED
    BY <1>2, <1>3, <1>4, <2>1 DEF Validate, Abort, At
<1>5. CASE SelectUser(c)
  <2>1. ASSUME NEW u \in UserRows(req[c].user), loc' = [loc EXCEPT ![c] = u],
               NEW s, Goto(c, s), pc[c] = "SelectUser"
        PROVE  Frame(c)
    <3>1. Moves(c, s, answer[c], u)
      BY <2>1, EndsMove
    <3>2. u \in users /\ u.id = req[c].user
      BY DEF UserRows
    <3> QED
      BY <2>1, <3>1, <3>2, FrameFrom
  <2> QED
    BY <1>2, <1>5, <2>1 DEF SelectUser, At
<1>6. CASE Authenticate(c)
  <2>1. ASSUME NEW u, loc' = [loc EXCEPT ![c] = u], pc[c] = "Authenticate",
               Succeed(c) \/ Goto(c, "SelectExact")
        PROVE  Frame(c)
    <3>1. Moves(c, "Done", "ok", u) \/ Moves(c, "SelectExact", answer[c], u)
      BY <2>1, EndsMove
    <3> QED
      BY <2>1, <3>1, FrameFrom
  <2> QED
    BY <1>1, <1>2, <1>6, <2>1 DEF Authenticate, At
<1>7. CASE InsertUser(c) \/ UpdateRow(c) \/ DeletePermissions(c)
           \/ DeleteGrant(c) \/ Upsert(c) \/ SelectBack(c)
  BY <1>1, <1>2, <1>3, <1>7 DEF InsertUser, UpdateRow, DeletePermissions,
     DeleteGrant, Upsert, SelectBack, At
<1>8. CASE SelectExact(c) \/ SelectWildcard(c)
  BY <1>1, <1>2, <1>3, <1>8 DEF SelectExact, SelectWildcard, Decide, At
<1>9. CASE \E enforced \in BOOLEAN :
             DeleteUserRow(c, enforced) \/ InsertGrant(c, enforced)
  BY <1>1, <1>2, <1>9 DEF DeleteUserRow, InsertGrant, At
<1> QED
  BY <1>4, <1>5, <1>6, <1>7, <1>8, <1>9 DEF AnyStep

\* The statements that write users or the history of its rows.
LEMMA UserWriters ==
  ASSUME NEW c \in Client, AnyStep(c)
  PROVE  \/ UNCHANGED <<users, history>>
         \/ InsertUser(c) /\ Succeed(c) /\ UNCHANGED history
         \/ UpdateRow(c) /\ Succeed(c)
         \/ users' \subseteq users /\ UNCHANGED history
<1>1. CASE InsertUser(c)
  BY <1>1 DEF InsertUser
<1>2. CASE UpdateRow(c)
  BY <1>2 DEF UpdateRow
<1>3. CASE Validate(c) \/ Abort(c) \/ SelectUser(c) \/ Authenticate(c)
           \/ SelectExact(c) \/ SelectWildcard(c) \/ SelectBack(c)
  BY <1>3 DEF Validate, Abort, SelectUser, Authenticate, SelectExact,
     SelectWildcard, SelectBack, tables
<1>4. CASE DeletePermissions(c) \/ DeleteGrant(c) \/ Upsert(c)
  BY <1>4 DEF DeletePermissions, DeleteGrant, Upsert
<1>5. CASE \E enforced \in BOOLEAN :
             DeleteUserRow(c, enforced) \/ InsertGrant(c, enforced)
  BY <1>5 DEF DeleteUserRow, InsertGrant
<1> QED
  BY <1>1, <1>2, <1>3, <1>4, <1>5 DEF AnyStep

-----------------------------------------------------------------------------
(* Tokens: a rotated token stays dead.                                     *)

\* The user for whom the handler p draws a token.
Owner(p) == IF req[p].op = "CreateUser" THEN p ELSE req[p].user

\* The row u carries a token that a finished handler drew for its user and
\* that was hashed.
Drawn(u) ==
  /\ pc[u.id] = "Done" /\ pc[u.token.plain] = "Done"
  /\ u.id = Owner(u.token.plain)
  /\ u.token.hashes >= 1

TokensDrawn ==
  /\ \A u \in users : Drawn(u)
  /\ \A c \in Client : pc[c] = "UpdateRow" => Drawn(loc[c])
  /\ \A t \in superseded : pc[t] = "Done"
  /\ \A x \in deactivated : pc[x] = "Done"

LEMMA DrawnStays ==
  ASSUME TypeInv, NEW c \in Client, Frame(c), NEW u \in User, Drawn(u)
  PROVE  Drawn(u)'
<1>1. u.id \in Client /\ u.token.plain \in Client
  BY UserFields
<1>2. pc'[u.id] = "Done" /\ pc'[u.token.plain] = "Done"
  BY <1>1 DEF Drawn, Frame
<1> QED
  BY <1>2 DEF Drawn, Owner, Frame

\* The row that an UpdateRow writes.
LEMMA UpdatedDrawn ==
  ASSUME TypeInv, TokensDrawn, NEW c \in Client, UpdateRow(c), Succeed(c), Frame(c)
  PROVE  Drawn(UpdatedRow(c))'
<1> DEFINE row == UpdatedRow(c)
<1>1. /\ At(c, "UpdateRow") /\ loc[c] \in User /\ Drawn(loc[c])
      /\ loc[c].id = req[c].user /\ row \in User /\ row.id = loc[c].id
      /\ req[c].op \in {"UpdateUser", "RegenerateToken"}
  BY UpdatedRowIs DEF UpdateRow, At, TokensDrawn, TypeInv, HandlersOK, Own
<1>2. pc'[c] = "Done" /\ Drawn(loc[c])'
  <2>1. PICK u \in User : u = loc[c] /\ Drawn(u)
    BY <1>1
  <2>2. Drawn(u)' /\ u = loc'[c]
    BY <2>1, DrawnStays DEF UpdateRow
  <2>3. pc'[c] = "Done"
    BY DEF Succeed, TypeInv, HandlersOK
  <2> QED
    BY <2>2, <2>3 DEF Drawn, Owner
<1>3. row' = row
  BY DEF UpdateRow, Succeed, UpdatedRow
<1>4. CASE req[c].op = "RegenerateToken"
  <2>1. row.token = [plain |-> c, hashes |-> 1]
    BY <1>1, <1>4, UpdatedRowIs DEF TypeInv
  <2>2. loc' = loc /\ req' = req
    BY DEF UpdateRow, Frame
  <2>3. row.token.plain = c /\ row.token.hashes = 1
    BY <2>1
  <2>4. Owner(c)' = row.id
    BY <1>1, <1>4, <2>2 DEF Owner
  <2> HIDE DEF row
  <2> QED
    BY <1>1, <1>2, <1>3, <2>2, <2>3, <2>4 DEF Drawn, row
<1>5. CASE req[c].op # "RegenerateToken"
  <2>1. row.token = [plain |-> loc[c].token.plain, hashes |-> loc[c].token.hashes + 1]
    BY <1>1, <1>5, UpdatedRowIs DEF TypeInv
  <2>2. loc' = loc /\ req' = req
    BY DEF UpdateRow, Frame
  <2>3. row.token.plain = loc[c].token.plain /\ row.token.hashes >= 1
    BY <1>1, <2>1, UserFields
  <2> HIDE DEF row
  <2> QED
    BY <1>1, <1>2, <1>3, <2>2, <2>3 DEF Drawn, Owner, row
<1> QED
  BY <1>4, <1>5

LEMMA StepTokensDrawn ==
  ASSUME TypeInv, TokensDrawn, NEW c \in Client, AnyStep(c), Observe
  PROVE  TokensDrawn'
<1>0. Frame(c) /\ users \subseteq User
  BY StepFrame DEF TypeInv, TablesOK
<1>1. \A u \in users : Drawn(u)'
  BY <1>0, DrawnStays DEF TokensDrawn
<1>2. \A d \in Client : pc'[d] = "UpdateRow" => Drawn(loc[d])'
  <2> SUFFICES ASSUME NEW d \in Client, pc'[d] = "UpdateRow" PROVE Drawn(loc[d])'
    OBVIOUS
  <2>1. CASE loc'[d] \in users
    <3>1. PICK u \in users : u = loc'[d]
      BY <2>1
    <3>2. Drawn(u)'
      BY <1>1
    <3> QED
      BY <3>1, <3>2 DEF Drawn, Owner
  <2>2. CASE pc[d] = "UpdateRow" /\ loc'[d] = loc[d]
    <3>1. PICK u \in User : u = loc[d] /\ Drawn(u)
      BY <2>2 DEF TokensDrawn, TypeInv, HandlersOK, Own
    <3>2. Drawn(u)'
      BY <1>0, <3>1, DrawnStays
    <3> QED
      BY <2>2, <3>1, <3>2 DEF Drawn, Owner
  <2> QED
    BY <1>0, <2>1, <2>2 DEF Frame
<1>3. ASSUME NEW x \in Client, pc[x] = "Done" PROVE pc'[x] = "Done"
  BY <1>0, <1>3 DEF Frame
<1>4. CASE users' \subseteq users /\ UNCHANGED history
  BY <1>1, <1>2, <1>3, <1>4 DEF TokensDrawn, history, TypeInv, TablesOK
<1>5. CASE InsertUser(c) /\ Succeed(c) /\ UNCHANGED history
  <2> DEFINE row == [id |-> c, name |-> req[c].name, token |-> Crypt(Plain(c)),
                     is_active |-> TRUE]
  <2>1. users' \subseteq users \cup {row}
    BY <1>5 DEF InsertUser
  <2>2. row.id = c /\ row.token.plain = c /\ row.token.hashes = 1
    BY DEF Crypt, Plain
  <2>3. pc'[c] = "Done" /\ req[c].op = "CreateUser"
    BY <1>5 DEF InsertUser, At, Succeed, TypeInv, HandlersOK, Own
  <2> HIDE DEF row
  <2>4. \A u \in users' : Drawn(u)'
    BY <1>0, <1>1, <2>1, <2>2, <2>3 DEF Drawn, Owner, Frame
  <2> QED
    BY <1>2, <1>3, <1>5, <2>4 DEF TokensDrawn, history, TypeInv, TablesOK
<1>6. CASE UpdateRow(c) /\ Succeed(c)
  <2>1. /\ users' \subseteq users \cup {UpdatedRow(c)}
        /\ superseded' \subseteq superseded \cup {u.token.plain : u \in users}
        /\ deactivated' \subseteq deactivated \cup {UpdatedRow(c).id}
    BY <1>6 DEF UpdateRow, UserRows, history
  <2>2. Drawn(UpdatedRow(c))'
    BY <1>0, <1>6, UpdatedDrawn
  <2>3. UpdatedRow(c)' = UpdatedRow(c)
    BY <1>6 DEF UpdateRow, Succeed, UpdatedRow
  <2>4. \A u \in users' : Drawn(u)'
    BY <1>1, <2>1, <2>2, <2>3 DEF Drawn, Owner
  <2>5. \A u \in users : u.token.plain \in Client /\ pc[u.token.plain] = "Done"
    BY <1>0, UserFields DEF TokensDrawn, Drawn
  <2>6. \A t \in superseded' : pc'[t] = "Done"
    BY <1>3, <2>1, <2>5 DEF TokensDrawn, TypeInv, TablesOK
  <2>7. pc'[UpdatedRow(c).id] = "Done"
    BY <2>2, <2>3 DEF Drawn
  <2>8. \A x \in deactivated' : pc'[x] = "Done"
    BY <1>3, <2>1, <2>7 DEF TokensDrawn, TypeInv, TablesOK
  <2> QED
    BY <1>2, <2>4, <2>6, <2>8 DEF TokensDrawn
<1> QED
  BY <1>4, <1>5, <1>6, UserWriters DEF history

LEMMA StepRotated ==
  ASSUME TypeInv, TokensDrawn, RotatedTokenStaysDead, NEW c \in Client,
         AnyStep(c), Observe
  PROVE  RotatedTokenStaysDead'
<1>0. /\ users \subseteq User /\ superseded \subseteq Client
      /\ Crypt(Plain(c)) = [plain |-> c, hashes |-> 1]
  BY DEF TypeInv, TablesOK, Crypt, Plain
<1>1. CASE users' \subseteq users /\ UNCHANGED history
  BY <1>1 DEF RotatedTokenStaysDead, history
<1>2. CASE InsertUser(c) /\ Succeed(c) /\ UNCHANGED history
  <2>1. \A t \in superseded : t # c
    BY <1>2 DEF InsertUser, At, TokensDrawn
  <2>2. \A u \in users' : u \in users \/ u.token = Crypt(Plain(c))
    BY <1>2 DEF InsertUser
  <2>3. \A t \in superseded : Crypt(Plain(t)) # Crypt(Plain(c))
    BY <2>1 DEF Crypt, Plain
  <2> QED
    BY <1>2, <2>2, <2>3 DEF RotatedTokenStaysDead, history
<1>3. CASE UpdateRow(c) /\ Succeed(c)
  <2> DEFINE row == UpdatedRow(c)
             old == UserRows(row.id)
  <2>1. /\ At(c, "UpdateRow") /\ loc[c] \in User /\ Drawn(loc[c]) /\ row \in User
        /\ users' = (users \ old) \cup {row}
    BY <1>3, UpdatedRowIs
    DEF UpdateRow, Succeed, Fail, At, TokensDrawn, TypeInv, HandlersOK
  <2>2. CASE req[c].op = "RegenerateToken"
    <3>1. superseded' \subseteq superseded \cup {u.token.plain : u \in old}
      BY <1>3, <2>2 DEF UpdateRow, history
    <3>2. row.token = [plain |-> c, hashes |-> 1] /\ pc[c] # "Done"
      BY <2>1, <2>2, UpdatedRowIs DEF TypeInv, At
    <3> SUFFICES ASSUME NEW u \in users', NEW t \in superseded',
                        u.token = Crypt(Plain(t))
                 PROVE  FALSE
      BY DEF RotatedTokenStaysDead
    <3>3. u.token.plain = t
      BY DEF Crypt, Plain
    <3>4. pc[t] = "Done"
      BY <3>1 DEF UserRows, TokensDrawn, Drawn
    <3>5. u # row
      BY <3>2, <3>3, <3>4
    <3>6. u \in users /\ u.id # row.id
      BY <2>1, <3>5 DEF UserRows
    <3>7. CASE t \in superseded
      BY <3>6, <3>7 DEF RotatedTokenStaysDead
    <3>8. ASSUME NEW v \in old, t = v.token.plain PROVE FALSE
      <4>1. v \in users /\ v.id = row.id
        BY DEF UserRows
      <4>2. u.id = Owner(t) /\ v.id = Owner(t)
        BY <3>3, <3>6, <3>8, <4>1 DEF TokensDrawn, Drawn
      <4> QED
        BY <3>6, <4>1, <4>2
    <3> QED
      BY <3>1, <3>7, <3>8
  <2>3. CASE req[c].op # "RegenerateToken"
    <3>1. superseded' = superseded
      BY <1>3, <2>3 DEF UpdateRow, history
    <3>2. row.token.hashes = loc[c].token.hashes + 1
      <4>1. row.token = [plain |-> loc[c].token.plain,
                         hashes |-> loc[c].token.hashes + 1]
        BY <2>1, <2>3, UpdatedRowIs DEF TypeInv
      <4> QED
        BY <4>1
    <3>3. loc[c].token.hashes \in Nat /\ loc[c].token.hashes >= 1
      BY <2>1, UserFields DEF Drawn
    <3>4. \A t \in superseded : Crypt(Plain(t)).hashes = 1
      BY DEF Crypt, Plain
    <3>5. \A t \in superseded : row.token # Crypt(Plain(t))
      BY <3>2, <3>3, <3>4
    <3> QED
      BY <2>1, <3>1, <3>5 DEF RotatedTokenStaysDead
  <2> QED
    BY <2>2, <2>3
<1> QED
  BY <1>1, <1>2, <1>3, UserWriters DEF history

-----------------------------------------------------------------------------
(* Deactivation.                                                           *)

\* A rotation that will write is_active back has not read it from a user who
\* has been deactivated since.
NoStaleRotation ==
  \A r \in Client :
    /\ req[r].op = "RegenerateToken" /\ At(r, "UpdateRow") /\ loc[r].is_active
    => req[r].user \notin deactivated

LEMMA StepDeactivation ==
  ASSUME TypeInv, TokensDrawn, DeactivationHolds, NoStaleRotation,
         NEW c \in Client, AnyStep(c), Observe
  PROVE  DeactivationHolds' /\ NoStaleRotation'
<1>0. Frame(c) /\ users \subseteq User
  BY StepFrame DEF TypeInv, TablesOK
\* A rotation that is under way after the step was so before, or has just read
\* its user's row.
<1>1. ASSUME NEW r \in Client, req'[r].op = "RegenerateToken",
             At(r, "UpdateRow")', loc'[r].is_active
      PROVE  \/ /\ req[r].op = "RegenerateToken" /\ At(r, "UpdateRow")
                /\ loc[r].is_active /\ r # c
             \/ req[r].user \notin deactivated
  <2>1. CASE r # c
    BY <1>0, <1>1, <2>1 DEF Frame, At
  <2>2. CASE r = c
    <3>1. loc'[c] \in users /\ loc'[c].id = req[c].user
      BY <1>0, <1>1, <2>2 DEF Frame, At
    <3> QED
      BY <1>1, <2>2, <3>1 DEF DeactivationHolds
  <2> QED
    BY <2>1, <2>2
<1>2. CASE users' \subseteq users /\ UNCHANGED history
  BY <1>0, <1>1, <1>2 DEF DeactivationHolds, NoStaleRotation, history, Frame
<1>3. CASE InsertUser(c) /\ Succeed(c) /\ UNCHANGED history
  <2>1. \A u \in users' : u \in users \/ u.id = c
    BY <1>3 DEF InsertUser
  <2>2. c \notin deactivated
    BY <1>3 DEF InsertUser, At, TokensDrawn
  <2> QED
    BY <1>0, <1>1, <1>3, <2>1, <2>2
    DEF DeactivationHolds, NoStaleRotation, history, Frame
<1>4. CASE UpdateRow(c) /\ Succeed(c)
  <2> DEFINE row == UpdatedRow(c)
             old == UserRows(row.id)
  <2>1. /\ At(c, "UpdateRow") /\ loc[c] \in User /\ row \in User
        /\ row.id = loc[c].id /\ loc[c].id = req[c].user
        /\ users' = (users \ old) \cup {row}
        /\ deactivated' = IF req[c].op = "RegenerateToken" THEN deactivated
                          ELSE IF row.is_active \/ RotationUnderWay(row.id)
                          THEN deactivated \ {row.id}
                          ELSE deactivated \cup {row.id}
    BY <1>4, UpdatedRowIs
    DEF UpdateRow, Succeed, Fail, At, TypeInv, HandlersOK, Own
  <2>2. CASE req[c].op = "RegenerateToken"
    <3>1. row.is_active = loc[c].is_active
      BY <2>1, <2>2, UpdatedRowIs DEF TypeInv
    <3>2. row.id \in deactivated => ~row.is_active
      BY <2>1, <2>2, <3>1 DEF NoStaleRotation
    <3>3. deactivated' = deactivated
      BY <2>1, <2>2
    <3>4. DeactivationHolds'
      BY <2>1, <3>2, <3>3 DEF DeactivationHolds
    <3> QED
      BY <1>0, <1>1, <3>3, <3>4 DEF NoStaleRotation, Frame
  <2>3. CASE req[c].op # "RegenerateToken"
    <3>1. DeactivationHolds'
      <4> SUFFICES ASSUME NEW u \in users', u.id \in deactivated', u.is_active
                   PROVE  FALSE
        BY DEF DeactivationHolds
      <4>1. CASE u = row
        BY <2>1, <2>3, <4>1
      <4>2. CASE u \in users /\ u.id # row.id
        BY <2>1, <2>3, <4>2 DEF DeactivationHolds
      <4> QED
        BY <2>1, <4>1, <4>2 DEF UserRows
    <3>2. NoStaleRotation'
      <4> SUFFICES ASSUME NEW r \in Client, req'[r].op = "RegenerateToken",
                          At(r, "UpdateRow")', loc'[r].is_active,
                          req'[r].user \in deactivated'
                   PROVE  FALSE
        BY DEF NoStaleRotation
      <4>0. r # c /\ req' = req
        BY <1>0, <2>3 DEF Frame
      <4>1. /\ req[r].op = "RegenerateToken" /\ At(r, "UpdateRow")
            /\ loc[r].is_active
        BY <1>0, <4>0 DEF Frame, At
      <4>2. req[r].user \notin deactivated
        BY <4>1 DEF NoStaleRotation
      <4>3. req[r].user = row.id /\ ~RotationUnderWay(row.id)
        BY <2>1, <2>3, <4>0, <4>2
      <4> QED
        BY <4>1, <4>3 DEF RotationUnderWay
    <3> QED
      BY <3>1, <3>2
  <2> QED
    BY <2>2, <2>3
<1> QED
  BY <1>2, <1>3, <1>4, UserWriters DEF history

-----------------------------------------------------------------------------
(* Authorisation: what a call was let through with.                        *)

\* Observe has seen every call whose check would succeed in one state.
HeldWhenEffective ==
  \A c \in Client : BeingChecked(c) /\ Effective(c) => c \in held

\* The module's own rows that a call did not see came after its first select.
UnseenOvertook ==
  \A c \in Client : At(c, "SelectWildcard") =>
    \/ AclRows(loc[c].id, RequiredModule(req[c])) = {}
    \/ c \in overtaken

CheckInv == HeldWhenEffective /\ UnseenOvertook /\ AllowedWasEffective

\* The statements that add a permission.
LEMMA AclWriters ==
  ASSUME NEW c \in Client, AnyStep(c)
  PROVE  \/ acl' \subseteq acl /\ UNCHANGED overtaken
         \/ UpsertGrant(c) /\ (Upsert(c) \/ \E e \in BOOLEAN : InsertGrant(c, e))
<1>1. CASE Validate(c) \/ Abort(c) \/ SelectUser(c) \/ Authenticate(c)
           \/ SelectExact(c) \/ SelectWildcard(c) \/ SelectBack(c)
  BY <1>1 DEF Validate, Abort, SelectUser, Authenticate, SelectExact,
     SelectWildcard, SelectBack, tables
<1>2. CASE InsertUser(c) \/ UpdateRow(c) \/ DeletePermissions(c) \/ DeleteGrant(c)
           \/ \E e \in BOOLEAN : DeleteUserRow(c, e)
  BY <1>2 DEF InsertUser, UpdateRow, DeletePermissions, DeleteGrant, DeleteUserRow
<1>3. CASE Upsert(c) \/ \E e \in BOOLEAN : InsertGrant(c, e)
  BY <1>3 DEF Upsert, InsertGrant
<1> QED
  BY <1>1, <1>2, <1>3 DEF AnyStep

\* A call moves from its first select to the second only past the first.
LEMMA ToWildcard ==
  ASSUME TypeInv, NEW c \in Client, AnyStep(c), At(c, "SelectWildcard")'
  PROVE  SelectExact(c) /\ AclRows(loc[c].id, RequiredModule(req[c])) = {}
         /\ UNCHANGED <<acl, loc, req>>
<1> USE DEF TypeInv
<1>0. pc'[c] = "SelectWildcard" /\ answer'[c] = "none"
  BY DEF At
<1>1. ~Succeed(c)
  BY <1>0 DEF Succeed, HandlersOK
<1>2. \A a : a # "none" => ~Fail(c, a)
  BY <1>0 DEF Fail, HandlersOK
<1>3. \A s : s # "SelectWildcard" => ~Goto(c, s)
  BY <1>0 DEF Goto, HandlersOK
<1>4. ~Validate(c) /\ ~Abort(c)
  <2>1. FirstStatement(req[c].op) # "SelectWildcard"
    BY DEF HandlersOK, Request, Operation, FirstStatement
  <2> QED
    BY <1>2, <1>3, <2>1 DEF Validate, Abort
<1>5. ~SelectUser(c) /\ ~Authenticate(c)
  BY <1>1, <1>2, <1>3 DEF SelectUser, Authenticate
<1>6. /\ ~InsertUser(c) /\ ~UpdateRow(c) /\ ~DeletePermissions(c)
      /\ ~DeleteGrant(c) /\ ~Upsert(c) /\ ~SelectBack(c)
      /\ \A e \in BOOLEAN : ~DeleteUserRow(c, e) /\ ~InsertGrant(c, e)
  BY <1>1, <1>2, <1>3 DEF InsertUser, UpdateRow, DeletePermissions, DeleteGrant,
     Upsert, SelectBack, DeleteUserRow, InsertGrant
<1>7. ~SelectWildcard(c)
  BY <1>1, <1>2 DEF SelectWildcard, Decide
<1>8. SelectExact(c)
  BY <1>4, <1>5, <1>6, <1>7 DEF AnyStep
<1> QED
  BY <1>1, <1>2, <1>8 DEF SelectExact, Decide, tables, Goto

\* A call is let through by a row that suffices, or needs none.
LEMMA ToAllowed ==
  ASSUME TypeInv, NEW c \in Client, AnyStep(c), req[c].op = "Call",
         answer'[c] = "ok", answer[c] # "ok",
         req[c].token # AdminToken, RequiredPermission(req[c].method) # ""
  PROVE  LET need == RequiredPermission(req[c].method)
             Enough(rows) == \E a \in rows : HasRequiredPermission(a.permission, need)
         IN  \/ /\ At(c, "SelectExact")
                /\ Enough(AclRows(loc[c].id, RequiredModule(req[c])))
             \/ At(c, "SelectWildcard") /\ Enough(AclRows(loc[c].id, "*"))
<1> USE DEF TypeInv
<1>1. \A a : a # "ok" => ~Fail(c, a)
  BY DEF Fail, HandlersOK
<1>2. \A s : ~Goto(c, s)
  BY DEF Goto, HandlersOK
<1>3. ~Validate(c) /\ ~Abort(c)
  BY <1>1, <1>2 DEF Validate, Abort
<1>4. Own(req[c], pc[c], loc[c])
  BY DEF HandlersOK
<1>5. /\ ~InsertUser(c) /\ ~UpdateRow(c) /\ ~DeletePermissions(c)
      /\ ~DeleteGrant(c) /\ ~Upsert(c) /\ ~SelectBack(c) /\ ~SelectUser(c)
      /\ \A e \in BOOLEAN : ~DeleteUserRow(c, e) /\ ~InsertGrant(c, e)
  BY <1>4 DEF Own, At, InsertUser, UpdateRow, DeletePermissions, DeleteGrant,
     Upsert, SelectBack, SelectUser, DeleteUserRow, InsertGrant
<1>6. ~Authenticate(c)
  BY <1>1, <1>2 DEF Authenticate
<1>7. SelectExact(c) \/ SelectWildcard(c)
  BY <1>3, <1>5, <1>6 DEF AnyStep
<1> QED
  BY <1>1, <1>2, <1>7 DEF SelectExact, SelectWildcard, Decide

LEMMA StepCheckInv ==
  ASSUME TypeInv, CheckInv, NEW c \in Client, AnyStep(c), Observe
  PROVE  CheckInv'
<1>0. Frame(c) /\ held \subseteq held'
  BY StepFrame DEF Observe
<1>1. HeldWhenEffective'
  BY DEF HeldWhenEffective, Observe
<1>2. UnseenOvertook' /\ overtaken \subseteq overtaken'
  <2>0. overtaken \subseteq overtaken'
    BY AclWriters DEF UpsertGrant
  <2> SUFFICES ASSUME NEW d \in Client, At(d, "SelectWildcard")',
                      d \notin overtaken'
               PROVE  AclRows(loc[d].id, RequiredModule(req[d]))' = {}
    BY <2>0 DEF UnseenOvertook
  <2>1. CASE d = c
    BY <2>1, ToWildcard DEF AclRows, RequiredModule
  <2>2. CASE d # c
    <3>1. At(d, "SelectWildcard") /\ loc'[d] = loc[d] /\ req' = req
      BY <1>0, <2>2 DEF Frame, At
    <3>2. AclRows(loc[d].id, RequiredModule(req[d])) = {}
      BY <2>0, <3>1 DEF CheckInv, UnseenOvertook
    <3>3. CASE acl' \subseteq acl
      BY <3>1, <3>2, <3>3 DEF AclRows, RequiredModule
    <3>4. CASE UpsertGrant(c)
      <4>1. ~(loc[d].id = req[c].user /\ RequiredModule(req[d]) = req[c].module)
        BY <3>1, <3>4 DEF UpsertGrant, Overtaken
      <4>2. \A a \in acl' : \/ a \in acl
                            \/ a.user_id = req[c].user /\ a.module_name = req[c].module
        BY <3>4 DEF UpsertGrant
      <4>3. RequiredModule(req[d])' = RequiredModule(req[d])
        BY <3>1 DEF RequiredModule
      <4> QED
        BY <3>1, <3>2, <4>1, <4>2, <4>3 DEF AclRows
    <3> QED
      BY <3>3, <3>4, AclWriters
  <2> QED
    BY <2>1, <2>2
<1>3. AllowedWasEffective'
  <2> SUFFICES ASSUME NEW d \in Client, req[d].op = "Call", answer'[d] = "ok",
                      req[d].token # AdminToken,
                      RequiredPermission(req[d].method) # ""
               PROVE  d \in held' \cup overtaken'
    BY <1>0 DEF AllowedWasEffective, Frame, RequiredPermission
  <2>1. CASE answer[d] = "ok"
    BY <1>0, <1>2, <2>1 DEF CheckInv, AllowedWasEffective
  <2>2. CASE answer[d] # "ok"
    <3>1. d = c
      BY <1>0, <2>2 DEF Frame
    <3> DEFINE exact == AclRows(loc[c].id, RequiredModule(req[c]))
               wild == AclRows(loc[c].id, "*")
               Enough(rows) == \E a \in rows :
                 HasRequiredPermission(a.permission, RequiredPermission(req[c].method))
    <3>2. \/ At(c, "SelectExact") /\ Enough(exact)
          \/ At(c, "SelectWildcard") /\ Enough(wild)
      BY <2>2, <3>1, ToAllowed
    <3>3. Enough(exact) \/ (exact = {} /\ Enough(wild)) => Effective(c)
      BY DEF Effective
    <3>4. At(c, "SelectWildcard") => exact = {} \/ c \in overtaken
      BY DEF CheckInv, UnseenOvertook
    <3> HIDE DEF exact, wild, Enough
    <3>5. c \in held \cup overtaken
      BY <3>2, <3>3, <3>4 DEF CheckInv, HeldWhenEffective, BeingChecked
    <3> QED
      BY <1>0, <1>2, <3>1, <3>5
  <2> QED
    BY <2>1, <2>2
<1> QED
  BY <1>1, <1>2, <1>3 DEF CheckInv

-----------------------------------------------------------------------------
(* Permissions and the foreign key, over either driver.                    *)

LEMMA StepPermissions ==
  ASSUME TypeInv, PermissionsHaveUsers, StoreNext
  PROVE  PermissionsHaveUsers'
<1>1. PICK c \in Client : \/ driver = "postgres" /\ Step(c) /\ UNCHANGED svars
                          \/ driver = "sqlite" /\ SqliteStep(c)
  BY DEF StoreNext
\* No user and no excuse goes, no permission comes.
<1>2. ASSUME \A u \in users : \E v \in users' : v.id = u.id,
             acl' \subseteq acl, loose \subseteq loose', driver' = driver
      PROVE  PermissionsHaveUsers'
  BY <1>2 DEF PermissionsHaveUsers
<1>3. ASSUME UNCHANGED svars, InsertUser(c) \/ UpdateRow(c)
      PROVE  PermissionsHaveUsers'
  <2>1. CASE InsertUser(c)
    BY <1>2, <1>3, <2>1 DEF InsertUser, svars
  <2>2. CASE UpdateRow(c)
    <3>1. \A u \in users : \E v \in users' : v.id = u.id
      BY <2>2 DEF UpdateRow, UserRows
    <3> QED
      BY <1>2, <1>3, <2>2, <3>1 DEF UpdateRow, svars
  <2> QED
    BY <1>3, <2>1, <2>2
<1>4. ASSUME UNCHANGED svars,
             \/ Validate(c) \/ Abort(c) \/ SelectUser(c) \/ DeletePermissions(c)
             \/ DeleteGrant(c) \/ Authenticate(c) \/ SelectExact(c)
             \/ SelectWildcard(c) \/ SelectBack(c)
      PROVE  PermissionsHaveUsers'
  <2>1. users' = users /\ acl' \subseteq acl
    BY <1>4 DEF Validate, Abort, SelectUser, DeletePermissions, DeleteGrant,
       Authenticate, SelectExact, SelectWildcard, SelectBack, tables
  <2> QED
    BY <1>2, <1>4, <2>1 DEF svars
<1>5. ASSUME NEW e \in BOOLEAN, DeleteUserRow(c, e), driver' = driver,
             IF e THEN loose' = loose
             ELSE driver = "sqlite" /\ loose' = loose \cup {req[c].user}
      PROVE  PermissionsHaveUsers'
  BY <1>5 DEF PermissionsHaveUsers, DeleteUserRow, UserRows
<1>6. ASSUME NEW e \in BOOLEAN, users' = users, driver' = driver,
             \/ acl' = acl
             \/ UpsertGrant(c) /\ (e => UserRows(req[c].user) # {}),
             IF e THEN loose' = loose
             ELSE driver = "sqlite" /\ loose' = loose \cup {req[c].user}
      PROVE  PermissionsHaveUsers'
  <2>1. \A a \in acl' : a \in acl \/ (UpsertGrant(c) /\ a.user_id = req[c].user)
    BY <1>6 DEF UpsertGrant
  <2> QED
    BY <1>6, <2>1 DEF PermissionsHaveUsers, UserRows
<1>7. CASE driver = "postgres" /\ Step(c) /\ UNCHANGED svars
  <2>1. CASE DeleteUserRow(c, TRUE)
    BY <1>5, <1>7, <2>1 DEF svars
  <2>2. CASE InsertGrant(c, TRUE)
    BY <1>6, <1>7, <2>2 DEF InsertGrant, svars
  <2> QED
    BY <1>3, <1>4, <1>7, <2>1, <2>2, PostgresAssumption DEF Step
<1>8. CASE driver = "sqlite" /\ SqliteStep(c)
  <2>1. CASE DeleteUser(c)
    BY <1>5, <1>8, <2>1 DEF DeleteUser
  <2>2. CASE Upsert(c)
    BY <1>6, <1>8, <2>2 DEF Upsert
  <2> QED
    BY <1>3, <1>4, <1>8, <2>1, <2>2
    DEF SqliteStep, CreateUser, GetUser, UpdateUser, DeleteUserPermissions,
        GrantPermission, RevokePermission, GetUserByToken, CheckPermission, SelectBack
<1> QED
  BY <1>1, <1>7, <1>8

-----------------------------------------------------------------------------
(* The theorems.                                                           *)

SafetyInv ==
  /\ TypeInv /\ TokensDrawn
  /\ RotatedTokenStaysDead
  /\ DeactivationHolds /\ NoStaleRotation
  /\ CheckInv

LEMMA InitSafetyInv == Init => SafetyInv
<1> SUFFICES ASSUME Init PROVE SafetyInv
  OBVIOUS
<1>1. TokensDrawn /\ RotatedTokenStaysDead /\ DeactivationHolds
  BY DEF Init, TokensDrawn, RotatedTokenStaysDead, DeactivationHolds
<1>2. NoStaleRotation
  BY DEF Init, NoStaleRotation, At
<1>3. CheckInv
  BY DEF Init, CheckInv, HeldWhenEffective, UnseenOvertook, AllowedWasEffective,
     BeingChecked, At
<1> QED
  BY <1>1, <1>2, <1>3, InitTypeInv DEF SafetyInv

LEMMA NextSafetyInv == SafetyInv /\ (AnyNext \/ UNCHANGED vars) => SafetyInv'
<1>1. ASSUME SafetyInv, AnyNext PROVE SafetyInv'
  <2>1. PICK c \in Client : AnyStep(c) /\ Observe
    BY <1>1 DEF AnyNext
  <2> QED
    BY <1>1, <2>1, StepTypeInv, StepTokensDrawn, StepRotated, StepDeactivation,
       StepCheckInv
    DEF SafetyInv
<1>2. ASSUME SafetyInv, UNCHANGED vars PROVE SafetyInv'
  <2> USE <1>2 DEF SafetyInv, vars
  <2>1. TypeInv'
    BY DEF TypeInv, HandlersOK, TablesOK
  <2>2. TokensDrawn'
    BY DEF TokensDrawn, Drawn, Owner
  <2>3. RotatedTokenStaysDead' /\ DeactivationHolds'
    BY DEF RotatedTokenStaysDead, DeactivationHolds
  <2>4. NoStaleRotation'
    BY DEF NoStaleRotation, At
  <2>5. CheckInv'
    BY DEF CheckInv, HeldWhenEffective, UnseenOvertook, AllowedWasEffective,
       BeingChecked, Effective, AclRows, RequiredModule, RequiredPermission, At
  <2> QED
    BY <2>1, <2>2, <2>3, <2>4, <2>5
<1> QED
  BY <1>1, <1>2

LEMMA StoreInvariant == StoreSpec => []SafetyInv
<1>1. StoreInit => SafetyInv
  BY InitSafetyInv DEF StoreInit
<1>2. SafetyInv /\ [StoreNext]_<<vars, svars>> => SafetyInv'
  BY NextSafetyInv, StoreNextIsAny
<1> QED
  BY <1>1, <1>2, PTL DEF StoreSpec

\* For every workload and either driver the tables respect the schema: no
\* request, whatever number it carries, writes a permission that is not one of
\* the three levels, nor a row of a user id that no handler has read.
THEOREM UsersTypeCorrect == StoreSpec => []TypeOK
<1>1. SafetyInv => TypeOK
  BY TypeInvTypeOK DEF SafetyInv
<1> QED
  BY <1>1, StoreInvariant, PTL

\* For every workload and either driver a token that RegenerateToken has
\* replaced is never accepted again, although UpdateUser and RegenerateToken
\* write back rows they read earlier.
THEOREM RotatedTokensDead == StoreSpec => []RotatedTokenStaysDead
<1>1. SafetyInv => RotatedTokenStaysDead
  BY DEF SafetyInv
<1> QED
  BY <1>1, StoreInvariant, PTL

\* For every workload and either driver only a RegenerateToken that had read
\* the row before reactivates a user whom UpdateUser deactivated.
THEOREM DeactivatedStay == StoreSpec => []DeactivationHolds
<1>1. SafetyInv => DeactivationHolds
  BY DEF SafetyInv
<1> QED
  BY <1>1, StoreInvariant, PTL

\* For every workload and either driver a call is let through only with the
\* permission it had in some state during its check, or when a grant for the
\* module came between the two selects of CheckPermission.
THEOREM AllowedCalls == StoreSpec => []AllowedWasEffective
<1>1. SafetyInv => AllowedWasEffective
  BY DEF SafetyInv, CheckInv
<1> QED
  BY <1>1, StoreInvariant, PTL

\* For every workload a permission outlives its user only on SQLite and only
\* after a statement on a connection without foreign keys.
THEOREM PermissionsKeepUsers == StoreSpec => []PermissionsHaveUsers
<1>1. StoreInit => PermissionsHaveUsers
  BY DEF StoreInit, Init, PermissionsHaveUsers
<1>2. SafetyInv /\ PermissionsHaveUsers /\ [StoreNext]_<<vars, svars>>
        => PermissionsHaveUsers'
  <2>1. CASE StoreNext
    BY <2>1, StepPermissions DEF SafetyInv
  <2>2. CASE UNCHANGED <<vars, svars>>
    BY <2>2 DEF PermissionsHaveUsers, vars, svars
  <2> QED
    BY <2>1, <2>2
<1> QED
  BY <1>1, <1>2, StoreInvariant, PTL DEF StoreSpec

-----------------------------------------------------------------------------
(* The refinement: a SQLite grant is done with its first statement.        *)

\* Handlers seen through the mapping of Store.
LEMMA StoreHandlers ==
  ASSUME HandlersOK, NEW c \in Client, NEW s, s # "SelectBack"
  PROVE  /\ s # "Done" => (Store!At(c, s) <=> At(c, s))
         /\ pc[c] # "SelectBack" =>
              /\ Goto(c, s) => Store!Goto(c, s)
              /\ Succeed(c) => Store!Succeed(c)
              /\ \A a : Fail(c, a) => Store!Fail(c, a)
<1>1. s # "Done" => (Store!At(c, s) <=> At(c, s))
  BY DEF Store!At, At
<1>2. ASSUME pc[c] # "SelectBack", Goto(c, s) PROVE Store!Goto(c, s)
  BY <1>2 DEF Store!Goto, Goto, HandlersOK
<1>3. ASSUME pc[c] # "SelectBack", Succeed(c) PROVE Store!Succeed(c)
  BY <1>3 DEF Store!Succeed, Succeed, HandlersOK
<1>4. ASSUME pc[c] # "SelectBack", NEW a, Fail(c, a) PROVE Store!Fail(c, a)
  BY <1>4 DEF Store!Fail, Fail, HandlersOK
<1> QED
  BY <1>1, <1>2, <1>3, <1>4

LEMMA StoreReads ==
  ASSUME HandlersOK, NEW c \in Client, pc[c] # "SelectBack",
         \/ Validate(c) \/ Abort(c) \/ SelectUser(c) \/ SelectExact(c)
         \/ SelectWildcard(c) \/ Authenticate(c)
  PROVE  Store!Step(c)
<1>0. \A s : s \notin {"SelectBack", "Done"} => (Store!At(c, s) <=> At(c, s))
  BY StoreHandlers
<1>1. /\ \A s : s # "SelectBack" /\ Goto(c, s) => Store!Goto(c, s)
      /\ Succeed(c) => Store!Succeed(c)
      /\ \A a : Fail(c, a) => Store!Fail(c, a)
  BY StoreHandlers
<1>2. CASE Validate(c)
  <2>1. FirstStatement(req[c].op) # "SelectBack"
    BY DEF HandlersOK, Request, Operation, FirstStatement
  <2>2. /\ Store!FirstStatement(req[c].op) = FirstStatement(req[c].op)
        /\ Store!Valid(req[c]) <=> Valid(req[c])
    BY DEF Store!FirstStatement, FirstStatement, Store!Valid, Valid,
       Store!Permission, Permission
  <2> DEFINE s == FirstStatement(req[c].op)
             a == IF req[c].op = "Call" THEN "token invalid" ELSE "invalid"
  <2>3. Goto(c, s) => Store!Goto(c, Store!FirstStatement(req[c].op))
    BY <2>1, <2>2 DEF Goto, Store!Goto, HandlersOK
  <2>4. Fail(c, a) => Store!Fail(c, a)
    BY DEF Fail, Store!Fail, HandlersOK
  <2>5. Store!Validate(c)
    BY <1>0, <1>2, <2>2, <2>3, <2>4
    DEF Validate, Store!Validate, tables, Store!tables, history, Store!history
  <2> QED
    BY <2>5 DEF Store!Step
<1>3. CASE Abort(c)
  <2>1. Store!Abort(c)
    BY <1>1, <1>3 DEF Abort, Store!Abort, tables, Store!tables, history, Store!history
  <2> QED
    BY <2>1 DEF Store!Step
<1>4. CASE SelectUser(c)
  <2> DEFINE s == IF req[c].op = "GrantPermission" THEN "InsertGrant" ELSE "UpdateRow"
  <2>1. Goto(c, s) => Store!Goto(c, s)
    BY DEF Goto, Store!Goto, HandlersOK
  <2>2. Fail(c, "user not found") => Store!Fail(c, "user not found")
    BY <1>1
  <2>3. Store!SelectUser(c)
    BY <1>0, <1>4, <2>1, <2>2
    DEF SelectUser, Store!SelectUser, UserRows, Store!UserRows, tables,
        Store!tables, history, Store!history
  <2> QED
    BY <2>3 DEF Store!Step
<1>5. /\ Store!RequiredModule(req[c]) = RequiredModule(req[c])
      /\ Store!RequiredPermission(req[c].method) = RequiredPermission(req[c].method)
      /\ \A id, m : Store!AclRows(id, m) = AclRows(id, m)
  BY DEF Store!RequiredModule, RequiredModule, Store!RequiredPermission,
     RequiredPermission, Store!AclRows, AclRows
<1>6. \A g : Decide(c, g) => Store!Decide(c, g)
  BY <1>1, <1>5 DEF Decide, Store!Decide, HasRequiredPermission,
     Store!HasRequiredPermission, Level, Store!Level
<1>7. CASE SelectExact(c)
  <2>1. Store!SelectExact(c)
    BY <1>0, <1>1, <1>5, <1>6, <1>7
    DEF SelectExact, Store!SelectExact, tables, Store!tables, history, Store!history
  <2> QED
    BY <2>1 DEF Store!Step
<1>8. CASE SelectWildcard(c)
  <2>1. Store!SelectWildcard(c)
    BY <1>0, <1>1, <1>5, <1>6, <1>8
    DEF SelectWildcard, Store!SelectWildcard, tables, Store!tables, history,
        Store!history
  <2> QED
    BY <2>1 DEF Store!Step
<1>9. CASE Authenticate(c)
  <2>1. \A u : Store!Matches(u, req[c].token) <=> Matches(u, req[c].token)
    BY DEF Store!Matches, Matches, Store!Crypt, Crypt, Store!Plain, Plain
  <2>2. Shown(req[c].token) => Store!Shown(req[c].token)
    <3>1. req[c].token \in Client \cup {AdminToken, None} /\ req[c].token # None
      BY <1>9 DEF Authenticate, At, HandlersOK, Own, Request, Valid
    <3> QED
      BY <3>1 DEF Shown, Store!Shown
  <2>3. Store!Authenticate(c)
    BY <1>0, <1>1, <1>5, <1>9, <2>1, <2>2
    DEF Authenticate, Store!Authenticate, tables, Store!tables, history,
        Store!history
  <2> QED
    BY <2>3 DEF Store!Step
<1> QED
  BY <1>2, <1>3, <1>4, <1>7, <1>8, <1>9

LEMMA StoreWrites ==
  ASSUME TypeInv, NEW c \in Client,
         \/ InsertUser(c) \/ UpdateRow(c) \/ DeletePermissions(c) \/ DeleteGrant(c)
         \/ \E enforced \in BOOLEAN :
              DeleteUserRow(c, enforced) \/ InsertGrant(c, enforced)
         \/ Upsert(c)
  PROVE  Store!Step(c)
<1>h. HandlersOK /\ pc[c] # "SelectBack"
  BY DEF TypeInv, InsertUser, UpdateRow, DeletePermissions, DeleteGrant,
     DeleteUserRow, InsertGrant, Upsert, At
<1>0. \A d \in Client : \A s : s \notin {"SelectBack", "Done"}
        => (Store!At(d, s) <=> At(d, s))
  BY <1>h, StoreHandlers
<1>1. /\ \A s : s # "SelectBack" /\ Goto(c, s) => Store!Goto(c, s)
      /\ Succeed(c) => Store!Succeed(c)
      /\ \A a : Fail(c, a) => Store!Fail(c, a)
  BY <1>h, StoreHandlers
<1>2. /\ \A id : Store!UserRows(id) = UserRows(id)
      /\ \A n, id : Store!NameTaken(n, id) <=> NameTaken(n, id)
      /\ \A id, m : Store!AclRows(id, m) = AclRows(id, m)
  BY DEF Store!UserRows, UserRows, Store!NameTaken, NameTaken, Store!AclRows,
     AclRows
<1>3. CASE InsertUser(c)
  <2>1. Store!InsertUser(c)
    BY <1>0, <1>1, <1>2, <1>3
    DEF InsertUser, Store!InsertUser, Crypt, Store!Crypt, Plain, Store!Plain,
        history, Store!history
  <2> QED
    BY <2>1 DEF Store!Step
<1>4. CASE UpdateRow(c)
  <2>1. Store!UpdatedRow(c) = UpdatedRow(c)
    BY DEF Store!UpdatedRow, UpdatedRow, Crypt, Store!Crypt, Plain, Store!Plain
  <2>2. \A id : Store!RotationUnderWay(id) <=> RotationUnderWay(id)
    BY <1>0 DEF Store!RotationUnderWay, RotationUnderWay
  <2>3. Store!UpdateRow(c)
    BY <1>0, <1>1, <1>2, <1>4, <2>1, <2>2
    DEF UpdateRow, Store!UpdateRow, history, Store!history
  <2> QED
    BY <2>3 DEF Store!Step
<1>5. CASE DeletePermissions(c)
  <2>1. Store!DeletePermissions(c)
    BY <1>0, <1>1, <1>5
    DEF DeletePermissions, Store!DeletePermissions, history, Store!history
  <2> QED
    BY <2>1 DEF Store!Step
<1>6. CASE DeleteGrant(c)
  <2>1. Store!DeleteGrant(c)
    BY <1>0, <1>1, <1>2, <1>6
    DEF DeleteGrant, Store!DeleteGrant, history, Store!history
  <2> QED
    BY <2>1 DEF Store!Step
<1>7. ASSUME NEW enforced \in BOOLEAN, DeleteUserRow(c, enforced)
      PROVE  Store!Step(c)
  <2>1. Store!DeleteUserRow(c, enforced)
    BY <1>0, <1>1, <1>2, <1>7
    DEF DeleteUserRow, Store!DeleteUserRow, history, Store!history
  <2> QED
    BY <2>1 DEF Store!Step
<1>8. /\ \A id, m : Store!Overtaken(id, m) = Overtaken(id, m)
      /\ UpsertGrant(c) => Store!UpsertGrant(c)
  <2>1. \A d \in Client : Store!RequiredModule(req[d]) = RequiredModule(req[d])
    BY DEF Store!RequiredModule, RequiredModule
  <2>2. \A id, m : Store!Overtaken(id, m) = Overtaken(id, m)
    BY <1>0, <2>1 DEF Store!Overtaken, Overtaken
  <2> QED
    BY <1>2, <2>2 DEF UpsertGrant, Store!UpsertGrant
<1>9. ASSUME NEW enforced \in BOOLEAN, InsertGrant(c, enforced)
      PROVE  Store!Step(c)
  <2>1. Store!InsertGrant(c, enforced)
    BY <1>0, <1>1, <1>2, <1>8, <1>9
    DEF InsertGrant, Store!InsertGrant, history, Store!history
  <2> QED
    BY <2>1 DEF Store!Step
<1>10. CASE Upsert(c)
  <2>1. Goto(c, "SelectBack") => Store!Succeed(c)
    BY <1>h DEF Goto, Store!Succeed, HandlersOK
  <2>2. PICK enforced \in BOOLEAN : Store!InsertGrant(c, enforced)
    BY <1>0, <1>1, <1>2, <1>8, <1>10, <2>1
    DEF Upsert, Store!InsertGrant, history, Store!history
  <2> QED
    BY <2>2 DEF Store!Step
<1> QED
  BY <1>3, <1>4, <1>5, <1>6, <1>7, <1>9, <1>10

\* How the read back ends is not seen.
LEMMA StoreReadBack ==
  ASSUME SafetyInv, NEW c \in Client, pc[c] = "SelectBack",
         SelectBack(c) \/ Abort(c), Observe
  PROVE  UNCHANGED Store!vars
<1>0. HandlersOK /\ held \subseteq Client
  BY DEF SafetyInv, TypeInv, TablesOK
<1>1. PICK s \in {"Done", "SelectBack"}, a \in {"ok", "internal", "error"} :
        /\ pc' = [pc EXCEPT ![c] = s]
        /\ answer' = [answer EXCEPT ![c] = a]
        /\ a # "none"
        /\ s = "Done" => a = "ok"
        /\ UNCHANGED <<users, acl, req, loc, superseded, deactivated, overtaken>>
  <2>1. CASE Abort(c)
    <3>1. pc' = [pc EXCEPT ![c] = "SelectBack"]
      BY <1>0, <2>1 DEF Abort, Fail, HandlersOK
    <3> QED
      BY <2>1, <3>1 DEF Abort, Fail, tables, history
  <2>2. CASE SelectBack(c) /\ Fail(c, "internal")
    <3>1. pc' = [pc EXCEPT ![c] = "SelectBack"]
      BY <1>0, <2>2 DEF Fail, HandlersOK
    <3> QED
      BY <2>2, <3>1 DEF SelectBack, Fail, tables, history
  <2>3. CASE SelectBack(c) /\ Succeed(c)
    BY <2>3 DEF SelectBack, Succeed, tables, history
  <2> QED
    BY <2>1, <2>2, <2>3 DEF SelectBack
<1>2. \A d \in Client \ {c} : pc'[d] = pc[d] /\ answer'[d] = answer[d]
  BY <1>0, <1>1 DEF HandlersOK
<1>3. pc'[c] = s /\ answer'[c] = a
  BY <1>0, <1>1 DEF HandlersOK
<1>4. UNCHANGED [d \in Client |-> IF pc[d] = "SelectBack" THEN "Done" ELSE pc[d]]
  BY <1>1, <1>2, <1>3
<1>5. UNCHANGED [d \in Client |-> IF pc[d] = "SelectBack" THEN "ok" ELSE answer[d]]
  BY <1>1, <1>2, <1>3
<1>6. \A d \in Client : BeingChecked(d)' <=> BeingChecked(d)
  BY <1>1, <1>2, <1>3 DEF BeingChecked, At
<1>7. \A d \in Client : Effective(d)' <=> Effective(d)
  BY <1>1 DEF Effective, AclRows
<1>8. held' = held
  BY <1>0, <1>6, <1>7 DEF Observe, SafetyInv, CheckInv, HeldWhenEffective
<1> QED
  BY <1>1, <1>4, <1>5, <1>8 DEF Store!vars

\* The history of permissions held, through the mapping and after a step.
LEMMA StoreObserve ==
  ASSUME HandlersOK', Observe
  PROVE  Store!Observe
<1>1. \A d \in Client : (Store!BeingChecked(d)' <=> BeingChecked(d)')
  BY DEF Store!BeingChecked, BeingChecked, Store!At, At, HandlersOK
<1>2. \A d \in Client : (Store!Effective(d)' <=> Effective(d)')
  BY DEF Store!Effective, Effective, Store!AclRows, AclRows,
     Store!RequiredModule, RequiredModule, Store!RequiredPermission,
     RequiredPermission, Store!HasRequiredPermission, HasRequiredPermission,
     Store!Level, Level
<1> QED
  BY <1>1, <1>2 DEF Observe, Store!Observe

LEMMA StoreStep ==
  ASSUME SafetyInv, StoreNext
  PROVE  [Store!Next]_(Store!vars)
<1>1. AnyNext
  BY StoreNextIsAny
<1>2. PICK c \in Client : AnyStep(c)
  BY <1>1 DEF AnyNext
<1>3. TypeInv /\ HandlersOK
  BY DEF SafetyInv, TypeInv
<1>4. HandlersOK'
  BY <1>1, NextSafetyInv DEF SafetyInv, TypeInv
<1>5. Observe /\ Store!Observe
  BY <1>1, <1>4, StoreObserve DEF AnyNext
<1>6. ASSUME Store!Step(c) PROVE Store!Next
  BY <1>5, <1>6 DEF Store!Next
<1>7. CASE \/ InsertUser(c) \/ UpdateRow(c) \/ DeletePermissions(c) \/ DeleteGrant(c)
           \/ \E enforced \in BOOLEAN :
                DeleteUserRow(c, enforced) \/ InsertGrant(c, enforced)
           \/ Upsert(c)
  BY <1>3, <1>6, <1>7, StoreWrites
<1>8. CASE /\ pc[c] # "SelectBack"
           /\ \/ Validate(c) \/ Abort(c) \/ SelectUser(c) \/ SelectExact(c)
              \/ SelectWildcard(c) \/ Authenticate(c)
  BY <1>3, <1>6, <1>8, StoreReads
<1>9. CASE pc[c] = "SelectBack" /\ (SelectBack(c) \/ Abort(c))
  BY <1>5, <1>9, StoreReadBack
<1>10. /\ SelectBack(c) => pc[c] = "SelectBack"
       /\ \/ Validate(c) \/ SelectUser(c) \/ SelectExact(c)
          \/ SelectWildcard(c) \/ Authenticate(c)
          => pc[c] # "SelectBack"
  BY DEF SelectBack, Validate, SelectUser, SelectExact, SelectWildcard,
     Authenticate, At
<1> QED
  BY <1>2, <1>7, <1>8, <1>9, <1>10 DEF AnyStep

\* For every workload the repositories of either driver implement Users on
\* connections that may or may not enforce foreign keys: a grant of the SQLite
\* repository is done with its first statement, whatever its read back finds.
THEOREM StoreImplementsUsers == StoreSpec => ImplementsUsers
<1>1. StoreInit => Store!Init
  BY DEF StoreInit, Init, Store!Init
<1>2. SafetyInv /\ [StoreNext]_<<vars, svars>> => [Store!Next]_(Store!vars)
  <2> SUFFICES ASSUME SafetyInv, [StoreNext]_<<vars, svars>>
               PROVE  [Store!Next]_(Store!vars)
    OBVIOUS
  <2>1. CASE StoreNext
    BY <2>1, StoreStep
  <2>2. CASE UNCHANGED <<vars, svars>>
    BY <2>2 DEF vars, svars, Store!vars
  <2> QED
    BY <2>1, <2>2
<1> QED
  BY <1>1, <1>2, StoreInvariant, PTL DEF StoreSpec, ImplementsUsers, Store!Spec
=============================================================================
