----------------------------- MODULE MCQueries ------------------------------
(***************************************************************************)
(* Instances of Queries, and of Registry without a query, for TLC.  A      *)
(* workload is a tuple of six requests, for the handlers 1 to 6, or of     *)
(* four, for those of Packages.                                            *)
(***************************************************************************)
EXTENDS Queries, TLC

Rq(op, name, tag, files, deps) ==
  [op |-> op, name |-> name, tag |-> tag, files |-> files, deps |-> deps]

F(name, content) == [filename |-> name, content |-> content]
D(name, tag) == [name |-> name, tag |-> tag]

TwoFiles == <<F("a.proto", "A1"), F("b.proto", "B1")>>
OneFile == <<F("a.proto", "A2")>>

Register(name) == Rq("Register", name, "", <<>>, <<>>)
RegisterM == Register("m")
PushTwo == Rq("Push", "m", "v1", TwoFiles, <<>>)
PushOne == Rq("Push", "m", "v1", OneFile, <<>>)
PushOther == Rq("Push", "m", "v2", OneFile, <<>>)
PushNext == Rq("Push", "m", "v2", OneFile, <<D("m", "v1"), D("m", "v2")>>)
PullV1 == Rq("Pull", "m", "v1", <<>>, <<>>)
DeleteV1 == Rq("DeleteTag", "m", "v1", <<>>, <<>>)
DeleteModule(name) == Rq("DeleteModule", name, "", <<>>, <<>>)
DeleteM == DeleteModule("m")
LatestDeps == Rq("GetDependencies", "m", "", <<>>, <<>>)

\* Requests the handlers refuse, and one the unique index refuses
NoName == Rq("Register", "", "", <<>>, <<>>)
BadFile == Rq("Push", "m", "v1", <<F("a.proto", "bad")>>, <<>>)
TwiceTheFile == Rq("Push", "m", "v1", <<F("a.proto", "A1"), F("a.proto", "A2")>>, <<>>)

\* Stable pushes, pulls and deletes in one module: v1 contended, v2 beside it.
\* Handlers are interchangeable: the requests are drawn in one order, the first
\* of them a push of v1, the last one a pull or a delete.
Contenders == <<PushTwo, PushOne, PushOther, PullV1, DeleteV1, DeleteM>>

Contend ==
  {<<RegisterM, Contenders[i], Contenders[j], Contenders[k], NoName, BadFile>> :
     <<i, j, k>> \in {x \in (1..2) \X (1..6) \X (4..6) : x[1] <= x[2] /\ x[2] <= x[3]}}
  \cup {<<RegisterM, PushOne, TwiceTheFile, PullV1, NoName, BadFile>>}

\* Six handlers each, any of which may be cut off before it has done anything:
\* a module that is deleted and registered again under its name, ...
Recreate ==
  {<<RegisterM, RegisterM, PushTwo, PushTwo, DeleteM, NoName>>,
   <<RegisterM, RegisterM, PushTwo, DeleteM, DeleteM, NoName>>}

\* ... tags of one module that depend on one another, ...
OwnTags == <<RegisterM, RegisterM, PushOne, PushNext, DeleteV1, LatestDeps>>

\* ... and a dependency in another module, which is deleted
CrossModule ==
  <<RegisterM, Register("n"),
    Rq("Push", "n", "v1", OneFile, <<>>),
    Rq("Push", "m", "v1", OneFile, <<D("n", "v1")>>),
    DeleteModule("n"),
    Rq("GetDependencies", "m", "v1", <<>>, <<>>)>>

Handlers == Contend \cup Recreate \cup {OwnTags, CrossModule}

Ask(op, name, tag) == [NoQuery EXCEPT !.op = op, !.name = name, !.tag = tag]

\* A tag that is deleted and pushed again
Packages ==
  {<<RegisterM, PushTwo, PushOne, DeleteV1>>} \X
  {[Ask("GetModule", "m", "") EXCEPT !.driver = "postgres"],
   [Ask("GetModule", "m", "") EXCEPT !.driver = "sqlite"],
   Ask("GetMetadata", "m", "v1")}

\* Two tags that depend on each other, and on a third, which may be deleted
CycleAnd(r) ==
  <<RegisterM, Rq("Push", "m", "v3", OneFile, <<>>),
    Rq("Push", "m", "v2", OneFile, <<D("m", "v1"), D("m", "v3")>>),
    Rq("Push", "m", "v1", OneFile, <<D("m", "v2")>>), r, NoName>>

Cycle ==
  {<<CycleAnd(Rq("DeleteTag", "m", "v3", <<>>, <<>>)), Ask("GetTransitive", "m", "v1")>>,
   <<CycleAnd(NoName), Ask("GetTransitive", "m", "")>>}

\* Modules that come and go during a walk
Walks ==
  {<<Register("a"), Register("b"), Register("c"), DeleteModule("b"),
     Register("b"), DeleteModule("a")>>} \X
  {[Ask("ListModules", "", "") EXCEPT !.size = n] : n \in {0, 1, 2}}

All == (Handlers \X {NoQuery}) \cup Cycle \cup Walks
AllHandlers == {s[1] : s \in All}
PackagesHandlers == {s[1] : s \in Packages}
RunSymmetry == Permutations(Run)
Alphabetical == <<"a", "b", "c", "m", "n">>
=============================================================================
