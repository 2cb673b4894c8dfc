----------------------------- MODULE ProtoMeta ------------------------------
(***************************************************************************)
(* What the registry tells of the parsed files of a tag: ToMetadata, which *)
(* GetMetadata answers with, and RetrieveMeta, which SaveParsedProtoFiles  *)
(* stores.  Two independent readings of the same files are set against the *)
(* third, drift detection: what a client no longer finds in them after an  *)
(* update, the drift status of the dependency has announced.               *)
(*                                                                         *)
(* A file is [filename, proto], proto as in DependencyDrift, from the rows *)
(* of proto_parsed_data.  The order of lists, which is that of the file or *)
(* sorted, is left out.                                                    *)
(***************************************************************************)
EXTENDS DependencyDrift

-----------------------------------------------------------------------------
(* ToMetadata                                                              *)

\* The values of a 64-bit int, 2^63 = 2 * 2^31 * 2^31
Fits64(n) ==
  n \in -(2 * HalfWord * HalfWord)..(2 * HalfWord * HalfWord - 1)

\* int32(n), which drops the upper bits
ToInt32(n) == ((n + HalfWord) % (2 * HalfWord)) - HalfWord

\* Mutant: strconv.ParseInt(number, 0, 64)
ShownNumberAnyBase(x) == IF Fits64(x.number) THEN ToInt32(x.number) ELSE -1

\* strconv.Atoi, -1 if it fails, and int32() of the result
ShownNumber(x) ==
  IF x.decimal /\ Fits64(x.number) THEN ToInt32(x.number) ELSE -1

\* retrieveFields and retrieveMapFields
RetrieveFields(p, m) ==
  {[name |-> f.name, type |-> f.type, tag |-> ShownNumber(f),
    label |-> IF f.type.key = "" THEN f.label ELSE "map"] :
     f \in {g \in p.fields : g.message = m /\ g.oneof = ""}}

\* The members of a oneof are shown without their numbers
RetrieveOneOfFields(p, m) ==
  {[oneof |-> f.oneof, name |-> f.name, type |-> f.type] :
     f \in {g \in p.fields : g.message = m /\ g.oneof # ""}}

\* The enums of a message; those of the file are not shown
RetrieveEnums(p, m) ==
  {[name |-> e.name,
    values |-> {ShownNumber(v) : v \in {w \in p.values : w.enum = e}}] :
     e \in {x \in p.enums : x.message = m}}

RetrieveMessages(p) ==
  [m \in p.messages |-> [fields |-> RetrieveFields(p, m),
                         oneofs |-> RetrieveOneOfFields(p, m),
                         enums |-> RetrieveEnums(p, m)]]

RetrieveServices(p) ==
  [s \in p.services |-> {[name |-> r.name, input |-> r.request, output |-> r.response] :
                           r \in {x \in p.rpcs : x.service = s}}]

\* By package; a file without a package is not shown
ToMetadata(protos) ==
  [pkg \in {f.proto.package : f \in protos} \ {""} |->
     {[filename |-> f.filename, messages |-> RetrieveMessages(f.proto),
       services |-> RetrieveServices(f.proto)] :
        f \in {g \in protos : g.proto.package = pkg}}]

-----------------------------------------------------------------------------
(* RetrieveMeta                                                            *)

\* getRefPackageName: what is before the last dot, of an option only within
\* its parentheses; << >> if there is no dot
GetRefPackageName(name) == SubSeq(name, 1, Len(name) - 1)

GetRefPackagesFromOptions(options) ==
  {GetRefPackageName(IF o.extension # <<>> THEN o.extension ELSE o.path) : o \in options}

\* Mutant: the members of oneofs are left out
GetRefPackagesNoOneOfs(p) ==
  {GetRefPackageName(f.type.name) : f \in {g \in p.fields : g.oneof = ""}}

\* Of plain fields, of oneofs' and of maps' values, of nested messages too
GetRefPackagesForMessages(p) == {GetRefPackageName(f.type.name) : f \in p.fields}

RefPackages(p) ==
  (GetRefPackagesFromOptions(p.options) \cup GetRefPackagesForMessages(p) \cup
   UNION {{GetRefPackageName(r.request), GetRefPackageName(r.response)} : r \in p.rpcs})
  \ {<<>>}

\* Of the whole tag
RetrieveMeta(protos) ==
  [packages |-> {f.proto.package : f \in protos} \ {""},
   refPackages |-> UNION {RefPackages(f.proto) : f \in protos}]

-----------------------------------------------------------------------------
(* Properties                                                              *)

\* GetParsedProtoFiles: the parsed files of a tag
Files(t) ==
  {[filename |-> f, proto |-> parsed[t][f]] :
     f \in {g \in Filename : parsed[t][g] # NoFile}}

\* A number and type that one answer shows and the next one does not.  A field
\* that has moved to a oneof is shown there by its type alone.
FieldVanished(old, new) ==
  \E x \in old.fields :
    /\ x.tag # -1
    /\ \A y \in new.fields : y.tag # x.tag \/ y.type # x.type
    /\ \A y \in new.oneofs : y.type # x.type

FileVanished(old, new) ==
  \/ ~(DOMAIN old.messages \subseteq DOMAIN new.messages)
  \/ ~(DOMAIN old.services \subseteq DOMAIN new.services)
  \/ \E s \in DOMAIN old.services : ~(old.services[s] \subseteq new.services[s])
  \/ \E m \in DOMAIN old.messages : FieldVanished(old.messages[m], new.messages[m])

\* A package, message, service, method or field of an answer of GetMetadata
\* that a later answer no longer shows
Vanished(old, new) ==
  \E pkg \in DOMAIN old :
    \/ pkg \notin DOMAIN new
    \/ \E f \in old[pkg] : \A g \in new[pkg] :
         g.filename = f.filename => FileVanished(f, g)

\* The request of a dependent is answered, and had every step up to the tag j
Covered(j) ==
  reader.pc = "done" /\ Orderly(j) /\ Unbroken(reader.pinned, j)

ReviewAdvised(j) ==
  \E s \in reader.statuses :
    /\ updated_at[s.target] <= updated_at[j]
    /\ s.rank = 3 /\ s.recommendation = "alert_review"

\* A dependent that finds something in GetMetadata of its pinned tag, and no
\* longer in that of a newer one, was advised of a critical change by a status
\* up to that tag, with the exceptions of StatusesCoverUpdate.  What metadata
\* shows and drift detection does not compare is excepted too: nested enums,
\* and fields whose number is not a decimal literal of 32 bits.
VanishedNeedsReview ==
  \A j \in reader.newer :
    /\ Covered(j)
    /\ \A x \in Files(reader.pinned) :
         \A f \in x.proto.fields : f.decimal => Fits32(f.number)
    /\ Vanished(ToMetadata(Files(reader.pinned)), ToMetadata(Files(j)))
    => ReviewAdvised(j)

\* The fields that refer to a package, by a type with a dot
Referring(p) == {f \in p.fields : GetRefPackageName(f.type.name) # <<>>}

\* So was one whose pinned tag refers, by RetrieveMeta, to a package that the
\* newer one does not refer to, unless a file that both have dropped an option or
\* a field that refers to a package has a number that drift detection skips.
DroppedReferenceNeedsReview ==
  \A j \in reader.newer :
    /\ Covered(j)
    /\ \A x \in Files(reader.pinned) :
         /\ Referring(x.proto) \subseteq ByNumber(x.proto.fields)
         /\ \A y \in Files(j) : y.filename = x.filename
                                => x.proto.options \subseteq y.proto.options
    /\ ~(RetrieveMeta(Files(reader.pinned)).refPackages
           \subseteq RetrieveMeta(Files(j)).refPackages)
    => ReviewAdvised(j)
=============================================================================
