------------------------- MODULE MCDependencyDrift --------------------------
(* Instances of ProtoMeta for TLC: a file and small changes of it. *)
EXTENDS ProtoMeta, TLC

OneModule == [t \in Tag |-> "m"]

Severities == [c \in Content \X Content |-> DetermineSeverity(c[1], c[2])]

Plain(name) == [key |-> "", name |-> name]

X(number, name, type, label) ==
  [message |-> "A", number |-> number, decimal |-> TRUE, name |-> name,
   type |-> type, label |-> label, oneof |-> ""]

E == [message |-> "", name |-> "E"]
T == Plain(<<"dep", "T">>)
Int32 == Plain(<<"int32">>)

U == Plain(<<"other", "U">>)

\* A field with a hexadecimal number, and one with a number of more than 32 bits
Hex == [X(3, "h", Int32, "optional") EXCEPT !.decimal = FALSE]
Wide == X(HalfWord + 4, "w", Int32, "optional")

Base ==
  [package |-> "p", messages |-> {"A"}, fields |-> {X(1, "x", T, "optional"), Hex},
   enums |-> {E}, values |-> {[enum |-> E, number |-> 0, decimal |-> TRUE]},
   services |-> {"S"},
   rpcs |-> {[service |-> "S", name |-> "R", request |-> <<"A">>,
              response |-> <<"A">>, streams |-> <<FALSE, FALSE>>]},
   options |-> {}, rest |-> ""]

\* A required field, a map, a message, a service, an enum, a value and an option
\* (opt.http).get more, and a field moved to a oneof; the field that the comparison
\* does not see is dropped.  A warning one way, and a breaking change back.
Required ==
  [Base EXCEPT !.fields = {[X(1, "x", T, "optional") EXCEPT !.oneof = "o"],
                           X(2, "r", Int32, "required"),
                           X(4, "m", [key |-> "string", name |-> U.name], "optional"),
                           Wide},
               !.messages = @ \cup {"A.B"}, !.services = @ \cup {"T"},
               !.enums = @ \cup {[message |-> "", name |-> "F"]},
               !.values = @ \cup {[enum |-> E, number |-> 1, decimal |-> TRUE]},
               !.options = {[extension |-> <<"opt", "http">>, path |-> <<"get">>]}]

Versions == {Base, Required}

Symmetry == Permutations(Tag) \cup Permutations(Filename)
=============================================================================
