------------------------------ MODULE Structure ------------------------------
(***************************************************************************)
(* Building a dataclass from a document, the one validator this repository *)
(* writes itself (_dataclasses.py), beside what it is meant to accept:     *)
(* Fits says which values an annotation takes and HasType which objects    *)
(* belong to it, neither in terms of the order in which the code tries.    *)
(***************************************************************************)
EXTENDS Schemas

CONSTANT Parsable   \* type -> the values its own constructor or fromisoformat takes

Instance(c, at) == [is |-> "object", class |-> c, at |-> at]
Wrapped(v) == [is |-> "wrapped", of |-> v]
Member(v) == [is |-> "member", of |-> v]
Parsed(type, v) == [is |-> "parsed", type |-> type, of |-> v]

\* isinstance, in which a bool is an int.
IsInstance(v, type) == v.is = type \/ (type = "int" /\ v.is = "bool")

\* ==, to which a bool is a number and an int a float.
Number(v) == CASE v.is = "bool" -> IF v.v = "true" THEN "1" ELSE "0"
               [] OTHER -> v.v
Equal(v, w) ==
    v = w \/ ({v.is, w.is} \subseteq {"bool", "int", "float"} /\ Number(v) = Number(w))

\* A union's members in order, through unions and Annotated but no container.
RECURSIVE Candidates(_)
Candidates(ann) ==
    CASE ann.is = "union"     -> FlattenSeq([i \in DOMAIN ann.of |-> Candidates(ann.of[i])])
      [] ann.is = "annotated" -> Candidates(ann.of[1])
      [] OTHER -> <<ann>>

\* What is made of all the parts, or a refusal.
Whole(parts, Made(_)) == IF Refused \in Range(parts) THEN Refused ELSE Made(parts)

\* Mutant: a bool is as good as an int.
Plain(type, v) ==
    CASE type = "float" /\ v.is = "int" -> Scalar("float", v.v)
      [] IsInstance(v, type) -> v
      [] OTHER -> Refused

\* One value against a type that parses nothing: bool, int, float or str.
Primitive(type, v) ==
    CASE type = "float" /\ v.is = "int" -> Scalar("float", v.v)
      [] IsInstance(v, type) /\ ~(type = "int" /\ v.is = "bool") -> v
      [] OTHER -> Refused

RECURSIVE Coerce(_, _), Build(_, _)

Elements(ann, v) == [i \in DOMAIN v.items |-> Coerce(ann, v.items[i])]

AsSet(items) == [is |-> "set", of |-> Range(items)]
AsTuple(items) == [is |-> "tuple", items |-> items]

IsVariadic(ann) == Len(ann.of) = 2 /\ ann.of[2].is = "ellipsis"

\* A parameterised container, and its elements.
Container(ann, v) ==
    CASE ann.is \in {"list", "set", "tuple"} /\ v.is # "list" -> Refused
      [] ann.is = "dict" /\ ~IsTable(v) -> Refused
      [] ann.is = "list" /\ v.is = "list" -> Whole(Elements(ann.of[1], v), List)
      [] ann.is = "set" /\ v.is = "list" -> Whole(Elements(ann.of[1], v), AsSet)
      [] ann.is = "tuple" /\ v.is = "list" ->
            IF IsVariadic(ann) THEN Whole(Elements(ann.of[1], v), AsTuple)
            ELSE IF Len(ann.of) # Len(v.items) THEN Refused
            ELSE Whole([i \in DOMAIN v.items |-> Coerce(ann.of[i], v.items[i])], AsTuple)
      [] ann.is = "dict" /\ IsTable(v) ->
            Whole([key \in DOMAIN v.at |-> Coerce(ann.of[2], v.at[key])], Table)
      [] ann.is = "literal" -> IF v \in Range(ann.of) THEN v ELSE Refused   \* == and the type
      [] OTHER -> v

\* One value against one candidate that is neither optional nor a union.
One(ann, v) ==
    CASE HasOrigin(ann) -> Container(ann, v)
      [] IsClass(ann) -> IF IsTable(v) THEN Build(ann.class, v) ELSE Refused
      [] ann.is = "enum" ->
            LET found == {m \in ann.members : Equal(v, m)}
            IN  IF found = {} THEN Refused ELSE Member(CHOOSE m \in found : TRUE)
      [] IsSecretType(ann) -> Wrapped(v)
      [] ann.is \in DOMAIN Parsable ->
            IF v \in Parsable[ann.is] THEN Parsed(ann.is, v) ELSE Refused
      [] OTHER -> Primitive(ann.is, v)

\* The first that fits.
FirstOf(tries) ==
    LET fitting == {i \in DOMAIN tries : tries[i] # Refused}
    IN  IF fitting = {} THEN Refused ELSE tries[CHOOSE i \in fitting : \A j \in fitting : i <= j]

\* None only where a candidate is None; otherwise the first candidate that fits.
CoerceTo(all, concrete, v) ==
    CASE v = None -> IF \E a \in Range(all) : a.is = "none" THEN None ELSE Refused
      [] v # None /\ (concrete = <<>> \/ \E a \in Range(concrete) : a.is = "any") -> v
      [] OTHER -> FirstOf([i \in DOMAIN concrete |-> One(concrete[i], v)])

Coerce(ann, v) ==
    CoerceTo(Candidates(ann), SelectSeq(Candidates(ann), LAMBDA a : a.is # "none"), v)

Required(f) == f.default = Missing
Supplied(f, data) == f.name \in DOMAIN data.at

\* No unknown key, no required field missing, every value coerced.
Build(c, data) ==
    IF \/ \E key \in DOMAIN data.at : \A f \in Fields(c) : f.name # key
       \/ \E f \in Fields(c) : Required(f) /\ ~Supplied(f, data)
    THEN Refused
    ELSE Whole([name \in {f.name : f \in Fields(c)} |->
                  LET f == CHOOSE f \in Fields(c) : f.name = name
                  IN  IF Supplied(f, data) THEN Coerce(f.ann, data.at[name]) ELSE f.default],
               LAMBDA at : Instance(c, at))

-----------------------------------------------------------------------------
(* The reference: what an annotation means to who writes one.               *)

RECURSIVE Fits(_, _)
Fits(ann, v) ==
    LET Each(a) == v.is = "list" /\ \A i \in DOMAIN v.items : Fits(a, v.items[i])
        Field(c, key) == CHOOSE f \in Fields(c) : f.name = key
    IN  CASE ann.is = "union" -> \E a \in Range(ann.of) : Fits(a, v)
          [] ann.is = "annotated" -> Fits(ann.of[1], v)
          [] ann.is = "any" -> TRUE
          [] ann.is = "secret" -> v.is = "str"
          [] ann.is \in {"list", "set", "sequence"} -> Each(ann.of[1])
          [] ann.is = "tuple" /\ Len(ann.of) = 2 /\ ann.of[2].is = "ellipsis" -> Each(ann.of[1])
          [] ann.is = "tuple" ->
                /\ v.is = "list" /\ Len(v.items) = Len(ann.of)
                /\ \A i \in DOMAIN ann.of : Fits(ann.of[i], v.items[i])
          [] ann.is = "dict" -> IsTable(v) /\ \A key \in DOMAIN v.at : Fits(ann.of[2], v.at[key])
          [] ann.is = "literal" -> v \in Range(ann.of)
          [] ann.is = "enum" -> v \in ann.members
          [] ann.is = "class" ->
                /\ IsTable(v)
                /\ \A key \in DOMAIN v.at :
                      /\ <<key>> \in DataNames(ann.class)
                      /\ Fits(Field(ann.class, key).ann, v.at[key])
                /\ \A f \in Fields(ann.class) : Required(f) => f.name \in DOMAIN v.at
          [] ann.is = "float" -> v.is \in {"float", "int"}
          [] ann.is \in DOMAIN Parsable -> v \in Parsable[ann.is]
          [] OTHER -> v.is = ann.is   \* None alone takes None

RECURSIVE HasType(_, _)
HasType(ann, built) ==
    CASE ann.is = "union" -> \E a \in Range(ann.of) : HasType(a, built)
      [] ann.is = "annotated" -> HasType(ann.of[1], built)
      [] ann.is = "any" -> TRUE
      [] ann.is \in {"list", "sequence"} ->
            built.is = "list" /\ \A x \in Range(built.items) : HasType(ann.of[1], x)
      [] ann.is = "set" -> built.is = "set" /\ \A x \in built.of : HasType(ann.of[1], x)
      [] ann.is = "tuple" ->
            /\ built.is = "tuple"
            /\ \A i \in DOMAIN built.items :
                  HasType(ann.of[IF ann.of[Len(ann.of)].is = "ellipsis" THEN 1 ELSE i],
                          built.items[i])
      [] ann.is = "dict" -> IsTable(built) /\ \A x \in Range(built.at) : HasType(ann.of[2], x)
      [] ann.is = "literal" -> built \in Range(ann.of)
      [] ann.is = "enum" -> built.is = "member" /\ built.of \in ann.members
      [] ann.is = "secret" -> built.is = "wrapped" /\ built.of.is = "str"
      [] ann.is = "class" ->
            /\ built.is = "object" /\ built.class = ann.class
            /\ \A f \in Fields(ann.class) :
                  built.at[f.name] = f.default \/ HasType(f.ann, built.at[f.name])
      [] ann.is \in DOMAIN Parsable -> built.is = "parsed" /\ built.type = ann.is
      [] OTHER -> built.is = ann.is
=============================================================================
