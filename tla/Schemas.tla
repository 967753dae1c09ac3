------------------------------- MODULE Schemas -------------------------------
(***************************************************************************)
(* What a declared class says of itself, and how each adapter reads it:    *)
(* the keys a file may use, and the paths that must never be shown         *)
(* (_schema.py, _pydantic.py, _msgspec.py, _dataclasses.py, _settings.py). *)
(*                                                                         *)
(* An annotation is [is, of]: a type, or an origin with its arguments; a   *)
(* class adds its name, a msgspec.Meta whether it declares a secret.       *)
(***************************************************************************)
EXTENDS Trees

CONSTANTS
    Class,   \* name -> the class: its mro, fields, settings and how it is made
    Short    \* the values whose repr and str are of one character, as those of 1

\* A field: its name, the paths its aliases spell, the key its library writes
\* it under, its annotation, field(metadata={"secret": True}), and its default
\* (Missing for a required one).

Fields(c) == Range(Class[c].fields)
Inherits(c, base) == base \in Range(Class[c].mro)

Origins == {"union", "annotated", "list", "set", "tuple", "dict", "sequence", "literal"}
HasOrigin(ann) == ann.is \in Origins
IsClass(ann) == ann.is = "class"

-----------------------------------------------------------------------------
(* _schema.py: which adapter.                                               *)

IsValues(c)    == Inherits(c, "Values")
IsPydantic(c)  == Inherits(c, "BaseModel")
IsStruct(c)    == Inherits(c, "Struct")
IsDataclass(c) == Class[c].made \in {"dataclass", "pydantic dataclass"}
IsPydanticDataclass(c) == Class[c].made = "pydantic dataclass"
IsSecretType(ann) == ann.is = "secret"

\* The order matters where a class is of two kinds.
SchemaFor(c) ==
    CASE IsValues(c) -> "values"
      [] IsPydantic(c) \/ IsPydanticDataclass(c) -> "pydantic"
      [] IsStruct(c) -> "msgspec"
      [] IsDataclass(c) -> "dataclass"
      [] OTHER -> "refused"

\* Every type an annotation could be, through unions and containers alike.
RECURSIVE Unwrap(_)
Unwrap(ann) ==
    IF HasOrigin(ann) THEN UNION {Unwrap(a) : a \in Range(ann.of)} ELSE {ann}

-----------------------------------------------------------------------------
(* _pydantic.py.                                                            *)

\* The dotted key one alias can mean: an AliasPath stops at its first index.
AliasName(alias) ==
    LET indexed == {i \in DOMAIN alias : IsIndex(alias[i])}
    IN  IF indexed = {} THEN alias
        ELSE SubSeq(alias, 1, (CHOOSE i \in indexed : \A j \in indexed : i <= j) - 1)

\* Mutant: a field is known by its own name only.
OwnName(f) == {<<f.name>>}

\* Every key a file could carry for a field.
KeysOf(f) == {<<f.name>>} \cup ({AliasName(a) : a \in f.aliases} \ {<<>>})

\* The fields Pydantic validates structurally; a plain dataclass has no aliases.
FieldsOf(c) ==
    CASE IsPydantic(c) \/ IsPydanticDataclass(c) -> Fields(c)
      [] IsDataclass(c) -> {[f EXCEPT !.aliases = {}] : f \in Fields(c)}
      [] OTHER -> {}

IsContainer(ann) == ann.is \in {"list", "set", "tuple", "dict"}

\* A union's members, or the annotation itself; a container has none.
RECURSIVE Members(_)
Members(ann) ==
    CASE ~HasOrigin(ann)  -> {ann}
      [] IsContainer(ann) -> {}
      [] OTHER -> UNION {Members(a) : a \in Range(ann.of)}

\* A RootModel's content sits where the outer field is.
IsRoot(ann) == IsClass(ann) /\ Inherits(ann.class, "RootModel")
RootAnnotation(ann) == Class[ann.class].fields[1].ann

RECURSIVE ContainsSecret(_, _)
ContainsSecret(ann, seen) ==
    \/ \E m \in Members(ann) :
          \/ IsSecretType(m)
          \/ IsRoot(m) /\ ContainsSecret(RootAnnotation(m), seen)
          \/ /\ IsClass(m) /\ ~IsRoot(m) /\ m.class \notin seen
             /\ \E f \in FieldsOf(m.class) : ContainsSecret(f.ann, seen \cup {m.class})
    \/ HasOrigin(ann) /\ \E a \in Range(ann.of) : ContainsSecret(a, seen)

\* Whether a secret sits under a container: then the field is hidden whole.
RECURSIVE HoldsSecretInContainer(_, _)
HoldsSecretInContainer(ann, seen) ==
    /\ HasOrigin(ann)
    /\ \E a \in Range(ann.of) :
          IF IsContainer(ann) THEN ContainsSecret(a, seen)
                              ELSE HoldsSecretInContainer(a, seen)

RECURSIVE PathsUnder(_, _, _), ModelSecrets(_, _, _)

\* The secret paths one field contributes.
PathsUnder(ann, path, seen) ==
    IF HoldsSecretInContainer(ann, seen) \/ \E m \in Members(ann) : IsSecretType(m)
    THEN {path}
    ELSE UNION {CASE IsRoot(m)  -> PathsUnder(RootAnnotation(m), path, seen \cup {m.class})
                  [] IsClass(m) /\ ~IsRoot(m) -> ModelSecrets(m.class, path, seen)
                  [] OTHER      -> {} : m \in Members(ann)}

\* Every field under every name; a model met again adds nothing.
ModelSecrets(c, prefix, seen) ==
    IF c \in seen THEN {}
    ELSE UNION {PathsUnder(f.ann, prefix \o key, seen \cup {c}) :
                  <<f, key>> \in UNION {{f} \X KeysOf(f) : f \in FieldsOf(c)}}

\* Every key a file may use for a top-level field.
ModelNames(c) == UNION {KeysOf(f) : f \in FieldsOf(c)}

\* The leaves of a settings class, each field under its own name.
RECURSIVE ModelLeaves(_, _)
ModelLeaves(c, seen) ==
    LET Nested(f) == {a \in Unwrap(f.ann) :
                        IsClass(a) /\ IsPydantic(a.class) /\ ~IsRoot(a)}
        Under(f) == UNION {ModelLeaves(a.class, seen \cup {c}) : a \in Nested(f)}
    IN  IF c \in seen THEN {}
        ELSE UNION {IF Nested(f) = {} THEN {<<f.name>>}
                                      ELSE {<<f.name>> \o below : below \in Under(f)} :
                      f \in Fields(c)}

-----------------------------------------------------------------------------
(* _msgspec.py.                                                             *)

Metas(ann) == {a \in Unwrap(ann) : a.is = "meta"}
MarkedSecret(ann) == \E meta \in Metas(ann) : meta.secret

RECURSIVE UnderContainer(_)
UnderContainer(ann) ==
    IsContainer(ann) \/ (HasOrigin(ann) /\ \E a \in Range(ann.of) : UnderContainer(a))

\* A struct under a container hides the field, any other is walked into.
RECURSIVE StructSecrets(_, _, _)
StructSecrets(c, prefix, seen) ==
    LET Nested(f) == {a.class : a \in {a \in Unwrap(f.ann) : IsClass(a) /\ IsStruct(a.class)}}
        Inside(f, path) == UNION {StructSecrets(n, path, seen \cup {c}) : n \in Nested(f)}
        At(f) == Append(prefix, f.encode)
    IN  IF c \in seen THEN {}
        ELSE UNION {CASE MarkedSecret(f.ann) -> {At(f)}
                      [] ~MarkedSecret(f.ann) /\ UnderContainer(f.ann) ->
                            IF Inside(f, <<>>) = {} THEN {} ELSE {At(f)}
                      [] OTHER -> Inside(f, At(f)) : f \in Fields(c)}

StructNames(c) == {<<f.encode>> : f \in Fields(c)}

\* What a message says when it quotes the value it refused.
QuotesTheValue == {"Invalid enum value", "Invalid value"}

\* A path with a step left out leads nowhere.
ValueAt(data, path) == IF "..." \in Range(path) THEN Missing ELSE Resolve(data, path)

\* No value, None and one character are left where they are.
Removable(v) == v \notin {Missing, None} \cup Short

\* The two known shapes are replaced outright; from any other, what its path
\* leads to is taken out when it is found in the words.
Scrub(message, data) ==
    LET value == ValueAt(data, message.path)
    IN  IF \/ message.says \in QuotesTheValue
           \/ Removable(value) /\ message.quotes = value
        THEN [message EXCEPT !.quotes = Missing] ELSE message

-----------------------------------------------------------------------------
(* _dataclasses.py: names and secrets.                                      *)

\* Containers are unwrapped like unions; what was listed below a field before
\* its secret wrapper was met is left out, the field itself covers it.
RECURSIVE DataSecrets(_, _, _)
DataSecrets(c, prefix, seen) ==
    LET At(f) == Append(prefix, f.name)
        Marked(f) == f.secret \/ \E a \in Unwrap(f.ann) : IsSecretType(a)
        Nested(f) == {a.class : a \in {a \in Unwrap(f.ann) : IsClass(a) /\ IsDataclass(a.class)}}
    IN  IF c \in seen THEN {}
        ELSE UNION {IF Marked(f) THEN {At(f)}
                    ELSE UNION {DataSecrets(n, At(f), seen \cup {c}) : n \in Nested(f)} :
                      f \in Fields(c)}

DataNames(c) == {<<f.name>> : f \in Fields(c)}

-----------------------------------------------------------------------------
(* What every adapter answers.                                              *)

SecretPaths(c) ==
    CASE SchemaFor(c) = "pydantic"  -> ModelSecrets(c, <<>>, {})
      [] SchemaFor(c) = "msgspec"   -> StructSecrets(c, <<>>, {})
      [] SchemaFor(c) = "dataclass" -> DataSecrets(c, <<>>, {})
      [] SchemaFor(c) = "values"    -> {}

FieldNames(c) ==
    CASE SchemaFor(c) = "pydantic"  -> ModelNames(c)
      [] SchemaFor(c) = "msgspec"   -> StructNames(c)
      [] SchemaFor(c) = "dataclass" -> DataNames(c)
      [] SchemaFor(c) = "values"    -> {}

-----------------------------------------------------------------------------
(* _settings.py.                                                            *)

Sourcing == {"env_prefix", "env_file", "env_nested_delimiter", "secrets_dir",
             "toml_file", "json_file", "yaml_file", "cli_parse_args"}

IsSettings(c) == Inherits(c, "BaseSettings")

\* Its own overriding counts, an inherited one is not in vars(model).
Customises(c) == Class[c].customises

\* Which sourcing options the class declares.
DeclaredSourcing(c) ==
    {o \in Sourcing : o \in DOMAIN Class[c].settings}
        \cup IF Customises(c) THEN {"settings_customise_sources"} ELSE {}
=============================================================================
