------------------------------ MODULE MCDeclared ------------------------------
(***************************************************************************)
(* The classes and documents TLC runs Declared on: every kind of schema    *)
(* with a secret in every shape of annotation, the annotations a dataclass *)
(* may carry, settings classes, and families of decorated classes.         *)
(***************************************************************************)
EXTENDS Declared

\* A word, and a number of one character.
S == Text("word")
I == Scalar("int", "1")
MCShort == {I}

Type(is) == [is |-> is, of |-> <<>>]
Of(is, args) == [is |-> is, of |-> args]
ClassOf(name) == [is |-> "class", of |-> <<>>, class |-> name]
Union(a, b) == Of("union", <<a, b>>)
Optional(a) == Union(a, Type("none"))
ListOf(a) == Of("list", <<a>>)

\* A field with a default, of no alias; and the variations on it.
Field(name, ann) == [name |-> name, ann |-> ann, aliases |-> {}, encode |-> name,
                     secret |-> FALSE, default |-> None]
Also(f, aliases) == [f EXCEPT !.aliases = aliases]
Must(f) == [f EXCEPT !.default = Missing]
Marked(f) == [f EXCEPT !.secret = TRUE]
Renamed(f, key) == [f EXCEPT !.encode = key]

Plainly(mro, made, fields) ==
    [mro |-> mro, made |-> made, fields |-> fields, settings |-> <<>>, customises |-> FALSE,
     within |-> {}, decorated |-> FALSE]

Kinds == {"model", "pydata", "struct", "data"}
Kind(kind, name, fields) ==
    CASE kind = "model"  -> Plainly(<<name, "BaseModel">>, "model", fields)
      [] kind = "pydata" -> Plainly(<<name>>, "pydantic dataclass", fields)
      [] kind = "struct" -> Plainly(<<name, "Struct">>, "struct", fields)
      [] kind = "data"   -> Plainly(<<name>>, "dataclass", fields)

\* A secret string the way each kind declares one by its type.
Secret(kind) ==
    IF kind = "struct"
    THEN Of("annotated", <<Type("str"), [is |-> "meta", of |-> <<>>, secret |-> TRUE]>>)
    ELSE Type("secret")

\* ... and the password of the class that others nest.
Password(kind) ==
    IF kind = "data" THEN Marked(Field("password", Type("str")))
                     ELSE Field("password", Secret(kind))

-----------------------------------------------------------------------------
(* Secrets in every shape, for every kind.                                  *)

Shapes == {"plain", "optional", "annotated", "nested", "maybe", "list", "dict", "tuple", "either",
           "secrets", "deep", "sequence"}

Shaped(kind, shape) ==
    LET creds == ClassOf(kind \o " creds")
    IN  CASE shape = "plain"    -> Secret(kind)
          [] shape = "optional" -> Optional(Secret(kind))
          [] shape = "annotated" -> Of("annotated", <<Secret(kind)>>)
          [] shape = "nested"   -> creds
          [] shape = "maybe"    -> Optional(creds)
          [] shape = "list"     -> ListOf(creds)
          [] shape = "dict"     -> Of("dict", <<Type("str"), creds>>)
          [] shape = "tuple"    -> Of("tuple", <<creds, Type("ellipsis")>>)
          [] shape = "either"   -> Union(creds, ListOf(creds))
          [] shape = "secrets"  -> ListOf(Secret(kind))
          [] shape = "deep"     -> ClassOf(kind \o " team")
          [] shape = "sequence" -> Of("sequence", <<creds>>)

Neighbour == Field("n", Type("int"))

InEveryKind ==
    [name \in {k \o " " \o s : k \in Kinds, s \in Shapes \cup {"creds", "team"}} |->
        LET kind  == CHOOSE k \in Kinds :
                        \E s \in Shapes \cup {"creds", "team"} : name = k \o " " \o s
            shape == CHOOSE s \in Shapes \cup {"creds", "team"} : name = kind \o " " \o s
        IN  Kind(kind, name,
                 CASE shape = "creds" -> <<Password(kind), Field("user", Type("str"))>>
                   [] shape = "team"  -> <<Field("users", ListOf(ClassOf(kind \o " creds")))>>
                   [] OTHER -> <<Field("x", Shaped(kind, shape)), Neighbour>>)]

-----------------------------------------------------------------------------
(* Shapes of one kind only.                                                 *)

Rooted(name, ann) == Plainly(<<name, "RootModel", "BaseModel">>, "model", <<Must(Field("root", ann))>>)

Special ==
    [name \in {"choices", "aliased", "indexed", "root", "roots", "rooted", "root list",
               "root model", "self", "foreign", "watched model", "renamed", "inner", "values", "named values"} |->
        CASE name = "choices" -> Kind("model", name,
                <<Also(Field("x", Type("secret")), {<<"y">>, <<"z">>}), Neighbour>>)
          [] name = "aliased" -> Kind("model", name,
                <<Also(Field("x", ClassOf("model creds")), {<<"y", "z">>}), Neighbour>>)
          [] name = "indexed" -> Kind("model", name,
                <<Also(Field("x", Type("secret")), {<<"y", "#0", "z">>}), Neighbour>>)
          [] name = "root"    -> Rooted(name, ClassOf("model creds"))
          [] name = "roots"   -> Rooted(name, ListOf(ClassOf("model creds")))
          [] name = "rooted"    -> Kind("model", name, <<Field("x", ClassOf("root")), Neighbour>>)
          [] name = "root list" -> Kind("model", name, <<Field("x", ClassOf("roots")), Neighbour>>)
          [] name = "root model" -> Rooted(name, Of("dict", <<Type("str"), Type("secret")>>))
          [] name = "self"    -> Kind("model", name,
                <<Field("x", Optional(ClassOf("self"))), Field("password", Type("secret"))>>)
          [] name = "foreign" -> Kind("model", name, <<Field("x", ClassOf("data creds"))>>)
          [] name = "watched model" -> Kind("model", name,
                <<Field("x", ClassOf("model creds")), Neighbour>>)
          [] name = "renamed" -> Kind("struct", name, <<Renamed(Field("x", Secret("struct")), "y"),
                Renamed(Field("n", ClassOf("struct creds")), "z")>>)
          [] name = "inner"   -> Kind("struct", name, <<Field("x", ClassOf("inner data"))>>)
          [] name \in {"values", "named values"} -> Plainly(<<name, "Values">>, "values", <<>>)]

InnerData == [name \in {"inner data"} |-> Kind("data", name, <<Field("password", Secret("struct"))>>)]

-----------------------------------------------------------------------------
(* What a dataclass may be annotated with.                                  *)

Pair == Of("tuple", <<Type("str"), Type("int")>>)

Annotation ==
    [name \in {"str", "int", "float", "bool", "any", "none", "int or str", "float or int",
               "int or none", "list of int", "set of str", "pair", "ints", "dict of int",
               "literal", "annotated int", "date", "colour", "level", "part", "part or list"} |->
        CASE name \in {"str", "int", "float", "bool", "any", "none", "date"} -> Type(name)
          [] name = "int or str"   -> Union(Type("int"), Type("str"))
          [] name = "float or int" -> Union(Type("float"), Type("int"))
          [] name = "int or none"  -> Optional(Type("int"))
          [] name = "list of int"  -> ListOf(Type("int"))
          [] name = "set of str"   -> Of("set", <<Type("str")>>)
          [] name = "pair"         -> Pair
          [] name = "ints"         -> Of("tuple", <<Type("int"), Type("ellipsis")>>)
          [] name = "dict of int"  -> Of("dict", <<Type("str"), Type("int")>>)
          [] name = "literal"      -> Of("literal", <<S, I>>)
          [] name = "annotated int" -> Of("annotated", <<Optional(Type("int"))>>)
          [] name = "colour"       -> [is |-> "enum", of |-> <<>>, members |-> {S}]
          [] name = "level"        -> [is |-> "enum", of |-> <<>>, members |-> {I}]
          [] name = "part"         -> ClassOf("part of data")
          [] name = "part or list" -> Union(ClassOf("part of data"), ListOf(Type("int")))]

Structured ==
    [name \in DOMAIN Annotation |-> Kind("data", name, <<Must(Field("x", Annotation[name])), Neighbour>>)]
        @@ [name \in {"watched part", "watched set", "watched colour"} |->
               Kind("data", name, <<Field("x",
                   Annotation[CASE name = "watched part" -> "part or list"
                                [] name = "watched set"  -> "set of str"
                                [] OTHER -> "colour"]), Neighbour>>)]
        @@ [name \in {"part of data"} |->
               Kind("data", name, <<Must(Field("a", Type("int"))), Field("b", Optional(Type("str")))>>)]

-----------------------------------------------------------------------------
(* Settings classes and decorated ones.                                     *)

Settings(name, fields, settings, within) ==
    [Plainly(<<name, "BaseSettings", "BaseModel">>, "model", fields)
        EXCEPT !.settings = settings, !.within = within]

Database == ClassOf("database")

Settled ==
    [name \in {"prefixed", "nested settings", "flat settings", "bare", "cased", "cli", "customised",
               "inherits customised", "database"} |->
        CASE name = "prefixed" -> Settings(name, <<Field("host", Type("str")), Field("port", Type("int"))>>,
                [env_prefix |-> "app_", env_file |-> <<".env">>, toml_file |-> <<"a.toml", "b.toml">>], {})
          [] name = "nested settings" -> Settings(name,
                <<Field("db", Database), Field("dbhost", Type("str")), Field("db_host", Type("str"))>>,
                [env_nested_delimiter |-> "__", secrets_dir |-> <<"/run">>], {"_"})
          [] name = "flat settings" -> Settings(name,
                <<Field("db", Database), Field("db_host", Type("str"))>>, [env_prefix |-> "app_"], {"_"})
          [] name = "bare"  -> Settings(name, <<Field("db", Database), Field("port", Type("int"))>>, <<>>, {})
          [] name = "cased" -> Settings(name, <<Field("host", Type("str")), Field("Host", Type("str"))>>,
                [case_sensitive |-> TRUE, json_file |-> <<"a.json">>, yaml_file |-> <<"a.yaml">>], {})
          [] name = "cli"   -> Settings(name, <<Field("host", Type("str"))>>, [cli_parse_args |-> TRUE], {})
          [] name = "customised" ->
                [Settings(name, <<Field("host", Type("str"))>>, <<>>, {}) EXCEPT !.customises = TRUE]
          [] name = "inherits customised" ->
                [Settings(name, <<Field("host", Type("str"))>>, <<>>, {})
                    EXCEPT !.mro = <<name, "customised", "BaseSettings", "BaseModel">>]
          [] name = "database" ->
                Kind("model", name, <<Field("host", Type("str")), Field("port", Type("int"))>>)]

Decorated(mro, fields) == [Plainly(mro, "model", fields) EXCEPT !.decorated = TRUE]
Host == <<Field("host", Type("str"))>>

Family ==
    [name \in {"base", "child", "grandchild", "typed", "typed child", "mixed", "heir", "shadowed"} |->
        CASE name = "base"        -> Decorated(<<name, "BaseModel">>, Host)
          [] name = "child"       -> Decorated(<<name, "base", "BaseModel">>, Host)
          [] name = "grandchild"  -> Decorated(<<name, "child", "base", "BaseModel">>, Host)
          [] name = "typed"       -> Decorated(<<name, "Configured", "BaseModel">>, Host)
          [] name = "typed child" -> Decorated(<<name, "typed", "Configured", "BaseModel">>, Host)
          [] name = "mixed"       -> Decorated(<<name, "base", "BaseModel", "Configured">>, Host)
          [] name = "heir"        -> Plainly(<<name, "child", "base", "BaseModel">>, "model", Host)
          [] name = "shadowed"    -> Decorated(<<name, "BaseModel">>, <<Field("reload", Type("bool"))>>)]

Stranger == [name \in {"stranger"} |-> Plainly(<<name>>, "class", <<>>)]

AllClasses == InEveryKind @@ Special @@ InnerData @@ Structured @@ Settled @@ Family @@ Stranger

-----------------------------------------------------------------------------
(* Documents: one value at any spelling of one field, beside a neighbour.   *)

\* The document that holds a value at a path.
Nest(path, v) ==
    FoldRight(LAMBDA key, below : IF IsIndex(key) THEN List(<<below>>)
                                  ELSE Table([k \in {key} |-> below]), path, v)
Beside(d, key, v) == Table((key :> v) @@ d.at)

Creds == Table([password |-> S, user |-> S])
Nested == {None, S, Creds, Table([password |-> S]), List(<<Creds>>), List(<<S>>),
           Table([a |-> Creds]), Table([users |-> List(<<Creds>>)])}

\* What a field of each shape may hold, and a value it may refuse.
Held(shape) ==
    CASE shape \in {"plain", "optional", "annotated"} -> {None, S}
      [] shape \in {"nested", "maybe"} -> {None, Creds, Table([password |-> S])}
      [] shape \in {"list", "tuple", "sequence"} -> {S, List(<<Creds>>)}
      [] shape = "dict"    -> {S, Table([a |-> Creds])}
      [] shape = "either"  -> {Creds, List(<<Creds>>)}
      [] shape = "secrets" -> {S, List(<<S>>)}
      [] shape = "deep"    -> {Creds, Table([users |-> List(<<Creds>>)])}
ShapeOf(c) == CHOOSE shape \in Shapes : \E k \in Kinds : c = k \o " " \o shape
Scalars == {None, S, I, Scalar("float", "1"), Scalar("bool", "true"), Text("2024-05-01")}
Structures == Scalars \cup {List(<<>>), List(<<I>>), List(<<I, I>>), List(<<S, I>>), List(<<S, S>>),
                 List(<<Scalar("bool", "true")>>), Table(<<>>), Table([a |-> I]), Table([a |-> S]),
                 Table([a |-> I, b |-> S]), Table([b |-> S]), Table([a |-> I, c |-> I])}

At(path, values) == {Nest(path, v) : v \in values}

AllDocuments ==
    [c \in DOMAIN AllClasses |->
        CASE c \in DOMAIN InEveryKind /\ AllClasses[c].fields[1].name = "x" ->
                At(<<"x">>, Held(ShapeOf(c))) \cup {Beside(Nest(<<"x">>, Creds), "n", I)}
          [] c = "choices" -> At(<<"x">>, {S}) \cup At(<<"y">>, {S}) \cup At(<<"z">>, {S})
          [] c = "aliased" -> At(<<"x">>, Nested) \cup At(<<"y", "z">>, Nested)
          [] c = "indexed" -> At(<<"x">>, {S}) \cup At(<<"y", "#0", "z">>, {S})
          [] c = "renamed" -> At(<<"y">>, {S}) \cup At(<<"z">>, {S, Creds}) \cup At(<<"x">>, {S})
          [] c \in {"rooted", "root list", "foreign", "inner"} -> At(<<"x">>, Nested)
          [] c = "root model" -> At(<<"x">>, {S})
          [] c = "self" -> {Table([password |-> S]), Nest(<<"x", "password">>, S),
                            Nest(<<"x", "x", "password">>, S)}
          [] c \in {"values", "named values"} ->
                At(<<"x">>, {None, S, Creds, Table([users |-> List(<<Creds>>)])}) \cup {Table(<<>>)}
          [] c = "watched model" -> At(<<"x">>, {None, Creds})
          [] c = "watched part" -> At(<<"x">>, {Table([a |-> I]), Table([a |-> I, b |-> S]), S})
          [] c = "watched set"    -> At(<<"x">>, {List(<<S>>), List(<<S, S>>), I})
          [] c = "watched colour" -> At(<<"x">>, {S, I}) \cup {Beside(Nest(<<"x">>, S), "n", I)}
          [] c \in DOMAIN Annotation ->
                At(<<"x">>, Structures) \cup {Table(<<>>), Table([n |-> I]), Table([x |-> I, n |-> I]),
                                              Table([x |-> I, o |-> I]), List(<<>>)}
          [] OTHER -> {Table([host |-> S])}]

AllExplained == {<<"x">>, <<"y">>, <<"z">>, <<"n">>, <<"x", "password">>, <<"x", "a">>,
                <<"x", "users">>, <<"x", "user">>, <<"password">>}

\* Hooks on classes whose models move in part: a nested table, a dict, a union.
Deeper == {<<"x", "a">>, <<"n">>}
AllWatched ==
    [c \in DOMAIN AllClasses |->
        CASE c = "data dict"    -> {Everything, Deeper}
          [] c = "watched part" -> {{<<"x">>}, Deeper}
          [] c \in {"watched model", "renamed", "watched set", "watched colour"} -> {{<<"x">>}}
          [] OTHER -> {}]

\* Models of watched classes, and one of a class nobody declared.
AllBuilt ==
    {Instance("stranger", <<>>)}
        \cup {DataclassModel("watched part", Nest(<<"x">>, v)) :
                  v \in {Table([a |-> I]), Table([a |-> I, b |-> S])}}
        \cup {Taken("watched model", Nest(<<"x">>, v)) : v \in {None, Creds}}

AllWanted == UNION Range(AllWatched) \ {Everything}
\* The models of the configurations that may have hooks; where there are none,
\* nothing is said of the others.
AllModels ==
    (AllBuilt \cup UNION {UNION {Validated(c, d) : d \in AllDocuments[c]} :
                            c \in {c \in DOMAIN AllClasses : AllWatched[c] # {}}}) \ {Refused}

AllGiven ==
    [c \in DOMAIN AllClasses |->
        CASE c = "named values" -> {{<<"x", "password">>}, {<<"x">>}}
          [] c = "int"          -> {{}, {<<"n">>}}
          [] OTHER -> {{}}]
MCParsable == [type \in {"date"} |-> {Text("2024-05-01")}]

\* Classes about which the repository's documents and its code disagree.
Leaking == {"self", "root model", "foreign", "inner"}
              \cup {k \o " sequence" : k \in Kinds \ {"data"}}
              \cup {"data " \o s : s \in {"list", "dict", "tuple", "either", "deep", "sequence"}}
AllDivergent == Leaking \cup {"inherits customised"}

\* ... each of them for a document that has a secret where no listed path leads.
ASSUME LeakingDoLeak ==
    \A c \in Leaking : \E d \in AllDocuments[c] : \E place \in SecretPlaces(c, d) :
        \A s \in SecretPaths(c) : ~IsPrefix(s, place)

\* Dataclasses that take other documents than their annotations say: None alone
\* takes any value, Any refuses None, an enum compares with ==, a secret wraps
\* what it gets and an abstract container is not looked into.
AllLoose == {"none", "any", "level"}
               \cup {"data " \o s : s \in {"plain", "optional", "annotated", "sequence"}}

\* ... each of them for some document.
ASSUME LooseAreLoose ==
    \A c \in AllLoose : \E d \in AllDocuments[c] :
        (DataclassModel(c, d) # Refused) # Fits(ClassOf(c), d)

Words == {"host", "port", "db", "dbhost", "db_host", "Host", "app_", ""}
AllUpper ==
    [w \in Words |-> CASE w = "host" -> "HOST"     [] w = "Host" -> "HOST"
                       [] w = "port" -> "PORT"     [] w = "db"   -> "DB"
                       [] w = "dbhost" -> "DBHOST" [] w = "db_host" -> "DB_HOST"
                       [] w = "app_" -> "APP_"     [] OTHER -> ""]

\* TLC evaluates the right-hand side of <- at each use: these are names of values
\* it has evaluated once.
MCClass     == AllClasses
MCDocuments == AllDocuments
MCExplained == AllExplained
MCWatched   == AllWatched
MCBuilt     == AllBuilt
MCGiven     == AllGiven
MCDivergent == AllDivergent
MCLoose     == AllLoose
MCUpper     == AllUpper
MCWanted    == AllWanted
MCModels    == AllModels
MCClasses   == DOMAIN AllClasses
MCMro(c)    == Class[c].mro
=============================================================================
