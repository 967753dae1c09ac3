------------------------------ MODULE Declared ------------------------------
(***************************************************************************)
(* From a declared class to what is shown of its values and to the hooks   *)
(* that hear of them: DynamicConfig.__init__, from_settings and on_change  *)
(* (_config.py), HookGuard (_lifetime.py), @dynamic_config (_decorator.py).*)
(*                                                                         *)
(* One configuration is followed: it is declared, and then it loads the    *)
(* documents its sources resolve to, for ever.  How loads overlap is in    *)
(* Publish; here they follow one another.                                  *)
(***************************************************************************)
EXTENDS Structure, Decorator, Hooks

CONSTANTS
    Documents,   \* class -> the documents its sources may resolve to
    Explained,   \* the paths somebody asks explain about
    Watched,     \* class -> the sets of paths given to on_change
    Built,       \* the models a program builds itself
    Given,       \* class -> the sets of paths given with secrets=
    Divergent,   \* classes about which the code and its documents disagree
    Loose,       \* dataclasses it builds from other documents than their types say
    Upper,       \* str.upper
    NoClass, Unknown

VARIABLES
    subject,     \* the class of the configuration followed
    known,       \* its secret paths, or Unknown
    by,          \* who declared it: "call", "settings" or "decorator"
    warned,      \* the options its warning named
    sources,     \* what the fluent calls added, in order
    bound,       \* the environment variables bound to its leaves
    doc,         \* the document resolved last
    verdict,     \* what became of it
    cache,       \* the last-known-good cache
    quoted       \* the value the last refusal quotes

declVars == <<subject, known, by, warned, sources, bound>>
loadVars == <<doc, verdict, cache, quoted>>
vars == <<declVars, classVars, loadVars, hookVars>>

-----------------------------------------------------------------------------
(* Declaring.                                                               *)

\* What the engine is told is secret: a schemaless configuration that named
\* nothing does not know.
KnownSecrets(c, secrets) ==
    IF secrets = {} /\ IsValues(c) THEN Unknown ELSE SecretPaths(c) \cup secrets

\* DynamicConfig.__init__; a class of no kind is refused at the door.
New(c, secrets, who) ==
    /\ SchemaFor(c) # "refused"
    /\ subject' = c
    /\ known' = KnownSecrets(c, secrets)
    /\ by' = who
    /\ warned' = IF IsSettings(c) /\ who # "settings" THEN DeclaredSourcing(c) ELSE {}

\* The fluent calls made on it, a redacted cache among them or not.
Declare(c, secrets, calls) ==
    /\ subject = NoClass
    /\ New(c, secrets, "call")
    /\ sources' = calls
    /\ bound' = {}
    /\ UNCHANGED <<classVars, loadVars, hookVars>>

Setting(c, option, absent) ==
    IF option \in DOMAIN Class[c].settings THEN Class[c].settings[option] ELSE absent

\* The files an option names: none, one or several.
Paths(c, option) == Setting(c, option, <<>>)

\* Every leaf of a settings class, which is a Pydantic model by construction.
LeafFields(c) == ModelLeaves(c, {})

\* str.join and str.upper.
Join(delimiter, words) ==
    FoldLeft(LAMBDA joined, word : IF joined = "" THEN word ELSE joined \o delimiter \o word,
             "", words)
Cased(c, words) ==
    IF Setting(c, "case_sensitive", FALSE) THEN words
    ELSE [i \in DOMAIN words |-> Upper[words[i]]]

\* Mutant: the names of a path are joined without the delimiter.
VariableGlued(c, path) ==
    Join("", Cased(c, <<Setting(c, "env_prefix", "")>> \o path))

\* The environment variable a leaf is bound to.
Variable(c, path) ==
    Join("", Cased(c, <<Setting(c, "env_prefix", "")>>))
        \o Join(Setting(c, "env_nested_delimiter", "_"), Cased(c, path))

Untranslatable == {"cli_parse_args", "settings_customise_sources"}

\* from_settings: files, .env files and secret directories in that order, and a
\* variable per leaf; what has no equivalent is refused.
FromSettings(c) ==
    /\ subject = NoClass
    /\ IsSettings(c)
    /\ DeclaredSourcing(c) \cap Untranslatable = {}
    /\ New(c, {}, "settings")
    /\ sources' = FlattenSeq([i \in 1..5 |->
           Paths(c, <<"toml_file", "json_file", "yaml_file", "env_file", "secrets_dir">>[i])])
    /\ bound' = {[path |-> p, variable |-> Variable(c, p)] : p \in LeafFields(c)}
    /\ UNCHANGED <<classVars, loadVars, hookVars>>

-----------------------------------------------------------------------------
(* Loading.                                                                 *)

\* External: where Pydantic and msgspec look for a field in a document.
Spellings(c, f) ==
    CASE SchemaFor(c) = "pydantic" -> {<<f.name>>} \cup f.aliases
      [] SchemaFor(c) = "msgspec"  -> {<<f.encode>>}
      [] OTHER -> {<<f.name>>}

\* External: the model they build when they accept it.
Taken(c, d) ==
    Instance(c, [name \in {f.name : f \in Fields(c)} |->
        LET f == CHOOSE f \in Fields(c) : f.name = name
            found == {Resolve(d, key) : key \in Spellings(c, f)} \ {Missing}
        IN  IF found = {} THEN f.default ELSE CHOOSE v \in found : TRUE])

\* What validate() makes of a document: the tree itself, what build() makes of
\* it, or the verdict of a library.
ValuesModel(c, d)    == IF IsTable(d) THEN Instance(c, d.at) ELSE Refused
DataclassModel(c, d) == IF IsTable(d) THEN Build(c, d) ELSE Refused
LibraryModels(c, d)  == {Refused} \cup IF IsTable(d) THEN {Taken(c, d)} ELSE {}

Validated(c, d) ==
    CASE SchemaFor(c) = "values"    -> {ValuesModel(c, d)}
      [] SchemaFor(c) = "dataclass" -> {DataclassModel(c, d)}
      [] OTHER -> LibraryModels(c, d)

\* External: what msgspec may say of a refused document.  Today two shapes quote
\* a value; a later one may quote the value its path leads to.
Messages(d) ==
    LET places == {p \in UNION {{q, Append(q, "#0")} : q \in LeafPaths(d)} :
                     Resolve(d, p).is \in {"str", "int", "bool", "none"}}
        Says(says, path, quotes) == [says |-> says, path |-> path, quotes |-> quotes]
    IN  {Says("Expected a type", <<>>, Missing)}
          \cup {Says("Invalid enum value", p, Resolve(d, p)) : p \in places}
          \cup {Says("Invalid enum value", Append(p, "..."), Text("key")) : p \in places}
          \cup {Says("Invalid value", Front(p), Resolve(d, p)) : p \in places}
          \cup {Says("A later shape", p, Resolve(d, p)) : p \in places}

\* What a refusal may quote: only msgspec's own words are passed on, scrubbed.
Quoted(c, d) ==
    IF SchemaFor(c) = "msgspec" THEN {Scrub(message, d).quotes : message \in Messages(d)}
                                ELSE {Missing}

\* A model taken apart again (convert.rs, from_py): a Values is no dict, a set
\* no configuration value.
WrittenAs(f, c) == IF IsPydantic(c) \/ SchemaFor(c) = "msgspec" THEN f.encode ELSE f.name

RECURSIVE Converted(_)
Converted(object) ==
    CASE object.is \in {"list", "tuple"} ->
            Whole([i \in DOMAIN object.items |-> Converted(object.items[i])], List)
      [] object.is = "table" ->
            Whole([key \in DOMAIN object.at |-> Converted(object.at[key])], Table)
      [] object.is \in {"wrapped", "member", "parsed"} -> Converted(object.of)
      [] object.is = "set" \/ (object.is = "object" /\ IsValues(object.class)) -> Refused
      [] object.is = "object" /\ ~IsValues(object.class) ->
            Converted(Table([key \in {WrittenAs(f, object.class) : f \in Fields(object.class)} |->
                object.at[(CHOOSE f \in Fields(object.class) :
                             WrittenAs(f, object.class) = key).name]]))
      [] OTHER -> object

Comparable(built) == Converted(built) # Refused
ChangedPaths(previous, current) == Differing(Converted(previous), Converted(current))
ConvertedAt(built, path) == Walk(Converted(built), path)

\* One load of a configuration: what is refused changes neither the model nor
\* the cache; what is installed is cached without its secrets, and its round
\* tells the hooks.
Loads(c, secrets, calls) ==
    \E d \in Documents[c] : \E built \in Validated(c, d) :
        /\ doc' = d
        /\ IF built = Refused
           THEN /\ verdict' = "refused"
                /\ quoted' \in Quoted(c, d)
                /\ UNCHANGED <<cache, hookVars>>
           ELSE /\ verdict' = "installed"
                /\ quoted' = Missing
                /\ Write(built)
                /\ cache' = IF "redacted cache" \in Range(calls) /\ secrets # Unknown
                            THEN Without(d, secrets) ELSE cache

Load ==
    /\ subject # NoClass
    /\ Loads(subject, known, sources)
    /\ UNCHANGED <<declVars, classVars>>

\* is_instance: a class built from this one counts too.
IsOne(built, c) == built.is = "object" /\ Inherits(built.class, c)

\* A model the caller built: no document, no cache, the same hooks.
Replace(built) ==
    /\ subject # NoClass
    /\ IsOne(built, subject)
    /\ verdict' = "replaced"
    /\ Write(built)
    /\ UNCHANGED <<declVars, classVars, doc, cache, quoted>>

-----------------------------------------------------------------------------
(* The decorator.                                                           *)

\* With init a class loads at once, and keeps its configuration when that fails.
Decorate(c, calls, init) ==
    /\ Attach(c)
    /\ IF subject # NoClass
       THEN UNCHANGED <<declVars, loadVars, hookVars>>    \* another configuration
       ELSE /\ New(c, {}, "decorator")
            /\ sources' = calls
            /\ bound' = {}
            /\ IF init THEN Loads(c, known', calls)
                       ELSE UNCHANGED <<loadVars, hookVars>>

-----------------------------------------------------------------------------

Init ==
    /\ subject = NoClass /\ known = Unknown /\ by = "nobody"
    /\ warned = {} /\ sources = <<>> /\ bound = {}
    /\ NoneAttached
    /\ doc = Missing /\ verdict = "none" /\ cache = Missing
    /\ quoted = Missing /\ HooksInit

Cached == <<"file", "redacted cache">>

\* Hooks come and go, of both kinds where Watched says so.
Listening ==
    /\ subject # NoClass
    /\ \E id \in HookIds :
          \/ Everything \in Watched[subject] /\ OnReload(id)
          \/ \E paths \in Watched[subject] \ {Everything} : OnChange(id, paths)
          \/ Close(id)

\* Bounds: classes are decorated together, or one configuration is declared; and
\* installs overlap where there are hooks to hear of them.
MayInstall == subject # NoClass /\ (Watched[subject] # {} \/ rounds = {})

Next ==
    \/ \E c \in DOMAIN Documents : \E secrets \in Given[c] : Declare(c, secrets, Cached)
    \/ \E c \in DOMAIN Documents : FromSettings(c)
    \/ \E c \in DOMAIN Documents, init \in BOOLEAN :
          Class[c].decorated /\ by \in {"nobody", "decorator"} /\ Decorate(c, Cached, init)
    \/ MayInstall /\ (Load \/ \E built \in Built : Replace(built))
    \/ /\ RoundsNext \/ Listening
       /\ UNCHANGED <<declVars, classVars, loadVars>>

Spec == Init /\ [][Next]_vars

-----------------------------------------------------------------------------
(* Where the secrets of a document are, read off the document itself.       *)

RECURSIVE PlacesIn(_, _, _), PlacesOf(_, _, _)
PlacesIn(ann, v, at) ==
    CASE ann.is = "secret" \/ (ann.is = "annotated" /\ \E a \in Range(ann.of) :
                                  a.is = "meta" /\ a.secret) -> {at}
      [] ann.is \in {"union", "annotated"} -> UNION {PlacesIn(a, v, at) : a \in Range(ann.of)}
      [] ann.is \in {"list", "set", "tuple", "sequence"} /\ v.is = "list" ->
            UNION {PlacesIn(ann.of[1], v.items[i], Append(at, Index(i))) : i \in DOMAIN v.items}
      [] ann.is = "dict" /\ IsTable(v) ->
            UNION {PlacesIn(ann.of[2], v.at[key], Append(at, key)) : key \in DOMAIN v.at}
      [] IsClass(ann) -> IF IsRoot(ann) THEN PlacesIn(RootAnnotation(ann), v, at)
                                        ELSE PlacesOf(ann.class, v, at)
      [] OTHER -> {}

\* A file may use every name of a field.
PlacesOf(c, d, at) ==
    UNION {LET v == Resolve(d, key)
           IN  CASE v = Missing -> {}
                 [] v # Missing /\ f.secret -> {at \o key}
                 [] OTHER -> PlacesIn(f.ann, v, at \o key) :
             <<f, key>> \in UNION {{f} \X Spellings(c, f) : f \in Fields(c)}}

SecretPlaces(c, d) ==
    IF Inherits(c, "RootModel") THEN PlacesIn(Class[c].fields[1].ann, d, <<>>)
    ELSE PlacesOf(c, d, <<>>)

\* What explain shows of a path: nothing when a secret lies at it, above or below.
Shows(path) ==
    /\ Walk(doc, path) # Missing
    /\ known # Unknown => ~Touched(path, known)

-----------------------------------------------------------------------------
(* Properties.                                                              *)

\* No secret of a document is shown: not in the redacted cache, not by explain
\* at its place, above or below it, and a refusal quotes no value longer than a
\* character, whatever the shape of msgspec's words (_msgspec.py, scrub).  The
\* adapters list secrets along the types (_schema.py, secret_paths), a document
\* has them at places.
SecretsAreCovered ==
    /\ quoted \in {Missing, None} \cup Short
    /\ subject \notin Divergent \cup {NoClass} /\ doc # Missing =>
          \A place \in SecretPlaces(subject, doc) :
             /\ verdict = "installed" /\ cache # Missing => Resolve(cache, place) = Missing
             /\ \A path \in Explained :
                   Shows(path) => ~IsPrefix(path, place) /\ ~IsPrefix(place, path)

\* A dataclass takes exactly the documents that fit its annotations and what it
\* builds has their types (_dataclasses.py, build), but for the classes of Loose,
\* where the code means something else by an annotation; a schemaless
\* configuration reads the document back, through subtrees as well (_values.py).
ModelsFitTheirClass ==
    subject # NoClass /\ doc # Missing =>
        LET class == [is |-> "class", of |-> <<>>, class |-> subject]
        IN  CASE SchemaFor(subject) = "dataclass" /\ subject \notin Loose ->
                    /\ verdict # "replaced" => (verdict = "installed" <=> Fits(class, doc))
                    /\ model # NoModel => HasType(class, model)
              [] SchemaFor(subject) = "values" ->
                    LET values == Table(model.at)
                    IN  model # NoModel /\ verdict = "installed" =>
                          /\ LeafPaths(values) = LeafPaths(doc)
                          /\ \A path \in LeafPaths(doc) : \A n \in 0..(Len(path) - 1) :
                                Get(Sub(values, SubSeq(path, 1, n)),
                                    SubSeq(path, n + 1, Len(path)), Missing) = Walk(doc, path)
              [] OTHER -> TRUE

\* No name the class uses contains the delimiter or differs in case only.
Separable(c) ==
    LET names == UNION {Range(p) : p \in LeafFields(c)}
    IN  /\ Setting(c, "env_nested_delimiter", "_") \notin Class[c].within
        /\ \A m, n \in names : Upper[m] = Upper[n] => m = n

\* What a settings class says of where its values come from is never dropped in
\* silence (_settings.py): it is warned of, or it becomes a source and each leaf
\* gets a variable of its own (from_settings), or the call is refused.
SourcesAreHonoured ==
    subject \notin Divergent \cup {NoClass} /\ IsSettings(subject) =>
        LET options == {o \in DOMAIN Class[subject].settings : o \in Sourcing}
                         \cup {o \in {"settings_customise_sources"} :
                                \E m \in Range(Class[subject].mro) :
                                   m \in DOMAIN Class /\ Class[m].customises}
        IN  IF by # "settings" THEN warned = options
            ELSE /\ options \cap Untranslatable = {}
                 /\ \A o \in {"toml_file", "json_file", "yaml_file", "env_file", "secrets_dir"} :
                       \A file \in Range(Paths(subject, o)) : file \in Range(sources)
                 /\ Separable(subject) => \A b1, b2 \in bound :
                       b1.variable = b2.variable => b1.path = b2.path
=============================================================================
