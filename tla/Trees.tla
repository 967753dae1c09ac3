-------------------------------- MODULE Trees --------------------------------
(***************************************************************************)
(* Documents, and the objects a schema builds from them, as data.          *)
(*                                                                         *)
(* A scalar is [is, v], a list [is, items], a table [is, at].  A dotted    *)
(* path is the sequence of its segments; a segment "#0" is an index into a *)
(* list, which no dotted path can spell.  The readers are those of Values, *)
(* the model of a configuration without a schema (_values.py).             *)
(***************************************************************************)
EXTENDS Naturals, SequencesExt

Scalar(is, v) == [is |-> is, v |-> v]
Text(v) == Scalar("str", v)
List(items) == [is |-> "list", items |-> items]
Table(at) == [is |-> "table", at |-> at]

None    == Scalar("none", "None")
Missing == [is |-> "missing"]
Refused == [is |-> "refused"]

IsTable(d) == d.is = "table"

-----------------------------------------------------------------------------
(* Values.                                                                  *)

Below(d, key) == IF IsTable(d) /\ key \in DOMAIN d.at THEN d.at[key] ELSE Missing

\* The value at a dotted path, or the sentinel.
Walk(d, path) == FoldLeft(Below, d, path)

HasPath(d, path) == Walk(d, path) # Missing

\* get(path, default).
Get(d, path, default) == IF HasPath(d, path) THEN Walk(d, path) ELSE default

\* The subtree at a path: empty where there is nothing, or no table.
Sub(d, path) ==
    LET found == Walk(d, path) IN IF IsTable(found) THEN found ELSE Table(<<>>)

RECURSIVE Leaves(_, _)
Leaves(d, prefix) ==
    IF IsTable(d) /\ DOMAIN d.at # {}
    THEN UNION {Leaves(d.at[key], Append(prefix, key)) : key \in DOMAIN d.at}
    ELSE IF prefix = <<>> THEN {} ELSE {prefix}

\* Every path that holds a value rather than a table with something in it.
LeafPaths(d) == Leaves(d, <<>>)

-----------------------------------------------------------------------------
(* Indexes, which only a library that reads the document knows.             *)

Index(i) == "#" \o ToString(i - 1)
IsIndex(key) == key \in {"#0", "#1", "#2"}

StepInto(d, key) ==
    CASE IsTable(d) -> Below(d, key)
      [] d.is = "list" ->
            LET at == {i \in DOMAIN d.items : Index(i) = key}
            IN  IF at = {} THEN Missing ELSE d.items[CHOOSE i \in at : TRUE]
      [] OTHER -> Missing

Resolve(d, path) == FoldLeft(StepInto, d, path)

-----------------------------------------------------------------------------
(* The engine, as far as the binding relies on it.                          *)

\* changed_paths: the leaves that are not the same on both sides.
Differing(before, after) ==
    {path \in LeafPaths(before) \cup LeafPaths(after) :
        Walk(before, path) # Walk(after, path)}

\* The last-known-good cache: the document without the secret paths.
RECURSIVE Without(_, _)
Without(d, secrets) ==
    IF ~IsTable(d) THEN d
    ELSE Table([key \in {k \in DOMAIN d.at : <<k>> \notin secrets} |->
                  Without(d.at[key],
                          {Tail(s) : s \in {s \in secrets : Len(s) > 1 /\ s[1] = key}})])

\* explain renders a path masked when a secret path lies at it, above or below.
Touched(path, secrets) == \E s \in secrets : IsPrefix(s, path) \/ IsPrefix(path, s)
=============================================================================
