-------------------------------- MODULE Hooks --------------------------------
(***************************************************************************)
(* The registered hooks of one configuration and the rounds that call them *)
(* after each install: commit and run_hooks (inner.rs), on_reload and      *)
(* remove_hook (mod.rs), replace() and on_change's filter (_config.py),    *)
(* HookGuard (_lifetime.py).                                               *)
(*                                                                         *)
(* An install writes the model and learns which model it replaced in one   *)
(* step; its round copies the list of hooks later, and calls them one by   *)
(* one, while hooks come and go and other installs run rounds of their     *)
(* own.  A round calls in the order of registration, here in any order.    *)
(*                                                                         *)
(* How models are compared is the engine's: what changed_paths answers is  *)
(* a constant, of which only ComparisonAssumption is used.                 *)
(***************************************************************************)
EXTENDS Integers, Sequences, SequencesExt

CONSTANTS
    Models,          \* the models that are installed
    Wanted,          \* the sets of paths given to on_change
    Converts(_),     \* whether a model can be compared at all
    Moved(_, _),     \* changed_paths of two models that can
    Value(_, _),     \* what a model has at a path
    MaxHooks,        \* bound on the hooks registered at once
    MaxPast,         \* bound on the installs remembered at once
    NoModel

\* changed_paths leaves nothing out: two models of which it lists no path at or
\* under a path have the same there.
ASSUME ComparisonAssumption ==
    /\ NoModel \notin Models
    /\ MaxHooks \in Nat /\ MaxPast \in Nat
    /\ \A a, b \in Models : Converts(a) /\ Converts(b) =>
          \A path \in UNION Wanted :
             (\A change \in Moved(a, b) : ~IsPrefix(path, change)) => Value(a, path) = Value(b, path)

Everything == {<<>>}   \* what a hook without a filter wants

VARIABLES
    model,       \* the installed model
    hooks,       \* the registered hooks
    rounds,      \* the rounds under way
    \* History.
    past         \* the models installed while anybody listens, oldest first

hookVars == <<model, hooks, rounds, past>>

\* A hook: its token, what it wants, the install that was there when it was
\* registered, and the installs it was called about.
HookIds == 1..MaxHooks

HooksInit == model = NoModel /\ hooks = {} /\ rounds = {} /\ past = <<>>

\* The history starts with the model that is there, and is forgotten when no
\* hook is registered and no round under way.
Remembered == IF past = <<>> THEN <<model>> ELSE past
Forgetting == past' = IF hooks' = {} /\ rounds' = {} THEN <<>> ELSE past

-----------------------------------------------------------------------------
(* Installs and their rounds.                                               *)

\* The write of commit: the cache gives the model it replaces.
Write(m) ==
    /\ Len(Remembered) <= MaxPast
    /\ model' = m
    /\ past' = Append(Remembered, m)
    /\ rounds' = rounds \cup {[install |-> Len(Remembered) + 1, copied |-> FALSE, todo |-> {}]}
    /\ UNCHANGED hooks

\* run_hooks copies the list under its lock, and calls outside of it.
Copy(round) ==
    /\ ~round.copied
    /\ rounds' = (rounds \ {round})
                    \cup {[round EXCEPT !.copied = TRUE, !.todo = {h.id : h \in hooks}]}
    /\ UNCHANGED <<model, hooks, past>>

\* Mutant: a path is heard of only when it is a leaf itself.
TouchesExactly(wanted, moved) == \E change \in moved : change \in wanted

\* A path naming a table covers what is inside it.
Touches(wanted, moved) == \E change \in moved, path \in wanted : IsPrefix(path, change)

\* The filter of on_change: the first install always counts, and where a model
\* does not convert the comparison raises and the hook is not called.  A hook of
\* on_reload has none.
Hears(wanted, previous, current) ==
    \/ wanted = Everything
    \/ previous = NoModel
    \/ Converts(previous) /\ Converts(current) /\ Touches(wanted, Moved(previous, current))

\* One hook of the copy has its turn; it may have been closed meanwhile.  What it
\* raises is reported and the round goes on.
Turn(round, id) ==
    /\ round.copied /\ id \in round.todo
    /\ rounds' = (rounds \ {round}) \cup {[round EXCEPT !.todo = @ \ {id}]}
    /\ hooks' = {IF h.id = id /\ Hears(h.wanted, past[round.install - 1], past[round.install])
                 THEN [h EXCEPT !.called = @ \cup {round.install}] ELSE h : h \in hooks}
    /\ UNCHANGED <<model, past>>

EndRound(round) ==
    /\ round.copied /\ round.todo = {}
    /\ rounds' = rounds \ {round}
    /\ UNCHANGED <<model, hooks>>
    /\ Forgetting

-----------------------------------------------------------------------------
(* Registration.                                                            *)

\* A token is never used again (next_hook); here not while a round has it.
Register(id, wanted) ==
    /\ \A h \in hooks : h.id # id
    /\ \A round \in rounds : id \notin round.todo
    /\ past' = Remembered
    /\ hooks' = hooks \cup {[id |-> id, wanted |-> wanted, since |-> Len(Remembered),
                             called |-> {}]}
    /\ UNCHANGED <<model, rounds>>

OnReload(id) == Register(id, Everything)

\* on_change(*paths)(hook): at least one path.
OnChange(id, paths) == paths # {} /\ Register(id, paths)

\* HookGuard.close, or the end of its with.
Close(id) ==
    /\ \E h \in hooks : h.id = id
    /\ hooks' = {h \in hooks : h.id # id}
    /\ UNCHANGED <<model, rounds>>
    /\ Forgetting

RoundsNext ==
    \E round \in rounds : Copy(round) \/ EndRound(round) \/ \E id \in HookIds : Turn(round, id)

HooksNext ==
    \/ \E m \in Models : Write(m)
    \/ RoundsNext
    \/ \E id \in HookIds : OnReload(id) \/ Close(id) \/ \E paths \in Wanted : OnChange(id, paths)

HooksSpec == HooksInit /\ [][HooksNext]_hookVars

-----------------------------------------------------------------------------

\* A round still has to come to a hook with the news of an install.
Owed(h, n) ==
    \E round \in rounds : round.install = n /\ (round.copied => h.id \in round.todo)

\* Nothing of the installs after the i-th up to the j-th has come or will come to
\* a hook.
Silent(h, i, j) == \A n \in (i + 1)..j : n \notin h.called /\ ~Owed(h, n)

\* A hook misses nothing it wants (_config.py, on_change; inner.rs, run_hooks),
\* though rounds overlap, end in any order, and start from lists that others
\* change.  Of installs of which a hook hears nothing, however many, none was the
\* first, and what they leave at its paths is what was there before them; a hook
\* without a filter hears of each.
HooksHearMoves ==
    \A h \in hooks : \A i, j \in h.since..Len(past) : i < j /\ Silent(h, i, j) =>
        /\ h.wanted # Everything /\ past[i] # NoModel
        /\ (\A n \in i..j : Converts(past[n])) =>
              \A path \in h.wanted : Value(past[i], path) = Value(past[j], path)
=============================================================================
