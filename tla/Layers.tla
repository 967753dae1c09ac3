-------------------------------- MODULE Layers --------------------------------
(***************************************************************************)
(* What a configuration is resolved from: the sources the fluent calls     *)
(* list until the engine is built, the layers a program writes at runtime, *)
(* and overrides(), which pins values for a block and puts back what it    *)
(* found.                                                                  *)
(*                                                                         *)
(* Source: src/config/mod.rs and inner.rs, python/dynamic_config/_config.py. *)
(*                                                                         *)
(* One thread writes; a watcher may reload between any two of its steps.   *)
(* The facade keeps a mirror of the override layer, written after it.      *)
(***************************************************************************)
EXTENDS Integers, Sequences, SequencesExt, FiniteSets

CONSTANTS Paths,
          Values,      \* what a path can be pinned to
          MaxDepth,    \* bound on blocks within blocks
          MaxCalls,    \* bound on the calls, and on the changes to the files
          Unset

ASSUME LayersAssumption ==
    /\ MaxDepth \in Nat /\ MaxCalls \in Nat
    /\ Unset \notin Values /\ Unset \notin Paths
    /\ Values \cap {"default", "file", "variable", "flag"} = {}

Sources == {"files", "discovered", "environment", "env file", "secrets",
            "profile", "spelling", "document", "cache"}

VARIABLES
    engine,      \* Engine: Building or Ready
    sources,     \* the sources listed
    files,       \* the paths a file, or the environment, answers now
    defaults, flags, bindings,     \* paths of those layers
    overrides,   \* the override layer
    mirror,      \* DynamicConfig._overrides
    installed,   \* where the installed model has each path from
    mode,        \* what the thread is doing
    todo,        \* the pins it has yet to write
    half,        \* the path written to the layer and not to the mirror
    entry,       \* what the block being entered found
    frames,      \* the open blocks
    calls

layers == <<defaults, flags, bindings>>
pins == <<overrides, mirror, todo, half>>
vars == <<engine, sources, files, layers, pins, installed, mode, entry, frames, calls>>

NoPins == [p \in Paths |-> Unset]
Pins == [Paths -> Values \cup {Unset}]

\* A block remembers the mirror; what the layer held is history.
Frame == [previous : Pins, found : Pins]

Origins == Values \cup {"default", "file", "variable", "flag", Unset}

TypeOK ==
    /\ engine \in {"Building", "Ready"}
    /\ sources \subseteq Sources
    /\ files \subseteq Paths /\ defaults \subseteq Paths
    /\ flags \subseteq Paths /\ bindings \subseteq Paths
    /\ overrides \in Pins /\ mirror \in Pins /\ todo \in Pins
    /\ half \in Paths \cup {Unset}
    /\ installed \in [Paths -> Origins]
    /\ mode \in {"body", "setting", "clearing", "pinning", "entering",
                 "exiting", "emptying", "restoring", "leaving"}
    /\ entry \in Frame
    /\ frames \in Seq(Frame)
    /\ calls \in Nat

Init ==
    /\ engine = "Building" /\ sources = {}
    /\ files = {} /\ defaults = {} /\ flags = {} /\ bindings = {}
    /\ overrides = NoPins /\ mirror = NoPins
    /\ todo = NoPins /\ half = Unset
    /\ installed = NoPins
    /\ mode = "body"
    /\ entry = [previous |-> NoPins, found |-> NoPins]
    /\ frames = <<>>
    /\ calls = 0

\* A call of the thread.
Calls ==
    /\ mode = "body" /\ calls < MaxCalls
    /\ calls' = calls + 1

-----------------------------------------------------------------------------
(* The sources, and the layers that are sets of paths.                     *)

\* configure(): only while the engine is a builder.
ListSource == \E s \in Sources :
    /\ Calls /\ engine = "Building" /\ s \notin sources
    /\ sources' = sources \cup {s}
    /\ UNCHANGED <<engine, files, layers, pins, installed, mode, entry, frames>>

\* dynamic(): status(), check() and the like build the engine, and load nothing.
Ask ==
    /\ Calls /\ engine = "Building"
    /\ engine' = "Ready"
    /\ UNCHANGED <<sources, files, layers, pins, installed, mode, entry, frames>>

SetDefault(p) ==
    /\ Calls /\ defaults' = defaults \cup {p}
    /\ UNCHANGED <<engine, sources, files, flags, bindings, pins, installed, mode,
                   entry, frames>>

ClearDefaults ==
    /\ Calls /\ defaults # {} /\ defaults' = {}
    /\ UNCHANGED <<engine, sources, files, flags, bindings, pins, installed, mode,
                   entry, frames>>

SetAssignments(p) ==
    /\ Calls /\ flags' = flags \cup {p}
    /\ UNCHANGED <<engine, sources, files, defaults, bindings, pins, installed, mode,
                   entry, frames>>

ClearAssignments ==
    /\ Calls /\ flags # {} /\ flags' = {}
    /\ UNCHANGED <<engine, sources, files, defaults, bindings, pins, installed, mode,
                   entry, frames>>

BindEnv(p) ==
    /\ Calls /\ bindings' = bindings \cup {p}
    /\ UNCHANGED <<engine, sources, files, defaults, flags, pins, installed, mode,
                   entry, frames>>

\* The world writes a file.
FilesChange == \E p \in Paths :
    /\ calls < MaxCalls /\ calls' = calls + 1
    /\ files' = (files \cup {p}) \ (files \cap {p})
    /\ UNCHANGED <<engine, sources, layers, pins, installed, mode, entry, frames>>

-----------------------------------------------------------------------------
(* Loading: the last of these that answers a path wins.                     *)

Origin(p, pinned) ==
    CASE pinned[p] # Unset -> pinned[p]
      [] p \in flags       -> "flag"
      [] p \in bindings    -> "variable"
      [] p \in files /\ sources # {} -> "file"
      [] p \in defaults    -> "default"
      [] OTHER             -> Unset

Resolved(pinned) == [p \in Paths |-> Origin(p, pinned)]

\* The model may refuse what resolves, and then nothing is installed.
Loads == installed' \in {installed, Resolved(overrides)}

Reload ==
    /\ Calls /\ engine' = "Ready" /\ Loads
    /\ UNCHANGED <<sources, files, layers, pins, mode, entry, frames>>

\* The watcher of a configuration that has loaded.
WatcherReload ==
    /\ engine = "Ready"
    /\ installed' = Resolved(overrides)
    /\ UNCHANGED <<engine, sources, files, layers, pins, mode, entry, frames, calls>>

-----------------------------------------------------------------------------
(* The override layer and its mirror.                                      *)

Becomes(m) ==
    /\ mode' = m
    /\ UNCHANGED <<engine, sources, files, layers>>

SetOverride == \E p \in Paths, v \in Values :
    /\ Calls /\ Becomes("setting")
    /\ todo' = [NoPins EXCEPT ![p] = v]
    /\ UNCHANGED <<overrides, mirror, half, installed, entry, frames>>

Writing == mode \in {"setting", "pinning", "restoring"}

Layer(p) ==
    /\ Writing /\ half = Unset /\ todo[p] # Unset
    /\ overrides' = [overrides EXCEPT ![p] = todo[p]]
    /\ half' = p
    /\ Becomes(mode)
    /\ UNCHANGED <<mirror, todo, installed, entry, frames, calls>>

Mirror ==
    /\ half # Unset
    /\ mirror' = [mirror EXCEPT ![half] = todo[half]]
    /\ todo' = [todo EXCEPT ![half] = Unset]
    /\ half' = Unset
    /\ Becomes(mode)
    /\ UNCHANGED <<overrides, installed, entry, frames, calls>>

\* The layer refuses a value, or a path; before the try of overrides() that leaves
\* the pins before it.  What is put back was accepted once.
PinRefused ==
    /\ mode \in {"setting", "pinning"} /\ half = Unset /\ todo # NoPins
    /\ todo' = NoPins
    /\ Becomes("body")
    /\ UNCHANGED <<overrides, mirror, half, installed, entry, frames, calls>>

Set ==
    /\ mode = "setting" /\ todo = NoPins
    /\ Becomes("body")
    /\ UNCHANGED <<pins, installed, entry, frames, calls>>

ClearOverrides ==
    /\ Calls /\ Becomes("clearing")
    /\ overrides' = NoPins
    /\ UNCHANGED <<mirror, todo, half, installed, entry, frames>>

Cleared ==
    /\ mode = "clearing"
    /\ Becomes("body")
    /\ mirror' = NoPins
    /\ UNCHANGED <<overrides, todo, half, installed, entry, frames, calls>>

-----------------------------------------------------------------------------
(* with overrides(...).                                                    *)

Overrides == \E values \in Pins :
    /\ Len(frames) < MaxDepth
    /\ Calls /\ Becomes("pinning")
    /\ entry' = [previous |-> mirror, found |-> overrides]
    /\ todo' = values
    /\ UNCHANGED <<overrides, mirror, half, installed, frames>>

\* The try begins.
Pinned ==
    /\ mode = "pinning" /\ todo = NoPins
    /\ Becomes("entering")
    /\ frames' = Append(frames, entry)
    /\ UNCHANGED <<pins, installed, entry, calls>>

\* The reload of the entry; refused, the block is left without its body.
Enter == \E refused \in BOOLEAN :
    /\ mode = "entering"
    /\ mode' = IF refused THEN "exiting" ELSE "body"
    /\ installed' = IF refused THEN installed ELSE Resolved(overrides)
    /\ engine' = "Ready"
    /\ UNCHANGED <<sources, files, layers, pins, entry, frames, calls>>

\* The body ends, or raises.
Exit ==
    /\ mode = "body" /\ frames # <<>>
    /\ Becomes("exiting")
    /\ UNCHANGED <<pins, installed, entry, frames, calls>>

\* Mutant: only the block's own pins are meant to go, and the mirror is kept.
EmptyLayerOnly ==
    /\ mode = "emptying"
    /\ Becomes("restoring")
    /\ mirror' = mirror
    /\ todo' = Last(frames).previous
    /\ UNCHANGED <<overrides, half, installed, entry, frames, calls>>

EmptyLayer ==
    /\ mode = "exiting"
    /\ Becomes("emptying")
    /\ overrides' = NoPins
    /\ UNCHANGED <<mirror, todo, half, installed, entry, frames, calls>>

EmptyMirror ==
    /\ mode = "emptying"
    /\ Becomes("restoring")
    /\ mirror' = NoPins
    /\ todo' = Last(frames).previous
    /\ UNCHANGED <<overrides, half, installed, entry, frames, calls>>

Restored ==
    /\ mode = "restoring" /\ todo = NoPins
    /\ Becomes("leaving")
    /\ UNCHANGED <<pins, installed, entry, frames, calls>>

Leave ==
    /\ mode = "leaving"
    /\ Becomes("body")
    /\ Loads
    /\ frames' = Front(frames)
    /\ UNCHANGED <<pins, entry, calls>>

-----------------------------------------------------------------------------

Next ==
    \/ ListSource \/ Ask \/ FilesChange \/ Reload \/ WatcherReload
    \/ \E p \in Paths : SetDefault(p) \/ SetAssignments(p) \/ BindEnv(p) \/ Layer(p)
    \/ ClearDefaults \/ ClearAssignments
    \/ SetOverride \/ Mirror \/ PinRefused \/ Set \/ ClearOverrides \/ Cleared
    \/ Overrides \/ Pinned \/ Enter \/ Exit
    \/ EmptyLayer \/ EmptyMirror \/ Restored \/ Leave

Spec == Init /\ [][Next]_vars

-----------------------------------------------------------------------------
(* Properties.                                                             *)

\* A block that was entered leaves the override layer and its mirror as it found
\* them, and what it reloads on the way out is resolved from just that, whatever was
\* pinned, refused, cleared or entered inside it (overrides).
BlocksLeaveNoTrace ==
    [][Len(frames') < Len(frames) =>
          /\ overrides' = Last(frames).found
          /\ mirror' = Last(frames).found
          /\ installed' \in {installed, Resolved(Last(frames).found)}]_vars

=============================================================================
