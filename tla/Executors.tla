------------------------------- MODULE Executors -------------------------------
(***************************************************************************)
(* The process-wide pool the asynchronous calls run on: replaced, built,   *)
(* pinned for a block, and shut down at exit.                              *)
(*                                                                         *)
(* Source: dynamic-config-python/python/dynamic_config/_executor.py.       *)
(*                                                                         *)
(* A task is a thread or a coroutine; its blocks nest, those of two tasks  *)
(* may be left in any order.  A pool is shut down after the lock was let   *)
(* go, and an executor() block reads and replaces under two locks.         *)
(***************************************************************************)
EXTENDS Integers, Sequences, SequencesExt

CONSTANTS Tasks,
          Theirs,     \* the pools callers hand over
          MaxPools,   \* bound on the pools built here
          MaxCalls,   \* bound on the calls
          None        \* the loop's own executor

Built == 1..MaxPools

PoolAssumption ==
    /\ MaxPools \in Nat /\ MaxCalls \in Nat
    /\ Theirs \cap Built = {} /\ None \notin Theirs \cup Built

Pools == Theirs \cup Built
PoolsOrNone == Pools \cup {None}

VARIABLES
    default,     \* _DEFAULT_EXECUTOR
    owned,       \* _OWNED
    pools,       \* the pools built so far
    live,        \* the pools not shut down
    blocks,      \* the open executor() blocks of each task
    pc,
    victim,      \* the pool a task has yet to shut down
    calls,
    exited,      \* _shutdown_owned has run
    \* History, read by no action.
    order,       \* the open blocks, in the order they began
    crossed,     \* a block was left before one that began after it, or its two
                 \* halves fell around another change; order says nothing then
    replaced,    \* configure_executor() was called inside a block
    adopted      \* the pools somebody handed to set_executor()

globals == <<default, owned>>
history == <<order, crossed, replaced, adopted>>
vars == <<globals, pools, live, blocks, pc, victim, calls, exited, history>>

\* A block is known by its task and by how deep it nests there.
Began == [task : Tasks, depth : Nat]
Block == [saved : PoolsOrNone, owner : PoolsOrNone, chosen : PoolsOrNone, ours : BOOLEAN]

TypeOK ==
    /\ default \in PoolsOrNone /\ owned \in PoolsOrNone
    /\ pools \in 0..MaxPools /\ live \subseteq Pools
    /\ blocks \in [Tasks -> Seq(Block)]
    /\ pc \in [Tasks -> {"running", "entering", "shutting"}]
    /\ victim \in [Tasks -> PoolsOrNone]
    /\ calls \in 0..MaxCalls /\ exited \in BOOLEAN
    /\ order \in Seq(Began)
    /\ crossed \in BOOLEAN /\ replaced \in BOOLEAN
    /\ adopted \subseteq Pools

Init ==
    /\ default = None /\ owned = None
    /\ pools = 0 /\ live = Theirs
    /\ blocks = [t \in Tasks |-> <<>>]
    /\ pc = [t \in Tasks |-> "running"]
    /\ victim = [t \in Tasks |-> None]
    /\ calls = 0 /\ exited = FALSE
    /\ order = <<>> /\ crossed = FALSE /\ replaced = FALSE
    /\ adopted = {}

Running(t) == pc[t] = "running"
Goto(t, step) == pc' = [pc EXCEPT ![t] = step]

\* A call by a task; what changes the globals crosses an entry under way.
Calls(t) ==
    /\ Running(t) /\ calls < MaxCalls /\ ~ exited
    /\ calls' = calls + 1
    /\ UNCHANGED exited

\* What a caller passes: a pool of its own, the one in force, or none.
Given == Theirs \cup {default, None}

Entering == {t \in Tasks : pc[t] = "entering"}

Open == {t \in Tasks : blocks[t] # <<>>}

\* The pool to shut down once the lock is released.
ShutsDown(t, pool) ==
    /\ victim' = [victim EXCEPT ![t] = pool]
    /\ Goto(t, IF pool = None THEN "running" ELSE "shutting")

-----------------------------------------------------------------------------

SetExecutor(t) == \E pool \in Given :
    /\ Calls(t)
    /\ default' = pool /\ owned' = None
    /\ ShutsDown(t, IF owned = pool THEN None ELSE owned)
    /\ adopted' = adopted \cup ({pool} \ {None})
    /\ crossed' = (crossed \/ Entering # {})
    /\ UNCHANGED <<pools, live, blocks, order, replaced>>

\* Mutant: the pool that was in force is shut down, whoever built it.
ConfigureOverDefault(t) ==
    /\ Calls(t) /\ pools < MaxPools
    /\ pools' = pools + 1
    /\ live' = live \cup {pools'}
    /\ default' = pools' /\ owned' = pools'
    /\ ShutsDown(t, default)
    /\ crossed' = (crossed \/ Entering # {})
    /\ replaced' = (replaced \/ Open # {})
    /\ UNCHANGED <<blocks, order, adopted>>

ConfigureExecutor(t) ==
    /\ Calls(t) /\ pools < MaxPools
    /\ pools' = pools + 1
    /\ live' = live \cup {pools'}
    /\ default' = pools' /\ owned' = pools'
    /\ ShutsDown(t, owned)
    /\ crossed' = (crossed \/ Entering # {})
    /\ replaced' = (replaced \/ Open # {})
    /\ UNCHANGED <<blocks, order, adopted>>

\* The first lock of executor(): what to put back.
Enter(t) ==
    /\ Calls(t)
    /\ \E pool \in Given :
        /\ pool = None => pools < MaxPools
        /\ pools' = IF pool = None THEN pools + 1 ELSE pools
        /\ live' = IF pool = None THEN live \cup {pools'} ELSE live
        /\ blocks' = [blocks EXCEPT ![t] = Append(@,
               [saved |-> default, owner |-> owned, ours |-> pool = None,
                chosen |-> IF pool = None THEN pools' ELSE pool])]
    /\ order' = Append(order, [task |-> t, depth |-> Len(blocks[t]) + 1])
    /\ Goto(t, "entering")
    /\ UNCHANGED <<globals, victim, crossed, replaced, adopted>>

\* The second: the block's pool is in force.
Pin(t) == LET block == Last(blocks[t]) IN
    /\ pc[t] = "entering"
    /\ default' = block.chosen
    /\ owned' = IF block.ours THEN block.chosen ELSE None
    /\ Goto(t, "running")
    /\ crossed' = (crossed \/ Entering # {t})
    /\ UNCHANGED <<pools, live, blocks, victim, calls, exited, order, replaced, adopted>>

\* No block that began later is still open.
Latest(t) == order # <<>> /\ Last(order).task = t

Left(t) ==
    /\ Running(t) /\ blocks[t] # <<>>
    /\ blocks' = [blocks EXCEPT ![t] = Front(@)]
    /\ ShutsDown(t, IF Last(blocks[t]).ours THEN Last(blocks[t]).chosen ELSE None)
    /\ order' = IF Latest(t) THEN Front(order) ELSE <<>>
    /\ crossed' = (crossed \/ ~ Latest(t) \/ Entering # {})
    /\ UNCHANGED <<pools, live, calls, exited, replaced, adopted>>

\* Mutant: the pool is put back, its owner is not.
LeaveUnowned(t) ==
    /\ Left(t)
    /\ default' = Last(blocks[t]).saved
    /\ owned' = None

Leave(t) ==
    /\ Left(t)
    /\ default' = Last(blocks[t]).saved
    /\ owned' = Last(blocks[t]).owner

Shutdown(t) ==
    /\ pc[t] = "shutting"
    /\ live' = live \ {victim[t]}
    /\ victim' = [victim EXCEPT ![t] = None]
    /\ Goto(t, "running")
    /\ UNCHANGED <<globals, pools, blocks, calls, exited, history>>

\* atexit, once every block of the program was left.
Exit ==
    /\ ~ exited /\ Open = {}
    /\ exited' = TRUE
    /\ owned' = None
    /\ live' = live \ {owned}
    /\ UNCHANGED <<default, pools, blocks, pc, victim, calls, history>>

Next ==
    \/ Exit
    \/ \E t \in Tasks : \/ SetExecutor(t) \/ ConfigureExecutor(t)
                        \/ Enter(t) \/ Pin(t) \/ Leave(t) \/ Shutdown(t)

Spec == Init /\ [][Next]_vars

-----------------------------------------------------------------------------
(* Properties.                                                             *)

\* An asynchronous call never meets a pool that was shut down, however blocks nest
\* and whatever is configured inside them, unless two blocks crossed; and a
\* caller's pool is never shut down at all (set_executor, executor).
PoolIsLive ==
    /\ Theirs \subseteq live
    /\ ~ crossed /\ ~ exited /\ default # None =>
        default \in live \ {victim[t] : t \in Tasks}

\* A pool that was built here, and that nobody took over, does not outlive the
\* program, unless blocks crossed or configure_executor() was called inside one
\* (configure_executor, _shutdown_owned).
PoolsEnd ==
    exited /\ ~ crossed /\ ~ replaced /\ (\A t \in Tasks : Running(t)) =>
        live \cap Built \subseteq adopted

=============================================================================
