-------------------------------- MODULE Facade --------------------------------
(***************************************************************************)
(* A program that uses one of the three parts of the Python facade that    *)
(* keep state of their own: overrides(), which pins values of one          *)
(* configuration (Layers); executor(), which pins the process-wide pool    *)
(* (Executors); or configure_logging(), which stops and starts the log     *)
(* bridge (LogBridge).  A program that uses several is no more than these: *)
(* none of the three reads what another keeps, so what they do beside each *)
(* other adds no behaviour to any.                                         *)
(***************************************************************************)
EXTENDS Layers

CONSTANTS Tasks, Theirs, MaxPools, None,
          Emitters, Controllers, CAPACITY, MaxLines, MaxChannels, MaxRequests, HasGIL

VARIABLES
    uses,    \* the part the program uses
    default, owned, pools, live, blocks, pc, victim, poolCalls, exited,
    order, crossed, replaced, adopted,
    CLOSING, DROPPED, SENDER, sink, level, opened, queue, forwarder, line, carried,
    sending, saying, at, requests, mine, gate, emitted, owed, held, told, unsaid, handled,
    discarded, stopped

E == INSTANCE Executors WITH calls <- poolCalls
B == INSTANCE LogBridge

ASSUME FacadeAssumption == E!PoolAssumption /\ B!BridgeAssumption

ofExecutors == <<default, owned, pools, live, blocks, pc, victim, poolCalls, exited,
                 order, crossed, replaced, adopted>>
ofBridge == <<CLOSING, DROPPED, SENDER, sink, level, opened, queue, forwarder, line,
              carried, sending, saying, at, requests, mine, gate, emitted, owed, held, told,
              unsaid, handled, discarded, stopped>>

ProgramInit ==
    /\ uses \in {"overrides", "executor", "logging"}
    /\ Init /\ E!Init /\ B!Init

ProgramNext ==
    \/ uses = "overrides" /\ Next /\ UNCHANGED <<uses, ofExecutors, ofBridge>>
    \/ uses = "executor" /\ E!Next /\ UNCHANGED <<uses, vars, ofBridge>>
    \/ uses = "logging" /\ B!Next /\ UNCHANGED <<uses, vars, ofExecutors>>

Program == ProgramInit /\ [][ProgramNext]_<<uses, vars, ofExecutors, ofBridge>>

\* An asynchronous call never meets a pool that was shut down, however blocks
\* nest and whatever is configured inside them (set_executor, executor).
PoolIsLive == E!PoolIsLive

\* A pool that was built here does not outlive the program (configure_executor,
\* _shutdown_owned); the definition says when it does.
PoolsEnd == E!PoolsEnd

\* Each line the log bridge drops is in one count, and a record tells of it
\* (deliver, install); the definition says which line is not.
SilenceIsTold == B!SilenceIsTold

\* Between two calls of configure_logging the engine has no sink, or one that is read;
\* the definition names the exception (_stop_log_bridge, _start_log_bridge, forward).
NeverMute == B!NeverMute

=============================================================================
