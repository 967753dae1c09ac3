------------------------------- MODULE LogBridge -------------------------------
(***************************************************************************)
(* The engine's diagnostics on their way to `logging`: a sink that runs on *)
(* engine threads and only ever tries to send, a bounded channel, and one  *)
(* forwarder thread that enters Python.                                    *)
(*                                                                         *)
(* Source: dynamic-config-python/src/logbridge.rs, with configure_logging  *)
(* and the atexit hook of python/dynamic_config/_logging.py.  Each restart *)
(* opens a channel and a forwarder of its own; those before may still run. *)
(***************************************************************************)
EXTENDS Integers, Sequences, FiniteSets

CONSTANTS Emitters,     \* engine threads
          Controllers,  \* threads that call configure_logging, or leave
          CAPACITY,     \* lines a channel holds
          MaxLines,     \* bound on the lines
          MaxChannels,  \* bound on the channels, one more than the restarts
          MaxRequests,  \* bound on the calls of the controllers
          HasGIL        \* TRUE: one controller at a time

BridgeAssumption ==
    /\ CAPACITY \in Nat \ {0} /\ MaxChannels \in Nat \ {0}
    /\ MaxLines \in Nat /\ MaxRequests \in Nat
    /\ HasGIL \in BOOLEAN

Channels == 1..MaxChannels
Lines == 1..MaxLines

VARIABLES
    CLOSING, DROPPED,
    SENDER,       \* the channel whose sender the slot keeps, 0 if none
    sink,         \* the channel the engine's sink sends to, 0 for stderr
    level,        \* the engine's own volume
    opened,       \* the channels opened so far
    queue,
    forwarder,    \* where the forwarder of each channel is
    line,         \* the line it holds
    carried,      \* the dropped lines its record is to tell of
    sending,      \* the channel each emitter is about to send to, or 0
    saying,       \* what it sends
    at, requests, \* where each controller is, and the calls so far
    mine,         \* the channel it opens, whose sender it holds until the sink is set
    gate,         \* whether the finalization gate is shut
    \* History, read by no action.
    emitted,      \* the lines so far
    owed,         \* the lines DROPPED stands for
    held,         \* the lines the count of each record stands for
    told,         \* the lines whose count reached `logging`
    unsaid,       \* those whose record logging refused
    handled,      \* the lines that reached `logging`
    discarded,    \* the lines a forwarder took and gave up, or left unread
    stopped       \* whether anything was ever stopped

bridgeVars == <<CLOSING, SENDER, sink, level, opened>>
forwarderVars == <<queue, forwarder, line, carried>>
emitterVars == <<sending, saying, emitted>>
controlVars == <<at, requests, mine, gate, stopped>>
countVars == <<DROPPED, owed, held, told, unsaid>>
ends == <<handled, discarded>>
vars == <<bridgeVars, forwarderVars, emitterVars, controlVars, countVars, ends>>

TypeOK ==
    /\ CLOSING \in BOOLEAN /\ DROPPED \in Nat
    /\ SENDER \in 0..MaxChannels /\ sink \in 0..MaxChannels
    /\ level \in {"Off", "Warn", "Info"}
    /\ opened \in Channels
    /\ queue \in [Channels -> Seq(Lines)]
    /\ forwarder \in [Channels -> {"none", "receiving", "received", "attaching",
                                   "delivering", "gone", "unstarted"}]
    /\ line \in [Channels -> 0..MaxLines]
    /\ carried \in [Channels -> Nat]
    /\ sending \in [Emitters -> 0..MaxChannels]
    /\ saying \in [Emitters -> 0..MaxLines]
    /\ at \in [Controllers -> {"idle", "clearing", "taking", "installing",
                               "spawning", "sinking"}]
    /\ requests \in Nat /\ gate \in BOOLEAN
    /\ mine \in [Controllers -> 0..MaxChannels]
    /\ emitted \in 0..MaxLines
    /\ owed \subseteq Lines /\ held \in [Channels -> SUBSET Lines]
    /\ told \subseteq Lines /\ unsaid \subseteq Lines
    /\ handled \subseteq Lines /\ discarded \subseteq Lines
    /\ stopped \in BOOLEAN

\* Module init has installed the bridge.
Init ==
    /\ CLOSING = FALSE /\ DROPPED = 0
    /\ SENDER = 1 /\ sink = 1 /\ opened = 1
    /\ level = "Info"
    /\ queue = [c \in Channels |-> <<>>]
    /\ forwarder = [c \in Channels |-> IF c = 1 THEN "receiving" ELSE "none"]
    /\ line = [c \in Channels |-> 0]
    /\ carried = line
    /\ sending = [e \in Emitters |-> 0]
    /\ saying = sending
    /\ at = [k \in Controllers |-> "idle"]
    /\ requests = 0 /\ gate = FALSE
    /\ mine = [k \in Controllers |-> 0]
    /\ emitted = 0
    /\ owed = {} /\ held = [c \in Channels |-> {}]
    /\ told = {} /\ unsaid = {}
    /\ handled = {} /\ discarded = {}
    /\ stopped = FALSE

-----------------------------------------------------------------------------
(* The sink, on an engine thread.                                          *)

\* A line the engine lets through and the flag does not turn away.
Emit(e) ==
    /\ sending[e] = 0 /\ emitted < MaxLines
    /\ level # "Off" /\ sink # 0 /\ ~ CLOSING
    /\ emitted' = emitted + 1
    /\ sending' = [sending EXCEPT ![e] = sink]
    /\ saying' = [saying EXCEPT ![e] = emitted + 1]
    /\ UNCHANGED <<bridgeVars, forwarderVars, controlVars, countVars, ends>>

Disconnected(c) == forwarder[c] \in {"gone", "unstarted"}

Sent(e) ==
    /\ sending' = [sending EXCEPT ![e] = 0]
    /\ UNCHANGED <<bridgeVars, forwarder, line, carried, saying, emitted,
                   controlVars, held, told, unsaid, ends>>

Send(e) == LET c == sending[e] IN
    /\ c # 0 /\ ~ Disconnected(c) /\ Len(queue[c]) < CAPACITY
    /\ queue' = [queue EXCEPT ![c] = Append(@, saying[e])]
    /\ Sent(e)
    /\ UNCHANGED <<DROPPED, owed>>

\* Full, or nobody is listening any more.
Drop(e) == LET c == sending[e] IN
    /\ c # 0 /\ (Disconnected(c) \/ Len(queue[c]) >= CAPACITY)
    /\ DROPPED' = DROPPED + 1
    /\ owed' = owed \cup {saying[e]}
    /\ Sent(e)
    /\ UNCHANGED queue

-----------------------------------------------------------------------------
(* The forwarder.                                                          *)

Becomes(c, state) == forwarder' = [forwarder EXCEPT ![c] = state]

Receive(c) ==
    /\ forwarder[c] = "receiving" /\ queue[c] # <<>>
    /\ line' = [line EXCEPT ![c] = Head(queue[c])]
    /\ queue' = [queue EXCEPT ![c] = Tail(@)]
    /\ Becomes(c, "received")
    /\ UNCHANGED <<bridgeVars, carried, emitterVars, controlVars, countVars, ends>>

\* Mutant: the forwarder ends once it has nothing to read.
HangupEmpty(c) ==
    /\ forwarder[c] = "receiving" /\ queue[c] = <<>>
    /\ Becomes(c, "gone")
    /\ UNCHANGED <<bridgeVars, queue, line, carried, emitterVars, controlVars,
                   countVars, ends>>

\* recv() fails once every sender is dropped and the queue is empty.
Hangup(c) ==
    /\ forwarder[c] = "receiving" /\ queue[c] = <<>>
    /\ SENDER # c /\ sink # c
    /\ \A e \in Emitters : sending[e] # c
    /\ \A k \in Controllers : mine[k] # c
    /\ Becomes(c, "gone")
    /\ UNCHANGED <<bridgeVars, queue, line, carried, emitterVars, controlVars,
                   countVars, ends>>

\* What is still queued goes with the receiver, and is not counted.
Discard(c) ==
    /\ forwarder[c] = "received" /\ CLOSING
    /\ queue' = [queue EXCEPT ![c] = <<>>]
    /\ discarded' = discarded \cup {line[c]} \cup {queue[c][i] : i \in DOMAIN queue[c]}
    /\ Becomes(c, "gone")
    /\ UNCHANGED <<bridgeVars, line, carried, emitterVars, controlVars, countVars, handled>>

Proceed(c) ==
    /\ forwarder[c] = "received" /\ ~ CLOSING
    /\ Becomes(c, "attaching")
    /\ UNCHANGED <<bridgeVars, queue, line, carried, emitterVars, controlVars,
                   countVars, ends>>

Attached(t) == HasGIL => \A k \in Controllers \ {t} : at[k] = "idle"

Refused(c) ==
    /\ forwarder[c] = "attaching" /\ gate
    /\ discarded' = discarded \cup {line[c]}
    /\ Becomes(c, "receiving")
    /\ UNCHANGED <<bridgeVars, queue, line, carried, emitterVars, controlVars,
                   countVars, handled>>

\* Mutant: the count is read, and reset once the record is out.
EnterReading(c) ==
    /\ forwarder[c] = "attaching" /\ ~ gate /\ Attached(c)
    /\ carried' = [carried EXCEPT ![c] = DROPPED]
    /\ DROPPED' = DROPPED
    /\ held' = [held EXCEPT ![c] = owed] /\ owed' = {}
    /\ Becomes(c, "delivering")
    /\ UNCHANGED <<bridgeVars, queue, line, emitterVars, controlVars, told, unsaid,
                   ends>>

\* gate::attach, and DROPPED.swap before the record is made.
Enter(c) ==
    /\ forwarder[c] = "attaching" /\ ~ gate /\ Attached(c)
    /\ carried' = [carried EXCEPT ![c] = DROPPED]
    /\ DROPPED' = 0
    /\ held' = [held EXCEPT ![c] = owed] /\ owed' = {}
    /\ Becomes(c, "delivering")
    /\ UNCHANGED <<bridgeVars, queue, line, emitterVars, controlVars, told, unsaid,
                   ends>>

Delivered(c) ==
    /\ forwarder[c] = "delivering"
    /\ carried' = [carried EXCEPT ![c] = 0]
    /\ held' = [held EXCEPT ![c] = {}]
    /\ handled' = handled \cup {line[c]}
    /\ UNCHANGED <<bridgeVars, queue, line, emitterVars, controlVars, DROPPED, owed,
                   discarded>>

Deliver(c) ==
    /\ Delivered(c)
    /\ told' = told \cup held[c]
    /\ Becomes(c, "receiving")
    /\ UNCHANGED unsaid

\* Mutant: a failure of logging ends the forwarder.
DeliveryEnds(c) ==
    /\ Delivered(c)
    /\ unsaid' = unsaid \cup held[c]
    /\ Becomes(c, "gone")
    /\ UNCHANGED told

\* makeRecord or a handler raises; the next line tries again.
DeliveryFails(c) ==
    /\ Delivered(c)
    /\ unsaid' = unsaid \cup held[c]
    /\ Becomes(c, "receiving")
    /\ UNCHANGED told

-----------------------------------------------------------------------------
(* Stopping, starting and the volume.                                      *)

Calls(k) ==
    /\ at[k] = "idle" /\ Attached(k)
    /\ requests < MaxRequests
    /\ requests' = requests + 1

Goto(k, step) ==
    /\ at' = [at EXCEPT ![k] = step]
    /\ UNCHANGED <<gate, emitterVars, countVars, ends>>

Continues(k, from, to) ==
    /\ at[k] = from /\ Goto(k, to)
    /\ UNCHANGED <<requests, stopped, CLOSING, level, queue, line, carried>>

Stop(k) ==
    /\ Calls(k)
    /\ CLOSING' = TRUE
    /\ stopped' = TRUE
    /\ Goto(k, "clearing")
    /\ UNCHANGED <<SENDER, sink, level, opened, mine, forwarderVars>>

ClearSink(k) ==
    /\ Continues(k, "clearing", "taking")
    /\ sink' = 0
    /\ UNCHANGED <<SENDER, opened, mine, forwarder>>

TakeSender(k) ==
    /\ Continues(k, "taking", "idle")
    /\ SENDER' = 0
    /\ UNCHANGED <<sink, opened, mine, forwarder>>

Start(k) ==
    /\ Calls(k)
    /\ CLOSING' = FALSE
    /\ Goto(k, "installing")
    /\ UNCHANGED <<stopped, mine, SENDER, sink, level, opened, forwarderVars>>

AlreadyInstalled(k) ==
    /\ SENDER # 0
    /\ Continues(k, "installing", "idle")
    /\ UNCHANGED <<SENDER, sink, opened, mine, forwarder>>

Open(k) ==
    /\ SENDER = 0 /\ opened < MaxChannels
    /\ Continues(k, "installing", "spawning")
    /\ opened' = opened + 1
    /\ SENDER' = opened + 1
    /\ mine' = [mine EXCEPT ![k] = opened + 1]
    /\ UNCHANGED <<sink, forwarder>>

\* spawn(..).ok(): the thread may not start, which drops the receiver.
Spawn(k) == \E state \in {"receiving", "unstarted"} :
    /\ Continues(k, "spawning", "sinking")
    /\ Becomes(mine[k], state)
    /\ UNCHANGED <<SENDER, sink, opened, mine>>

SetSink(k) ==
    /\ Continues(k, "sinking", "idle")
    /\ sink' = mine[k]
    /\ mine' = [mine EXCEPT ![k] = 0]
    /\ UNCHANGED <<SENDER, opened, forwarder>>

Volume(n) == IF n < 0 THEN "Off" ELSE IF n > 20 THEN "Warn" ELSE "Info"

SetLevel(k) == \E n \in {-1, 20, 30} :
    /\ Calls(k)
    /\ level' = Volume(n)
    /\ Goto(k, "idle")
    /\ UNCHANGED <<stopped, mine, CLOSING, SENDER, sink, opened, forwarderVars>>

ShutGate ==
    /\ ~ gate /\ Attached(0)
    /\ gate' = TRUE
    /\ stopped' = TRUE
    /\ UNCHANGED <<bridgeVars, forwarderVars, emitterVars, at, requests, mine, countVars,
                   ends>>

-----------------------------------------------------------------------------

Step(k) ==
    \/ ClearSink(k) \/ TakeSender(k)
    \/ AlreadyInstalled(k) \/ Open(k) \/ Spawn(k) \/ SetSink(k)

Forward(c) ==
    \/ Receive(c) \/ Hangup(c) \/ Discard(c) \/ Proceed(c)
    \/ Refused(c) \/ Enter(c) \/ Deliver(c) \/ DeliveryFails(c)

Next ==
    \/ ShutGate
    \/ \E k \in Controllers : Stop(k) \/ Start(k) \/ SetLevel(k) \/ Step(k)
    \/ \E e \in Emitters : Emit(e) \/ Send(e) \/ Drop(e)
    \/ \E c \in Channels : Forward(c)

Spec == Init /\ [][Next]_vars

\* The forwarder keeps running and handlers return; so does a call once made.
FairSpec ==
    /\ Spec
    /\ \A c \in Channels : WF_vars(Forward(c))
    /\ \A k \in Controllers : WF_vars(Step(k))

-----------------------------------------------------------------------------
(* Properties.                                                             *)

\* A counted line is told of by at most one record.
OneRecord ==
    /\ told \cap unsaid = {} /\ owed \cap (told \cup unsaid) = {}
    /\ \A c \in Channels :
        /\ held[c] \cap (owed \cup told \cup unsaid) = {}
        /\ \A d \in Channels \ {c} : held[c] \cap held[d] = {}

\* Where a line can be that is not lost.
Counted == owed \cup told \cup unsaid \cup UNION {held[c] : c \in Channels}
InSink(n) == \E e \in Emitters : sending[e] # 0 /\ saying[e] = n
InChannel(n) == \E c \in Channels :
    /\ ~ Disconnected(c)
    /\ \/ \E i \in DOMAIN queue[c] : queue[c][i] = n
       \/ forwarder[c] # "receiving" /\ line[c] = n

\* Silence is never silent: DROPPED is the number of lines dropped and not told of
\* yet, what a record says is the number of those it took over, and no line is in
\* the count of two records, whichever of two forwarders takes it; only a record
\* that logging refuses takes its count with it.  And each line is on its way, handled
\* or counted, or was discarded, as none is until something is stopped.
SilenceIsTold ==
    /\ DROPPED = Cardinality(owed)
    /\ \A c \in Channels : carried[c] = Cardinality(held[c])
    /\ OneRecord
    /\ \A n \in 1..emitted :
        n \in handled \cup Counted \cup discarded \/ InSink(n) \/ InChannel(n)
    /\ discarded # {} => stopped

\* Between two calls of configure_logging the engine has no sink, and writes to
\* stderr, or one whose lines get somewhere: it sends to the channel a restart would
\* reuse, the flag does not turn its lines away, and the forwarder that reads them has
\* not ended, whatever stops, restarts and lines came before (_stop_log_bridge, install,
\* forward).  A channel whose thread never started is the exception: install() sets a
\* sink all the same, each line of which is dropped, until the next stop.
NeverMute ==
    (\A k \in Controllers : at[k] = "idle") =>
        /\ sink = SENDER
        /\ sink # 0 => ~ CLOSING /\ forwarder[sink] \notin {"none", "gone"}

\* The same without that exception (LogBridgeUnstarted.cfg): not so.
SinkIsRead ==
    (\A k \in Controllers : at[k] = "idle") /\ sink # 0 => ~ Disconnected(sink)

\* A line the channel took reaches logging, whatever logging did with the lines
\* before it, unless the bridge was stopped or the interpreter is leaving.
LinesAreHandled ==
    \A n \in Lines :
        (\E c \in Channels : \E i \in DOMAIN queue[c] : queue[c][i] = n)
            ~> (n \in handled \/ stopped)

=============================================================================
