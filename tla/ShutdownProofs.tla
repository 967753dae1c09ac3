--------------------------- MODULE ShutdownProofs ---------------------------
(***************************************************************************)
(* Proofs about Shutdown, for any threads and any number of reloads.  The  *)
(* gate needs no interpreter lock; that a released configuration stays     *)
(* empty does, because publish_current does not pass the gate.             *)
(***************************************************************************)
EXTENDS Shutdown, TLAPS

\* Where a thread can be in each of its two visits to Python and on the caller.
Control(t) ==
    /\ path[t] = "engine" =>
           ~again[t] /\ pc[t] \notin {"return", "commit", "take", "write", "hooks"}
    /\ pc[t] = "install" => path[t] = "engine"
    /\ pc[t] = "validating" => path[t] = "engine" \/ again[t]
    /\ pc[t] \in {"commit", "write", "hooks", "return"} => ~again[t]
    /\ pc[t] = "take" => again[t]
    /\ path[t] = "publish" /\ pc[t] \in {"knock", "counted", "waiting", "leave"} => again[t]

\* The passes a thread has not left are counted.
Counting(t) ==
    /\ pc[t] \in {"counted", "waiting", "validating", "leave"} => Pass(t) \in in_python
    /\ pc[t] = "wedged" /\ (path[t] = "engine" \/ again[t]) => Pass(t) \in in_python
    /\ path[t] = "hook" /\ (again[t] \/ pc[t] \in {"commit", "write", "hooks", "wedged"})
           => <<t, 1>> \in in_python

GateInv ==
    /\ TypeOK
    /\ finalizing <=> exit # "running"
    /\ \A t \in Threads : Control(t)
    /\ \A t \in Threads : Counting(t)
    /\ NoneSlipsThrough

LEMMA GateInit == Init => GateInv
<1> SUFFICES ASSUME Init PROVE GateInv
  OBVIOUS
<1>1. TypeOK
  BY ThreadAssumption DEF Init, TypeOK, Trees, Threads, Steps
<1>2. \A t \in Threads : Control(t) /\ Counting(t)
  BY DEF Init, Control, Counting
<1>3. NoneSlipsThrough
  BY DEF Init, NoneSlipsThrough
<1> QED BY <1>1, <1>2, <1>3 DEF GateInv, Init

-----------------------------------------------------------------------------
\* Every step keeps the types.
LEMMA TypeStep == TypeOK /\ [Next]_vars => TypeOK'
<1> SUFFICES ASSUME TypeOK, [Next]_vars PROVE TypeOK'
  OBVIOUS
<1> USE DEF TypeOK, exitVars, slotVars, threadVars, Goto
<1>1. CASE UNCHANGED vars
  BY <1>1 DEF vars
<1>2. CASE CloseGate
  BY <1>2 DEF CloseGate
<1>3. CASE DeadlinePasses
  BY <1>3 DEF DeadlinePasses
<1>4. CASE Detach
  BY <1>4 DEF Detach
<1>5. CASE Drained
  BY <1>5 DEF Drained
<1>6. CASE Sweep
  BY <1>6 DEF Sweep
<1>7. CASE Release
  BY <1>7 DEF Release
<1>8. CASE TearDown
  BY <1>8 DEF TearDown
<1>9. CASE \E w \in Watchers : StopWatch(w)
  BY <1>9 DEF StopWatch
<1>10. ASSUME NEW t \in Threads, Reload(t) \/ Work(t) \/ Wedge(t) PROVE TypeOK'
  <2>1. t \in Trees /\ AfterHook(t) \in Steps /\ AfterCommit(t) \in Steps
    BY DEF Trees, Steps, AfterHook, AfterCommit
  <2>2. Pass(t) \in Passes
    BY DEF Pass, Passes
  <2>3. CASE Reload(t)
    BY <2>1, <2>3 DEF Reload, Steps
  <2>4. CASE Wedge(t)
    BY <2>4 DEF Wedge, Steps
  <2>5. CASE Gate(t)
    <3>1. CASE Knock(t)
      BY <2>2, <3>1 DEF Knock, Passes, Steps
    <3>2. CASE Admitted(t) \/ Attach(t)
      BY <3>2 DEF Admitted, Attach, Steps
    <3>3. CASE BackOut(t)
      BY <2>1, <3>3 DEF BackOut, Steps
    <3>4. CASE Leave(t)
      BY <2>1, <3>4 DEF Leave, Steps
    <3> QED BY <2>5, <3>1, <3>2, <3>3, <3>4 DEF Gate
  <2>6. CASE Validate(t)
    BY <2>6 DEF Validate, Steps
  <2>7. CASE Install(t)
    BY <2>7 DEF Install, Steps
  <2>8. CASE ReturnToCaller(t)
    BY <2>8 DEF ReturnToCaller, Steps
  <2>9. CASE CommitAlready(t) \/ CommitClaim(t) \/ CommitMismatch(t)
    <3>1. CASE CommitAlready(t)
      BY <2>1, <3>1 DEF CommitAlready
    <3>2. CASE CommitClaim(t)
      <4>1. staged.seq \in Nat
        BY <3>2 DEF CommitClaim, StagedFor
      <4> QED BY <3>2, <4>1 DEF CommitClaim, Steps
    <3>3. CASE CommitMismatch(t)
      BY <3>3 DEF CommitMismatch, Steps
    <3> QED BY <2>9, <3>1, <3>2, <3>3
  <2>10. CASE Take(t) \/ Write(t) \/ RunHooks(t)
    <3>1. CASE Take(t)
      BY <2>1, <3>1 DEF Take, Steps
    <3>2. CASE Write(t)
      BY <3>2 DEF Write, Steps
    <3>3. CASE RunHooks(t)
      BY <2>1, <3>3 DEF RunHooks
    <3> QED BY <2>10, <3>1, <3>2, <3>3
  <2> QED BY <1>10, <2>3, <2>4, <2>5, <2>6, <2>7, <2>8, <2>9, <2>10 DEF Work, Commit
<1> QED BY <1>1, <1>2, <1>3, <1>4, <1>5, <1>6, <1>7, <1>8, <1>9, <1>10
        DEF Next, Leaving

\* A step of one thread leaves the others where they were, and their passes
\* counted.
LEMMA OwnStep ==
    ASSUME TypeOK, NEW t \in Threads, Reload(t) \/ Work(t) \/ Wedge(t)
    PROVE  /\ UNCHANGED exitVars
           /\ \A u \in Threads \ {t} :
                  /\ pc'[u] = pc[u] /\ path'[u] = path[u] /\ again'[u] = again[u]
                  /\ \A n \in {1, 2} : <<u, n>> \in in_python' <=> <<u, n>> \in in_python
<1> USE DEF TypeOK, Goto, exitVars, slotVars, threadVars, Pass
<1>1. CASE Reload(t) \/ Wedge(t)
  BY <1>1 DEF Reload, Wedge
<1>2. CASE Knock(t)
  BY <1>2 DEF Knock
<1>3. CASE Admitted(t) \/ Attach(t)
  BY <1>3 DEF Admitted, Attach
<1>4. CASE BackOut(t) \/ Leave(t)
  BY <1>4 DEF BackOut, Leave
<1>5. CASE Validate(t) \/ Install(t) \/ ReturnToCaller(t)
  BY <1>5 DEF Validate, Install, ReturnToCaller
<1>6. CASE Commit(t)
  BY <1>6 DEF Commit, CommitAlready, CommitClaim, CommitMismatch, Take, Write, RunHooks
<1> QED BY <1>1, <1>2, <1>3, <1>4, <1>5, <1>6 DEF Work, Gate

\* A thread's own step: where it goes, and what stays counted.
LEMMA SelfStep ==
    ASSUME TypeOK, NEW t \in Threads, Control(t), Counting(t),
           Reload(t) \/ Work(t) \/ Wedge(t)
    PROVE  /\ Control(t)' /\ Counting(t)'
           /\ finalizing => (Inside(t)' => Inside(t))
<1> USE DEF TypeOK, Goto, exitVars, slotVars, threadVars, Control, Counting, Pass, Inside
<1>1. CASE Reload(t)
  BY <1>1 DEF Reload
<1>2. CASE Wedge(t)
  BY <1>2 DEF Wedge
<1>3. CASE Knock(t)
  BY <1>3 DEF Knock
<1>4. CASE Admitted(t)
  BY <1>4 DEF Admitted
<1>5. CASE BackOut(t)
  BY <1>5 DEF BackOut, AfterHook
<1>6. CASE Attach(t)
  BY <1>6 DEF Attach
<1>7. CASE Leave(t)
  BY <1>7 DEF Leave, AfterHook
<1>8. CASE Validate(t)
  BY <1>8 DEF Validate
<1>9. CASE Install(t)
  BY <1>9 DEF Install
<1>10. CASE ReturnToCaller(t)
  BY <1>10 DEF ReturnToCaller
<1>11. CASE CommitAlready(t) \/ RunHooks(t)
  BY <1>11 DEF CommitAlready, RunHooks, AfterCommit
<1>12. CASE CommitClaim(t) \/ Write(t)
  BY <1>12 DEF CommitClaim, Write
<1>13. CASE CommitMismatch(t)
  BY <1>13 DEF CommitMismatch
<1>14. CASE Take(t)
  BY <1>14 DEF Take, AfterCommit
<1> QED BY <1>1, <1>2, <1>3, <1>4, <1>5, <1>6, <1>7, <1>8, <1>9, <1>10, <1>11, <1>12,
           <1>13, <1>14 DEF Work, Gate, Commit

\* Whoever is inside is counted.
LEMMA InsideIsCounted ==
    ASSUME NEW t \in Threads, Control(t), Counting(t), Inside(t)
    PROVE  in_python # {}
BY DEF Control, Counting, Inside, Pass

LEMMA GateStep == GateInv /\ [Next]_vars => GateInv'
<1> SUFFICES ASSUME GateInv, [Next]_vars PROVE GateInv'
  OBVIOUS
<1> USE DEF GateInv
<1>1. TypeOK'
  BY TypeStep
<1>2. ASSUME NEW t \in Threads, Reload(t) \/ Work(t) \/ Wedge(t)
      PROVE  GateInv'
  <2>1. UNCHANGED exitVars
    BY <1>2, OwnStep
  <2>2. Control(t)' /\ Counting(t)' /\ (finalizing => (Inside(t)' => Inside(t)))
    BY <1>2, SelfStep
  <2>3. ASSUME NEW u \in Threads \ {t}
        PROVE  Control(u)' /\ Counting(u)' /\ (Inside(u)' => Inside(u))
    <3>1. /\ pc'[u] = pc[u] /\ path'[u] = path[u] /\ again'[u] = again[u]
          /\ \A n \in {1, 2} : <<u, n>> \in in_python' <=> <<u, n>> \in in_python
      BY <1>2, OwnStep
    <3> QED BY <3>1 DEF Control, Counting, Inside, Pass
  <2>4. NoneSlipsThrough'
    BY <2>1, <2>2, <2>3 DEF NoneSlipsThrough, exitVars
  <2> QED BY <1>1, <2>1, <2>2, <2>3, <2>4 DEF exitVars
<1>3. CASE UNCHANGED <<pc, path, again, in_python>>
           /\ (finalizing' <=> exit' # "running")
           /\ (exit' \in {"drained", "sweeping", "released", "down"} /\ ~late' =>
                 \/ exit \in {"drained", "sweeping", "released"} /\ ~late
                 \/ exit = exit' /\ late = late'
                 \/ in_python = {})
  <2>1. \A t \in Threads : Control(t)' /\ Counting(t)' /\ (Inside(t)' <=> Inside(t))
    BY <1>3 DEF Control, Counting, Inside, Pass
  <2>2. NoneSlipsThrough'
    BY <1>3, <2>1, InsideIsCounted DEF NoneSlipsThrough
  <2> QED BY <1>1, <1>3, <2>1, <2>2
<1>4. CASE CloseGate \/ Leaving \/ DeadlinePasses \/ UNCHANGED vars
  BY <1>3, <1>4
     DEF CloseGate, Leaving, DeadlinePasses, Detach, Drained, Sweep, Release, TearDown,
         StopWatch, vars, exitVars, threadVars, TypeOK
<1> QED BY <1>2, <1>4 DEF Next

THEOREM GateInvariant == Spec => []GateInv
BY GateInit, GateStep, PTL DEF Spec

\* The shutdown's state is typed.
THEOREM ShutdownTypes == Spec => []TypeOK
BY GateInvariant, PTL DEF GateInv

\* Once the wait for the passes has ended by itself, no thread that the gate
\* let in is inside Python, and none will be, with a GIL or without.
THEOREM NoneSlipsThroughThm == Spec => []NoneSlipsThrough
BY GateInvariant, PTL DEF GateInv

-----------------------------------------------------------------------------
\* After the release nothing is staged, and nobody is about to write.
Empty ==
    exit \in {"released", "down"} /\ ~late =>
        ~cached /\ staged = None /\ \A t \in Threads : ~Holding(t)

LEMMA EmptyStep ==
    ASSUME HasGIL PROVE GateInv /\ Empty /\ [Next]_vars => Empty'
<1> SUFFICES ASSUME GateInv, Empty, [Next]_vars PROVE Empty'
  OBVIOUS
<1> USE DEF Empty
<1>1. ASSUME NEW t \in Threads, Reload(t) \/ Work(t) \/ Wedge(t)
      PROVE  Empty'
  <2> SUFFICES ASSUME exit \in {"released", "down"}, ~late PROVE Empty'
    BY <1>1, OwnStep DEF GateInv, exitVars
  <2>1. ~cached /\ staged = None /\ finalizing /\ \A u \in Threads : ~Holding(u)
    BY DEF GateInv
  <2>2. ~Inside(t) /\ Control(t) /\ TypeOK
    BY DEF GateInv, NoneSlipsThrough
  <2>3. ~cached' /\ staged' = None /\ ~Holding(t)'
    <3> USE <2>1, <2>2 DEF TypeOK, Goto, slotVars, threadVars, Control, Inside, Holding
    <3>1. CASE Reload(t) \/ Wedge(t)
      BY <3>1 DEF Reload, Wedge
    <3>2. CASE Gate(t)
      BY <3>2 DEF Gate, Knock, Admitted, BackOut, Attach, Leave, AfterHook
    <3>3. CASE Validate(t) \/ Install(t) \/ ReturnToCaller(t)
      BY <3>3 DEF Validate, Install, ReturnToCaller
    <3>4. CASE CommitAlready(t) \/ CommitClaim(t) \/ CommitMismatch(t)
      BY <3>4 DEF CommitAlready, CommitClaim, CommitMismatch, StagedFor
    <3>5. CASE Take(t) \/ Write(t) \/ RunHooks(t)
      BY <3>5 DEF Take, Write, RunHooks, AfterCommit
    <3> QED BY <1>1, <3>1, <3>2, <3>3, <3>4, <3>5 DEF Work, Commit
  <2>4. \A u \in Threads \ {t} : ~Holding(u)'
    BY <1>1, <2>1, OwnStep DEF GateInv, Holding
  <2> QED BY <2>3, <2>4
<1>2. CASE Release
  BY <1>2, HasGIL DEF Release, MainAttached, Holding, threadVars
<1>3. CASE CloseGate \/ DeadlinePasses \/ Detach \/ Drained \/ Sweep
  BY <1>3 DEF CloseGate, DeadlinePasses, Detach, Drained, Sweep
<1>4. CASE TearDown \/ UNCHANGED vars \/ \E w \in Watchers : StopWatch(w)
  BY <1>4 DEF TearDown, StopWatch, vars, exitVars, slotVars, threadVars, Holding
<1> QED BY <1>1, <1>2, <1>3, <1>4 DEF Next, Leaving

\* Under a GIL a released configuration stays empty, although publish_current
\* does not pass the gate.
THEOREM ReleasedStaysEmptyThm == ASSUME HasGIL PROVE Spec => []ReleasedStaysEmpty
<1>1. Init => Empty
  BY DEF Init, Empty
<1>2. Empty => ReleasedStaysEmpty
  BY DEF Empty, ReleasedStaysEmpty
<1>3. GateInv /\ Empty /\ [Next]_vars => Empty'
  BY HasGIL, EmptyStep
<1> QED BY <1>1, <1>2, <1>3, GateInvariant, PTL DEF Spec

=============================================================================
