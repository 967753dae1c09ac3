----------------------------- MODULE GroupProofs -----------------------------
(***************************************************************************)
(* Proofs about Group: that reload_atomic is all or nothing, that no       *)
(* watcher is lost, and that what a load reports is true, for any number   *)
(* of members and callers.                                                 *)
(***************************************************************************)
EXTENDS Group, FiniteSetTheorems, TLAPS

USE GroupAssumption

\* The steps of reload_atomic, and the others.
AtomicStages == {"prepare", "commit", "discard"}
Stages == AtomicStages \cup {"returned", "each", "watch", "inside", "stop", "pop", "halt"}

\* The part of the type invariant reload_atomic depends on.
AtomicTypes ==
    /\ source \in [Members -> Docs \cup {Broken}]
    /\ held \in [Callers -> [Members -> Docs \cup {Nothing}]]
    /\ landed \in [Callers -> [Members -> Docs \cup {Nothing}]]
    /\ broke \in [Callers -> BOOLEAN]
    /\ stage \in [Callers -> Stages]
    /\ lo \in [Callers -> 1..N + 1]
    /\ hi \in [Callers -> 0..N]

\* While a call prepares, the engine holds a commit of the members up to hi;
\* while it commits or discards, of those from lo to hi.  While it commits, what
\* was installed is what is below lo; nothing is before the first commit.
Ledger(c) ==
    /\ stage[c] = "prepare" => lo[c] = 1 /\ hi[c] < N
    /\ stage[c] = "commit" => hi[c] = N
    /\ stage[c] # "discard" => ~broke[c]
    /\ broke[c] => hi[c] = N
    /\ \A m \in Members :
        /\ held[c][m] # Nothing <=> stage[c] \in AtomicStages /\ m \in lo[c]..hi[c]
        /\ stage[c] = "commit" /\ m < lo[c] => landed[c][m] # Nothing
        /\ landed[c][m] # Nothing =>
               \/ stage[c] = "commit" /\ m < lo[c]
               \/ stage[c] = "discard" /\ broke[c]

LedgerInv == AtomicTypes /\ \A c \in Callers : Ledger(c)

LEMMA InitLedger == Init => LedgerInv
  BY DEF Init, LedgerInv, AtomicTypes, Ledger, None, Members, AtomicStages, Stages

\* The steps of _each and of the watchers leave reload_atomic's state alone, but
\* for the stage, which does not become one of its own.
LEMMA OtherSteps ==
    ASSUME LedgerInv, NEW c \in Callers, UNCHANGED <<source, held, landed, broke, lo, hi>>,
           NEW s \in Stages \ AtomicStages,
           stage[c] \notin AtomicStages,
           stage' = stage \/ stage' = [stage EXCEPT ![c] = s]
    PROVE  LedgerInv'
<1>1. AtomicTypes'
  BY DEF LedgerInv, AtomicTypes
<1>2. ASSUME NEW k \in Callers PROVE Ledger(k)'
  <2>1. CASE stage' = stage
    BY <2>1 DEF LedgerInv, Ledger
  <2>2. CASE stage' = [stage EXCEPT ![c] = s] /\ k # c
    <3>1. stage'[k] = stage[k]
      BY <2>2 DEF LedgerInv, AtomicTypes
    <3>2. QED
      BY <3>1 DEF LedgerInv, Ledger
  <2>3. CASE stage' = [stage EXCEPT ![c] = s] /\ k = c
    <3>1. stage'[c] = s /\ s \notin AtomicStages
      BY <2>3 DEF LedgerInv, AtomicTypes
    <3>2. QED
      BY <2>3, <3>1 DEF LedgerInv, Ledger, AtomicStages
  <2>4. QED
    BY <2>1, <2>2, <2>3
<1>3. QED
  BY <1>1, <1>2 DEF LedgerInv

LEMMA EditLedger ==
    ASSUME LedgerInv, NEW m \in Members, NEW d \in Docs \cup {Broken}, Edit(m, d)
    PROVE  LedgerInv'
  BY DEF LedgerInv, Edit, atomicVars, AtomicTypes, Ledger

LEMMA BeginLedger ==
    ASSUME LedgerInv, NEW c \in Callers, NEW o \in Ops, Begin(c, o)
    PROVE  LedgerInv'
<1>1. /\ FirstStage(o) \in {"each", "prepare", "watch", "stop"}
      /\ stage[c] = "returned"
      /\ stage' = [stage EXCEPT ![c] = FirstStage(o)]
      /\ lo' = [lo EXCEPT ![c] = 1] /\ hi' = [hi EXCEPT ![c] = 0]
      /\ UNCHANGED <<source, held, landed, broke>>
  BY DEF Begin, FirstStage, Goto, At, configVars, Loads
<1>2. AtomicTypes'
  BY <1>1 DEF LedgerInv, AtomicTypes, Stages, AtomicStages
<1>3. ASSUME NEW k \in Callers PROVE Ledger(k)'
  <2>1. CASE k = c
    BY <1>1, <2>1 DEF LedgerInv, AtomicTypes, Ledger, AtomicStages
  <2>2. CASE k # c
    BY <1>1, <2>2 DEF LedgerInv, AtomicTypes, Ledger
  <2>3. QED
    BY <2>1, <2>2
<1>4. QED
  BY <1>2, <1>3 DEF LedgerInv

LEMMA PrepareNextLedger ==
    ASSUME LedgerInv, NEW c \in Callers, PrepareNext(c)
    PROVE  LedgerInv'
<1> DEFINE m == hi[c] + 1
<1>1. /\ stage[c] = "prepare" /\ m \in Members /\ lo[c] = 1
      /\ source[m] \in Docs /\ source[m] # Nothing
  BY DEF PrepareNext, At, LedgerInv, AtomicTypes, Ledger, Members
<1>2. /\ held' = [held EXCEPT ![c] = [held[c] EXCEPT ![m] = source[m]]]
      /\ hi' = [hi EXCEPT ![c] = m]
      /\ stage' = [stage EXCEPT ![c] = IF m = N THEN "commit" ELSE "prepare"]
      /\ UNCHANGED <<source, lo, landed, broke>>
  BY DEF PrepareNext, Goto, AtomicStep
<1>3. AtomicTypes'
  BY <1>1, <1>2 DEF LedgerInv, AtomicTypes, Stages, AtomicStages, Members
<1>4. Ledger(c)'
  <2>1. /\ stage'[c] \in {"prepare", "commit"} /\ hi'[c] = m /\ lo'[c] = 1
        /\ stage'[c] = "commit" <=> m = N
        /\ landed'[c] = landed[c] /\ broke'[c] = broke[c]
    BY <1>1, <1>2 DEF LedgerInv, AtomicTypes, Stages
  <2>2. \A k \in Members : held'[c][k] = IF k = m THEN source[m] ELSE held[c][k]
    BY <1>1, <1>2 DEF LedgerInv, AtomicTypes
  <2>3. hi[c] \in 0..N
    BY DEF LedgerInv, AtomicTypes
  <2>4. \A k \in Members : k \in 1..m <=> k = m \/ k \in 1..hi[c]
    BY <2>3 DEF Members
  <2>5. /\ ~broke[c] /\ \A k \in Members : landed[c][k] = Nothing
        /\ \A k \in Members : held[c][k] # Nothing <=> k \in 1..hi[c]
    BY <1>1 DEF LedgerInv, Ledger, AtomicStages, Members
  <2>6. \A k \in Members : held'[c][k] # Nothing <=> k \in 1..m
    BY <1>1, <2>2, <2>4, <2>5
  <2>7. stage'[c] \in AtomicStages /\ (stage'[c] = "prepare" => m < N)
    BY <1>1, <2>1 DEF AtomicStages, Members
  <2>8. \A k \in Members : ~(k < 1)
    BY DEF Members
  <2>9. QED
    BY <2>1, <2>5, <2>6, <2>7, <2>8 DEF Ledger
<1>5. ASSUME NEW k \in Callers, k # c PROVE Ledger(k)'
  BY <1>2, <1>5 DEF LedgerInv, AtomicTypes, Ledger
<1>6. QED
  BY <1>3, <1>4, <1>5 DEF LedgerInv

LEMMA PrepareRefusedLedger ==
    ASSUME LedgerInv, NEW c \in Callers, PrepareRefused(c)
    PROVE  LedgerInv'
<1>1. /\ stage[c] = "prepare"
      /\ stage' = [stage EXCEPT ![c] = "discard"]
      /\ UNCHANGED <<source, held, landed, broke, lo, hi>>
  BY DEF PrepareRefused, At, Goto, AtomicStep, atomicVars
<1>2. AtomicTypes'
  BY <1>1 DEF LedgerInv, AtomicTypes, Stages, AtomicStages
<1>3. ASSUME NEW k \in Callers PROVE Ledger(k)'
  <2>1. CASE k = c
    BY <1>1, <2>1 DEF LedgerInv, AtomicTypes, Ledger, AtomicStages
  <2>2. CASE k # c
    BY <1>1, <2>2 DEF LedgerInv, AtomicTypes, Ledger
  <2>3. QED
    BY <2>1, <2>2
<1>4. QED
  BY <1>2, <1>3 DEF LedgerInv

LEMMA DiscardLedger ==
    ASSUME LedgerInv, NEW c \in Callers, Discard(c)
    PROVE  LedgerInv'
<1> DEFINE m == lo[c]
<1>1. stage[c] = "discard" /\ m \in Members /\ m <= hi[c]
  BY DEF Discard, At, LedgerInv, AtomicTypes, Members
<1>2. /\ held' = [held EXCEPT ![c] = [held[c] EXCEPT ![m] = Nothing]]
      /\ lo' = [lo EXCEPT ![c] = m + 1]
      /\ UNCHANGED <<source, hi, stage, landed, broke>>
  BY DEF Discard, AtomicStep
<1>3. AtomicTypes'
  BY <1>1, <1>2 DEF LedgerInv, AtomicTypes, Members
<1>4. Ledger(c)'
  <2>1. /\ lo'[c] = m + 1 /\ hi'[c] = hi[c] /\ stage'[c] = "discard"
        /\ landed'[c] = landed[c] /\ broke'[c] = broke[c]
    BY <1>1, <1>2 DEF LedgerInv, AtomicTypes
  <2>2. \A k \in Members : held'[c][k] = IF k = m THEN Nothing ELSE held[c][k]
    BY <1>1, <1>2 DEF LedgerInv, AtomicTypes
  <2>3. hi[c] \in 0..N /\ lo[c] \in 1..N + 1
    BY DEF LedgerInv, AtomicTypes
  <2>4. QED
    BY <1>1, <2>1, <2>2, <2>3 DEF LedgerInv, Ledger, Members, AtomicStages
<1>5. ASSUME NEW k \in Callers, k # c PROVE Ledger(k)'
  BY <1>2, <1>5 DEF LedgerInv, AtomicTypes, Ledger
<1>6. QED
  BY <1>3, <1>4, <1>5 DEF LedgerInv

LEMMA CommitLedger ==
    ASSUME LedgerInv, NEW c \in Callers, NEW breaks \in BOOLEAN, Commit(c, breaks)
    PROVE  LedgerInv'
<1> DEFINE m == lo[c]
<1>1. /\ stage[c] = "commit" /\ m \in Members /\ hi[c] = N /\ ~broke[c]
      /\ held[c][m] \in Docs /\ held[c][m] # Nothing
  BY DEF Commit, At, LedgerInv, AtomicTypes, Ledger, Members, AtomicStages
<1>2. /\ held' = [held EXCEPT ![c] = [held[c] EXCEPT ![m] = Nothing]]
      /\ landed' = [landed EXCEPT ![c] = [landed[c] EXCEPT ![m] = held[c][m]]]
      /\ lo' = [lo EXCEPT ![c] = m + 1]
      /\ broke' = [broke EXCEPT ![c] = breaks]
      /\ stage' = [stage EXCEPT ![c] = IF breaks THEN "discard" ELSE "commit"]
      /\ UNCHANGED <<source, hi>>
  BY DEF Commit, Goto, AtomicStep
<1>3. AtomicTypes'
  BY <1>1, <1>2 DEF LedgerInv, AtomicTypes, Members, Stages, AtomicStages
<1>4. Ledger(c)'
  <2>1. /\ lo'[c] = m + 1 /\ hi'[c] = N /\ broke'[c] = breaks
        /\ stage'[c] = IF breaks THEN "discard" ELSE "commit"
    BY <1>1, <1>2 DEF LedgerInv, AtomicTypes
  <2>2. \A k \in Members : /\ held'[c][k] = IF k = m THEN Nothing ELSE held[c][k]
                           /\ landed'[c][k] = IF k = m THEN held[c][m] ELSE landed[c][k]
    BY <1>1, <1>2 DEF LedgerInv, AtomicTypes
  <2>3. QED
    BY <1>1, <2>1, <2>2 DEF LedgerInv, Ledger, Members, AtomicStages
<1>5. ASSUME NEW k \in Callers, k # c PROVE Ledger(k)'
  BY <1>2, <1>5 DEF LedgerInv, AtomicTypes, Ledger
<1>6. QED
  BY <1>3, <1>4, <1>5 DEF LedgerInv

LEMMA ReturnLedger ==
    ASSUME LedgerInv, NEW c \in Callers, AtomicReturns(c)
    PROVE  LedgerInv'
<1>1. /\ stage[c] \in {"commit", "discard"} /\ lo[c] > hi[c]
      /\ stage' = [stage EXCEPT ![c] = "returned"]
      /\ landed' = [landed EXCEPT ![c] = None]
      /\ broke' = [broke EXCEPT ![c] = FALSE]
      /\ UNCHANGED <<source, held, lo, hi>>
  BY DEF AtomicReturns, At, Goto, AtomicStep
<1>2. AtomicTypes'
  BY <1>1 DEF LedgerInv, AtomicTypes, None, Stages, AtomicStages
<1>3. ASSUME NEW k \in Callers PROVE Ledger(k)'
  <2>1. CASE k = c
    <3>1. \A m \in Members : m \notin lo[c]..hi[c]
      BY <1>1 DEF LedgerInv, AtomicTypes, Members
    <3>2. QED
      BY <1>1, <2>1, <3>1 DEF LedgerInv, AtomicTypes, Ledger, AtomicStages, None
  <2>2. CASE k # c
    BY <1>1, <2>2 DEF LedgerInv, AtomicTypes, Ledger
  <2>3. QED
    BY <2>1, <2>2
<1>4. QED
  BY <1>2, <1>3 DEF LedgerInv

\* Every other step of a call is one of those OtherSteps speaks of.
OtherStep(c) ==
    \/ Take(c) \/ TaskStarts(c) \/ EachReturns(c) \/ TaskFailsAtOnce(c)
    \/ \E m \in Members :
        Loaded(c, m) \/ TaskRefused(c, m) \/ Refused(c, m) \/ Record(c, m)
    \/ StartWatch(c) \/ KeepWatch(c) \/ AllWatched(c) \/ WatchFails(c) \/ LeaveBlock(c)
    \/ LookForWatch(c) \/ PopWatch(c) \/ PopRaises(c) \/ HaltWatch(c)

LEMMA OtherFrame ==
    ASSUME LedgerInv, NEW c \in Callers, OtherStep(c)
    PROVE  /\ UNCHANGED <<source, held, landed, broke, lo, hi>>
           /\ stage[c] \notin AtomicStages
           /\ \/ stage' = stage
              \/ \E s \in Stages \ AtomicStages : stage' = [stage EXCEPT ![c] = s]
<1>1. ASSUME Take(c) \/ TaskStarts(c) \/ TaskFailsAtOnce(c) PROVE
        UNCHANGED <<source, stage, held, landed, broke, lo, hi>> /\ stage[c] = "each"
  BY <1>1 DEF Take, TaskStarts, TaskFailsAtOnce, Loading, At, atomicVars
<1>2. ASSUME NEW m \in Members,
             Loaded(c, m) \/ TaskRefused(c, m) \/ Refused(c, m) \/ Record(c, m) PROVE
        UNCHANGED <<source, stage, held, landed, broke, lo, hi>> /\ stage[c] = "each"
  BY <1>2 DEF Loaded, TaskRefused, Refused, Record, Loading, At, atomicVars
<1>3. CASE EachReturns(c)
  BY <1>3 DEF EachReturns, At, Goto, atomicVars, configVars, Stages, AtomicStages
<1>4. ASSUME StartWatch(c) \/ KeepWatch(c) \/ AllWatched(c) \/ WatchFails(c) PROVE
        /\ UNCHANGED <<source, held, landed, broke, lo, hi>> /\ stage[c] = "watch"
        /\ \/ stage' = stage
           \/ \E s \in {"inside", "returned"} : stage' = [stage EXCEPT ![c] = s]
  BY <1>4 DEF StartWatch, KeepWatch, AllWatched, WatchFails, WatchStep, At, Goto,
              atomicVars, configVars
<1>5. ASSUME LeaveBlock(c) \/ LookForWatch(c) \/ PopWatch(c) \/ PopRaises(c) \/ HaltWatch(c)
      PROVE /\ UNCHANGED <<source, held, landed, broke, lo, hi>>
            /\ stage[c] \in {"inside", "stop", "pop", "halt"}
            /\ \E s \in {"stop", "pop", "halt", "returned"} :
                    stage' = [stage EXCEPT ![c] = s]
  BY <1>5 DEF LeaveBlock, LookForWatch, PopWatch, PopRaises, HaltWatch, WatchStep, At, Goto,
              atomicVars, configVars
<1>6. QED
  BY <1>1, <1>2, <1>3, <1>4, <1>5 DEF OtherStep, Stages, AtomicStages

LEMMA OtherLedger ==
    ASSUME LedgerInv, NEW c \in Callers, OtherStep(c)
    PROVE  LedgerInv'
<1>1. UNCHANGED <<source, held, landed, broke, lo, hi>> /\ stage[c] \notin AtomicStages
  BY OtherFrame
<1>2. CASE stage' = stage
  <2>1. "each" \in Stages \ AtomicStages
    BY DEF Stages, AtomicStages
  <2>2. QED
    BY <1>1, <1>2, <2>1, OtherSteps
<1>3. CASE \E s \in Stages \ AtomicStages : stage' = [stage EXCEPT ![c] = s]
  <2>1. PICK s \in Stages \ AtomicStages : stage' = [stage EXCEPT ![c] = s]
    BY <1>3
  <2>2. QED
    BY <1>1, <2>1, OtherSteps
<1>4. QED
  BY <1>2, <1>3, OtherFrame

LEMMA WatcherLedger ==
    ASSUME LedgerInv, NEW m \in Members, WatcherReloads(m)
    PROVE  LedgerInv'
  BY DEF LedgerInv, WatcherReloads, atomicVars, AtomicTypes, Ledger

LEMMA NextCases ==
    ASSUME [Next]_vars
    PROVE  \/ UNCHANGED vars
           \/ \E m \in Members : WatcherReloads(m) \/ \E d \in Docs \cup {Broken} : Edit(m, d)
           \/ \E c \in Callers :
                \/ \E o \in Ops : Begin(c, o)
                \/ PrepareNext(c) \/ PrepareRefused(c) \/ Discard(c) \/ AtomicReturns(c)
                \/ \E breaks \in BOOLEAN : Commit(c, breaks)
                \/ OtherStep(c)
  BY DEF Next, Proceed, OtherStep

LEMMA NextLedger == LedgerInv /\ [Next]_vars => LedgerInv'
<1> SUFFICES ASSUME LedgerInv, [Next]_vars PROVE LedgerInv'
  OBVIOUS
<1>1. CASE UNCHANGED vars
  BY <1>1 DEF vars, configVars, atomicVars, LedgerInv, AtomicTypes, Ledger
<1>2. QED
  BY <1>1, NextCases, WatcherLedger, EditLedger, BeginLedger, PrepareNextLedger,
     PrepareRefusedLedger, DiscardLedger, ReturnLedger, CommitLedger, OtherLedger

\* What the engine holds for a call and what the call has installed agree with
\* where the call is (reload_atomic), for any members, callers and edits.
THEOREM LedgerInvariant == Spec => []LedgerInv
  BY InitLedger, NextLedger, PTL DEF Spec

-----------------------------------------------------------------------------
(* The refinement.                                                         *)

Active == {c \in Callers : stage[c] \in {"prepare", "commit", "discard"}}
abstractVars == <<Active, held, landed, broke>>

LEMMA ActiveKept ==
    ASSUME LedgerInv, NEW c \in Callers, NEW s \in Stages, stage' = [stage EXCEPT ![c] = s],
           stage[c] \in AtomicStages <=> s \in AtomicStages
    PROVE  Active' = Active
<1>1. \A k \in Callers : stage'[k] = IF k = c THEN s ELSE stage[k]
  BY DEF LedgerInv, AtomicTypes
<1>2. QED
  BY <1>1 DEF Active, AtomicStages

LEMMA InitRefines == Init => Atomic!Init
  BY DEF Init, Atomic!Init, Atomic!Empty, None

LEMMA BeginRefines ==
    ASSUME LedgerInv, NEW c \in Callers, NEW o \in Ops, Begin(c, o)
    PROVE  Atomic!Begin(c) \/ UNCHANGED abstractVars
<1>1. /\ stage[c] = "returned"
      /\ stage' = [stage EXCEPT ![c] = FirstStage(o)]
      /\ UNCHANGED <<held, landed, broke>>
  BY DEF Begin, At, Goto
<1>2. FirstStage(o) \in {"each", "prepare", "watch", "stop"}
  BY DEF FirstStage
<1>3. CASE FirstStage(o) = "prepare"
  <2>1. \A k \in Callers : stage'[k] = IF k = c THEN "prepare" ELSE stage[k]
    BY <1>1, <1>3 DEF LedgerInv, AtomicTypes
  <2>2. Active' = Active \cup {c} /\ c \notin Active
    BY <1>1, <2>1 DEF Active
  <2>3. QED
    BY <1>1, <2>2 DEF Atomic!Begin, Active
<1>4. CASE FirstStage(o) # "prepare"
  BY <1>1, <1>2, <1>4, ActiveKept DEF Stages, AtomicStages, abstractVars
<1>5. QED
  BY <1>3, <1>4

LEMMA PrepareRefines ==
    ASSUME LedgerInv, NEW c \in Callers, PrepareNext(c)
    PROVE  \E m \in Members, d \in Docs : Atomic!Prepare(c, m, d)
<1> DEFINE m == hi[c] + 1
<1>1. /\ stage[c] = "prepare" /\ m \in Members /\ lo[c] = 1
      /\ source[m] \in Docs
  BY DEF PrepareNext, At, LedgerInv, AtomicTypes, Ledger, Members
<1>2. /\ held' = [held EXCEPT ![c][m] = source[m]]
      /\ stage' = [stage EXCEPT ![c] = IF m = N THEN "commit" ELSE "prepare"]
      /\ UNCHANGED <<landed, broke>>
  BY DEF PrepareNext, Goto, AtomicStep
<1>3. held[c][m] = Nothing /\ \A k \in Members : landed[c][k] = Nothing
  BY <1>1 DEF LedgerInv, AtomicTypes, Ledger, Members, AtomicStages
<1>4. Active' = Active /\ c \in Active
  BY <1>1, <1>2, ActiveKept DEF Active, Stages, AtomicStages
<1>5. Atomic!Prepare(c, m, source[m])
  BY <1>2, <1>3, <1>4 DEF Atomic!Prepare, Atomic!None, Active
<1>6. QED
  BY <1>1, <1>5

LEMMA RefusedRefines ==
    ASSUME LedgerInv, NEW c \in Callers, PrepareRefused(c)
    PROVE  UNCHANGED abstractVars
<1>1. /\ stage[c] = "prepare" /\ stage' = [stage EXCEPT ![c] = "discard"]
      /\ UNCHANGED <<held, landed, broke>>
  BY DEF PrepareRefused, At, Goto, atomicVars
<1>2. QED
  BY <1>1, ActiveKept DEF abstractVars, Stages, AtomicStages

LEMMA DiscardRefines ==
    ASSUME LedgerInv, NEW c \in Callers, Discard(c)
    PROVE  \E m \in Members : Atomic!Drop(c, m)
<1>1. /\ stage[c] = "discard" /\ lo[c] \in Members
      /\ held' = [held EXCEPT ![c][lo[c]] = Nothing]
      /\ UNCHANGED <<stage, landed, broke>>
  BY DEF Discard, At, AtomicStep, LedgerInv, AtomicTypes, Members
<1>2. broke[c] \/ \A k \in Members : landed[c][k] = Nothing
  BY <1>1 DEF LedgerInv, Ledger
<1>3. Atomic!Drop(c, lo[c])
  BY <1>1, <1>2 DEF Atomic!Drop, Atomic!None, Active
<1>4. QED
  BY <1>1, <1>3

LEMMA CommitRefines ==
    ASSUME LedgerInv, NEW c \in Callers, NEW breaks \in BOOLEAN, Commit(c, breaks)
    PROVE  \E m \in Members : Atomic!Apply(c, m, breaks)
<1> DEFINE m == lo[c]
<1>1. /\ stage[c] = "commit" /\ m \in Members /\ hi[c] = N /\ ~broke[c]
  BY DEF Commit, At, LedgerInv, AtomicTypes, Ledger, Members
<1>2. /\ held' = [held EXCEPT ![c][m] = Nothing]
      /\ landed' = [landed EXCEPT ![c][m] = held[c][m]]
      /\ broke' = [broke EXCEPT ![c] = breaks]
      /\ stage' = [stage EXCEPT ![c] = IF breaks THEN "discard" ELSE "commit"]
  BY DEF Commit, Goto
<1>3. held[c][m] # Nothing /\ Atomic!Complete(c)
  <2>1. lo[c] \in 1..N + 1 /\ \A k \in Members : k < m \/ k \in lo[c]..hi[c]
    BY <1>1 DEF LedgerInv, AtomicTypes, Members
  <2>2. \A k \in Members : /\ k \in lo[c]..hi[c] => held[c][k] # Nothing
                           /\ k < m => landed[c][k] # Nothing
    BY <1>1 DEF LedgerInv, Ledger, AtomicStages
  <2>3. m \in lo[c]..hi[c]
    BY <1>1, <2>1 DEF Members
  <2>4. QED
    BY <1>1, <2>1, <2>2, <2>3 DEF Atomic!Complete
<1>4. Active' = Active
  BY <1>1, <1>2, ActiveKept DEF Stages, AtomicStages
<1>5. Atomic!Apply(c, m, breaks)
  BY <1>1, <1>2, <1>3, <1>4 DEF Atomic!Apply, Active
<1>6. QED
  BY <1>1, <1>5

LEMMA ReturnRefines ==
    ASSUME LedgerInv, NEW c \in Callers, AtomicReturns(c)
    PROVE  Atomic!Return(c)
<1>1. /\ stage[c] \in {"commit", "discard"} /\ lo[c] > hi[c]
      /\ stage' = [stage EXCEPT ![c] = "returned"]
      /\ landed' = [landed EXCEPT ![c] = None]
      /\ broke' = [broke EXCEPT ![c] = FALSE]
      /\ UNCHANGED held
  BY DEF AtomicReturns, At, Goto
<1>2. \A m \in Members : held[c][m] = Nothing
  BY <1>1 DEF LedgerInv, AtomicTypes, Ledger, Members
<1>3. \/ broke[c] \/ \A m \in Members : landed[c][m] = Nothing
      \/ \A m \in Members : landed[c][m] # Nothing
  BY <1>1 DEF LedgerInv, AtomicTypes, Ledger, Members
<1>4. \A k \in Callers : stage'[k] = IF k = c THEN "returned" ELSE stage[k]
  BY <1>1 DEF LedgerInv, AtomicTypes
<1>5. c \in Active /\ Active' = Active \ {c}
  BY <1>1, <1>4 DEF Active
<1>6. QED
  BY <1>1, <1>2, <1>3, <1>5 DEF Atomic!Return, Atomic!None, Atomic!Empty, None, Active

LEMMA OtherRefines ==
    ASSUME LedgerInv, NEW c \in Callers, OtherStep(c)
    PROVE  UNCHANGED abstractVars
<1>1. UNCHANGED <<held, landed, broke>> /\ stage[c] \notin AtomicStages
  BY OtherFrame
<1>2. Active' = Active
  <2>1. CASE stage' = stage
    BY <2>1 DEF Active
  <2>2. CASE \E s \in Stages \ AtomicStages : stage' = [stage EXCEPT ![c] = s]
    BY <1>1, <2>2, ActiveKept
  <2>3. QED
    BY <2>1, <2>2, OtherFrame
<1>3. QED
  BY <1>1, <1>2 DEF abstractVars

LEMMA StepRefines == LedgerInv /\ [Next]_vars => [Atomic!Next]_abstractVars
<1> SUFFICES ASSUME LedgerInv, [Next]_vars PROVE Atomic!Next \/ UNCHANGED abstractVars
  OBVIOUS
<1>1. CASE UNCHANGED vars
  BY <1>1 DEF vars, atomicVars, abstractVars, Active
<1>2. CASE \E m \in Members : WatcherReloads(m) \/ \E d \in Docs \cup {Broken} : Edit(m, d)
  BY <1>2 DEF WatcherReloads, Edit, atomicVars, abstractVars, Active
<1>3. ASSUME NEW c \in Callers, NEW o \in Ops, Begin(c, o)
      PROVE  Atomic!Next \/ UNCHANGED abstractVars
  BY <1>3, BeginRefines DEF Atomic!Next
<1>4. ASSUME NEW c \in Callers, PrepareNext(c) PROVE Atomic!Next
  BY <1>4, PrepareRefines DEF Atomic!Next
<1>5. ASSUME NEW c \in Callers, Discard(c) PROVE Atomic!Next
  BY <1>5, DiscardRefines DEF Atomic!Next
<1>6. ASSUME NEW c \in Callers, NEW breaks \in BOOLEAN, Commit(c, breaks) PROVE Atomic!Next
  BY <1>6, CommitRefines DEF Atomic!Next
<1>7. ASSUME NEW c \in Callers, AtomicReturns(c) PROVE Atomic!Next
  BY <1>7, ReturnRefines DEF Atomic!Next
<1>8. QED
  BY <1>1, <1>2, <1>3, <1>4, <1>5, <1>6, <1>7, RefusedRefines, OtherRefines, NextCases

\* reload_atomic implements the all-or-nothing reload, with any number of
\* members, of callers, of edits and of watchers that reload meanwhile.
THEOREM Refinement == Spec => AllOrNothing
<1>1. LedgerInv /\ [Next]_vars => [Atomic!Next]_abstractVars
  BY StepRefines
<1>2. QED
  BY InitRefines, <1>1, LedgerInvariant, PTL
     DEF Spec, AllOrNothing, Atomic!Spec, abstractVars, Active

-----------------------------------------------------------------------------
(* The watchers.                                                           *)

LoadStates == [todo : Seq(Members), busy : SUBSET Members, refused : SUBSET Members,
               waiting : Seq(Members), failed : Seq(Members), loaded : SUBSET Members]

WatchTypes ==
    /\ load \in [Callers -> LoadStates]
    /\ watches \in Seq(Members)
    /\ alive \in [Members -> Int]
    /\ hand \in [Callers -> 0..N]

InList(m) == {i \in DOMAIN watches : watches[i] = m}
InHand(m) == {c \in Callers : hand[c] = m}

\* A call has a watcher in its hands while it starts one or stops one.
Handling(c) ==
    /\ hand[c] # 0 => stage[c] \in {"watch", "halt"}
    /\ stage[c] = "halt" => hand[c] # 0

ReachInv ==
    /\ WatchTypes
    /\ \A c \in Callers : Handling(c)
    /\ \A m \in Members :
        /\ IsFiniteSet(InHand(m))
        /\ alive[m] = Cardinality(InList(m)) + Cardinality(InHand(m))

LEMMA ListIsFinite ==
    ASSUME WatchTypes, NEW m \in Members
    PROVE  IsFiniteSet(InList(m))
<1>1. Len(watches) \in Nat /\ DOMAIN watches = 1..Len(watches)
  BY DEF WatchTypes
<1>2. IsFiniteSet(1..Len(watches))
  BY <1>1, FS_Interval
<1>3. InList(m) \in SUBSET (1..Len(watches))
  BY <1>1 DEF InList
<1>4. QED
  BY <1>2, <1>3, FS_Subset

\* Taking a watcher in hand, and letting it go.
LEMMA HandFills ==
    ASSUME ReachInv, NEW c \in Callers, NEW w \in Members, hand[c] = 0,
           hand' = [hand EXCEPT ![c] = w], NEW m \in Members
    PROVE  /\ IsFiniteSet(InHand(m)')
           /\ Cardinality(InHand(m)') = Cardinality(InHand(m)) + IF m = w THEN 1 ELSE 0
<1>1. \A k \in Callers : hand'[k] = IF k = c THEN w ELSE hand[k]
  BY DEF ReachInv, WatchTypes
<1>2. IsFiniteSet(InHand(m)) /\ c \notin InHand(m)
  BY DEF ReachInv, InHand, Members
<1>3. CASE m = w
  <2>1. InHand(m)' = InHand(m) \cup {c}
    BY <1>1, <1>3 DEF InHand
  <2>2. QED
    BY <1>2, <1>3, <2>1, FS_AddElement, SMTT(30)
<1>4. CASE m # w
  <2>1. InHand(m)' = InHand(m)
    BY <1>1, <1>2, <1>4 DEF InHand
  <2>2. Cardinality(InHand(m)) \in Nat
    BY <1>2, FS_CardinalityType
  <2>3. QED
    BY <1>2, <1>4, <2>1, <2>2
<1>5. QED
  BY <1>3, <1>4

LEMMA HandEmpties ==
    ASSUME ReachInv, NEW c \in Callers, hand[c] # 0,
           hand' = [hand EXCEPT ![c] = 0], NEW m \in Members
    PROVE  /\ IsFiniteSet(InHand(m)')
           /\ Cardinality(InHand(m)') = Cardinality(InHand(m)) - IF m = hand[c] THEN 1 ELSE 0
<1>1. \A k \in Callers : hand'[k] = IF k = c THEN 0 ELSE hand[k]
  BY DEF ReachInv, WatchTypes
<1>2. IsFiniteSet(InHand(m)) /\ m # 0
  BY DEF ReachInv, Members
<1>3. CASE m = hand[c]
  <2>1. InHand(m)' = InHand(m) \ {c} /\ c \in InHand(m)
    BY <1>1, <1>2, <1>3 DEF InHand
  <2>2. QED
    BY <1>2, <1>3, <2>1, FS_RemoveElement
<1>4. CASE m # hand[c]
  <2>1. InHand(m)' = InHand(m)
    BY <1>1, <1>2, <1>4 DEF InHand
  <2>2. Cardinality(InHand(m)) \in Nat
    BY <1>2, FS_CardinalityType
  <2>3. QED
    BY <1>2, <1>4, <2>1, <2>2
<1>5. QED
  BY <1>3, <1>4

\* A watcher that joins the list, and one that leaves it.
LEMMA ListGrows ==
    ASSUME WatchTypes, NEW w \in Members, watches' = Append(watches, w), NEW m \in Members
    PROVE  Cardinality(InList(m)') = Cardinality(InList(m)) + IF m = w THEN 1 ELSE 0
<1> DEFINE n == Len(watches) + 1
<1>1. /\ DOMAIN watches = 1..Len(watches) /\ Len(watches) \in Nat
      /\ DOMAIN watches' = 1..n
      /\ watches'[n] = w /\ \A i \in 1..Len(watches) : watches'[i] = watches[i]
  BY DEF WatchTypes
<1>2. IsFiniteSet(InList(m)) /\ n \notin InList(m)
  BY <1>1, ListIsFinite DEF InList
<1>3. CASE m = w
  <2>1. InList(m)' = InList(m) \cup {n}
    BY <1>1, <1>3 DEF InList
  <2>2. QED
    BY <1>2, <1>3, <2>1, FS_AddElement
<1>4. CASE m # w
  <2>1. InList(m)' = InList(m)
    BY <1>1, <1>4 DEF InList
  <2>2. Cardinality(InList(m)) \in Nat
    BY <1>2, FS_CardinalityType
  <2>3. QED
    BY <1>4, <2>1, <2>2
<1>5. QED
  BY <1>3, <1>4

LEMMA ListShrinks ==
    ASSUME WatchTypes, watches # <<>>, watches' = Front(watches), NEW m \in Members
    PROVE  Cardinality(InList(m)') =
               Cardinality(InList(m)) - IF m = Last(watches) THEN 1 ELSE 0
<1> DEFINE n == Len(watches)
<1>1. /\ DOMAIN watches = 1..n /\ n \in Nat \ {0}
      /\ DOMAIN watches' = 1..n - 1
      /\ Last(watches) = watches[n]
      /\ \A i \in 1..n - 1 : watches'[i] = watches[i]
  BY DEF WatchTypes, Front, Last
<1>2. IsFiniteSet(InList(m))
  BY ListIsFinite
<1>3. InList(m)' = InList(m) \ {n}
  BY <1>1 DEF InList
<1>4. n \in InList(m) <=> m = Last(watches)
  BY <1>1 DEF InList
<1>5. Cardinality(InList(m)) \in Nat
  BY <1>2, FS_CardinalityType
<1>6. Cardinality(InList(m) \ {n}) =
          IF n \in InList(m) THEN Cardinality(InList(m)) - 1 ELSE Cardinality(InList(m))
  BY <1>2, FS_RemoveElement
<1>7. QED
  BY <1>3, <1>4, <1>5, <1>6

LEMMA InitReach == Init => ReachInv
<1> SUFFICES ASSUME Init PROVE ReachInv
  OBVIOUS
<1>1. WatchTypes
  BY DEF Init, WatchTypes, LoadStates, NoLoad
<1>2. \A c \in Callers : Handling(c)
  BY DEF Init, Handling
<1>3. \A m \in Members : InList(m) = {} /\ InHand(m) = {} /\ alive[m] = 0
  BY DEF Init, InList, InHand, Members
<1>4. QED
  BY <1>1, <1>2, <1>3, FS_EmptySet DEF ReachInv

\* A step that moves no watcher.
LEMMA WatchersStay ==
    ASSUME ReachInv, UNCHANGED watchVars, load' \in [Callers -> LoadStates],
           NEW c \in Callers, NEW s,
           stage' = stage \/ stage' = [stage EXCEPT ![c] = s],
           hand[c] = 0, s # "halt",
           \A k \in Callers : stage[k] \in Stages, stage \in [Callers -> Stages]
    PROVE  ReachInv'
<1>1. WatchTypes'
  BY DEF ReachInv, WatchTypes, watchVars
<1>2. ASSUME NEW k \in Callers PROVE Handling(k)'
  BY DEF ReachInv, Handling, watchVars
<1>3. \A m \in Members : UNCHANGED <<InList(m), InHand(m), alive[m]>>
  BY DEF InList, InHand, watchVars
<1>4. QED
  BY <1>1, <1>2, <1>3 DEF ReachInv

LEMMA HandIsFree ==
    ASSUME ReachInv, NEW c \in Callers, stage[c] \notin {"watch", "halt"}
    PROVE  hand[c] = 0
  BY DEF ReachInv, Handling

LEMMA LoadingKeeps ==
    ASSUME ReachInv, LedgerInv, NEW c \in Callers, NEW l \in LoadStates, Loading(c, l)
    PROVE  ReachInv'
<1>1. /\ stage[c] = "each" /\ stage' = stage /\ UNCHANGED watchVars
      /\ load' = [load EXCEPT ![c] = l]
  BY DEF Loading, At, Work
<1>2. load' \in [Callers -> LoadStates] /\ hand[c] = 0
  BY <1>1, HandIsFree DEF ReachInv, WatchTypes
<1>3. QED
  BY <1>1, <1>2, WatchersStay DEF LedgerInv, AtomicTypes

LEMMA ReleaseTypes ==
    ASSUME NEW l \in LoadStates, NEW m \in Members
    PROVE  Release(l, m) \in LoadStates
<1>1. l.waiting # <<>> => Head(l.waiting) \in Members /\ Tail(l.waiting) \in Seq(Members)
  BY DEF LoadStates
<1>2. QED
  BY <1>1 DEF LoadStates, Release

LEMMA EachReach ==
    ASSUME ReachInv, LedgerInv, NEW c \in Callers,
           \/ Take(c) \/ TaskStarts(c) \/ TaskFailsAtOnce(c)
           \/ \E m \in Members :
                Loaded(c, m) \/ TaskRefused(c, m) \/ Refused(c, m) \/ Record(c, m)
    PROVE  ReachInv'
<1> DEFINE l == load[c]
<1>1. l \in LoadStates
  BY DEF ReachInv, WatchTypes
<1>2. l.todo # <<>> => Head(l.todo) \in Members /\ Tail(l.todo) \in Seq(Members)
  BY <1>1 DEF LoadStates
<1>3. CASE Take(c)
  <2>1. [l EXCEPT !.todo = Tail(l.todo), !.busy = @ \cup {Head(l.todo)}] \in LoadStates
    BY <1>1, <1>2, <1>3 DEF LoadStates, Take
  <2>2. QED
    BY <1>3, <2>1, LoadingKeeps DEF Take
<1>4. CASE TaskStarts(c)
  <2>0. Append(l.waiting, Head(l.todo)) \in Seq(Members)
    BY <1>1, <1>2, <1>4 DEF LoadStates, TaskStarts
  <2>1. /\ [l EXCEPT !.todo = Tail(l.todo)] \in LoadStates
        /\ [l EXCEPT !.todo = Tail(l.todo), !.busy = @ \cup {Head(l.todo)}] \in LoadStates
        /\ [l EXCEPT !.todo = Tail(l.todo),
                     !.waiting = Append(@, Head(l.todo))] \in LoadStates
    BY <1>1, <1>2, <1>4, <2>0 DEF LoadStates, TaskStarts
  <2>2. QED
    BY <1>4, <2>1, LoadingKeeps DEF TaskStarts
<1>5. CASE TaskFailsAtOnce(c)
  <2>0. Append(l.failed, Head(l.todo)) \in Seq(Members)
    BY <1>1, <1>2, <1>5 DEF LoadStates, TaskFailsAtOnce
  <2>1. [l EXCEPT !.todo = Tail(l.todo),
                  !.failed = Append(@, Head(l.todo))] \in LoadStates
    BY <1>1, <1>2, <1>5, <2>0 DEF LoadStates, TaskFailsAtOnce
  <2>2. QED
    BY <1>5, <2>1, LoadingKeeps DEF TaskFailsAtOnce
<1>6. ASSUME NEW m \in Members,
             Loaded(c, m) \/ TaskRefused(c, m) \/ Refused(c, m) \/ Record(c, m)
      PROVE  ReachInv'
  <2>1. Release(l, m) \in LoadStates
    BY <1>1, ReleaseTypes
  <2>0. \A k \in LoadStates : Append(k.failed, m) \in Seq(Members)
    BY DEF LoadStates
  <2>2. /\ [Release(l, m) EXCEPT !.loaded = @ \cup {m}] \in LoadStates
        /\ [Release(l, m) EXCEPT !.failed = Append(@, m)] \in LoadStates
    BY <2>1, <2>0 DEF LoadStates
  <2>3. /\ [l EXCEPT !.busy = @ \ {m}, !.refused = @ \cup {m}] \in LoadStates
        /\ [l EXCEPT !.refused = @ \ {m}, !.failed = Append(@, m)] \in LoadStates
    BY <1>1, <2>0 DEF LoadStates
  <2>4. QED
    BY <1>6, <2>2, <2>3, LoadingKeeps DEF Loaded, TaskRefused, Refused, Record
<1>7. QED
  BY <1>3, <1>4, <1>5, <1>6

LEMMA BeginReach ==
    ASSUME ReachInv, LedgerInv, NEW c \in Callers, NEW o \in Ops, Begin(c, o)
    PROVE  ReachInv'
<1>1. /\ stage[c] = "returned" /\ stage' = [stage EXCEPT ![c] = FirstStage(o)]
      /\ FirstStage(o) # "halt" /\ UNCHANGED watchVars
      /\ load' = [load EXCEPT ![c] = [NoLoad EXCEPT !.todo = InOrder]]
  BY DEF Begin, At, Goto, Work, FirstStage
<1>2. InOrder \in Seq(Members)
  BY DEF InOrder, Members
<1>3. [NoLoad EXCEPT !.todo = InOrder] \in LoadStates
  <2>1. NoLoad \in LoadStates
    BY DEF NoLoad, LoadStates
  <2>2. QED
    BY <1>2, <2>1 DEF LoadStates
<1>4. load' \in [Callers -> LoadStates] /\ hand[c] = 0
  BY <1>1, <1>3, HandIsFree DEF ReachInv, WatchTypes
<1>5. QED
  BY <1>1, <1>4, WatchersStay DEF LedgerInv, AtomicTypes

LEMMA EachReturnsReach ==
    ASSUME ReachInv, LedgerInv, NEW c \in Callers, EachReturns(c)
    PROVE  ReachInv'
<1>1. /\ stage[c] = "each" /\ UNCHANGED watchVars
      /\ \E s \in {"watch", "returned"} : stage' = [stage EXCEPT ![c] = s]
      /\ \E q \in {InOrder, <<>>} : load' = [load EXCEPT ![c] = [load[c] EXCEPT !.todo = q]]
  BY DEF EachReturns, At, Goto, Work
<1>2. {InOrder, <<>>} \subseteq Seq(Members)
  BY DEF InOrder, Members
<1>3. \A l \in LoadStates, q \in Seq(Members) : [l EXCEPT !.todo = q] \in LoadStates
  BY DEF LoadStates
<1>4. load' \in [Callers -> LoadStates]
  <2>1. PICK q \in Seq(Members) : load' = [load EXCEPT ![c] = [load[c] EXCEPT !.todo = q]]
    BY <1>1, <1>2
  <2>2. [load[c] EXCEPT !.todo = q] \in LoadStates
    BY <1>3 DEF ReachInv, WatchTypes
  <2>3. QED
    BY <2>1, <2>2 DEF ReachInv, WatchTypes
<1>5. hand[c] = 0
  BY <1>1, HandIsFree
<1>6. QED
  BY <1>1, <1>4, <1>5, WatchersStay DEF LedgerInv, AtomicTypes

LEMMA AtomicReach ==
    ASSUME ReachInv, LedgerInv, NEW c \in Callers,
           \/ PrepareNext(c) \/ PrepareRefused(c) \/ Discard(c) \/ AtomicReturns(c)
           \/ \E breaks \in BOOLEAN : Commit(c, breaks)
    PROVE  ReachInv'
<1>1. /\ stage[c] \in AtomicStages /\ UNCHANGED <<watchVars, load>>
      /\ \/ stage' = stage
         \/ \E s \in AtomicStages \cup {"returned"} : stage' = [stage EXCEPT ![c] = s]
  BY DEF PrepareNext, PrepareRefused, Discard, AtomicReturns, Commit, AtomicStep, At, Goto,
         AtomicStages
<1>2. load' \in [Callers -> LoadStates] /\ hand[c] = 0
  BY <1>1, HandIsFree DEF ReachInv, WatchTypes, AtomicStages
<1>3. QED
  BY <1>1, <1>2, WatchersStay DEF LedgerInv, AtomicTypes, AtomicStages

\* The steps of watch and stop that move no watcher.
LEMMA QuietWatchReach ==
    ASSUME ReachInv, LedgerInv, NEW c \in Callers,
           WatchFails(c) \/ AllWatched(c) \/ LeaveBlock(c) \/ LookForWatch(c) \/ PopRaises(c)
    PROVE  ReachInv'
<1>1. /\ hand[c] = 0 /\ UNCHANGED <<watchVars, load>>
      /\ \E s \in {"returned", "inside", "stop", "pop"} : stage' = [stage EXCEPT ![c] = s]
  BY HandIsFree DEF WatchFails, AllWatched, LeaveBlock, LookForWatch, PopRaises, WatchStep,
                    At, Goto
<1>2. load' \in [Callers -> LoadStates]
  BY <1>1 DEF ReachInv, WatchTypes
<1>3. QED
  BY <1>1, <1>2, WatchersStay DEF LedgerInv, AtomicTypes

LEMMA StartWatchReach ==
    ASSUME ReachInv, LedgerInv, NEW c \in Callers, StartWatch(c)
    PROVE  ReachInv'
<1> DEFINE w == Head(load[c].todo)
<1>1. load[c] \in LoadStates /\ load[c].todo # <<>>
  BY DEF ReachInv, WatchTypes, StartWatch
<1>2. w \in Members /\ Tail(load[c].todo) \in Seq(Members)
  BY <1>1 DEF LoadStates
<1>3. /\ stage[c] = "watch" /\ hand[c] = 0
      /\ alive' = [alive EXCEPT ![w] = @ + 1]
      /\ hand' = [hand EXCEPT ![c] = w]
      /\ load' = [load EXCEPT ![c] = [load[c] EXCEPT !.todo = Tail(load[c].todo)]]
      /\ UNCHANGED <<stage, watches>>
  BY DEF StartWatch, At, Work
<1>4. [load[c] EXCEPT !.todo = Tail(load[c].todo)] \in LoadStates
  BY <1>1, <1>2 DEF LoadStates
<1>5. WatchTypes'
  BY <1>2, <1>3, <1>4 DEF ReachInv, WatchTypes, Members
<1>6. \A k \in Callers : Handling(k)'
  BY <1>3 DEF ReachInv, WatchTypes, Handling
<1>7. ASSUME NEW m \in Members
      PROVE  /\ IsFiniteSet(InHand(m)')
             /\ alive'[m] = Cardinality(InList(m)') + Cardinality(InHand(m)')
  <2>1. InList(m)' = InList(m)
    BY <1>3 DEF InList
  <2>2. /\ IsFiniteSet(InHand(m)')
        /\ Cardinality(InHand(m)') = Cardinality(InHand(m)) + IF m = w THEN 1 ELSE 0
    BY <1>2, <1>3, HandFills
  <2>3. Cardinality(InList(m)) \in Nat /\ Cardinality(InHand(m)) \in Nat
    BY ListIsFinite, FS_CardinalityType DEF ReachInv
  <2>4. /\ alive[m] = Cardinality(InList(m)) + Cardinality(InHand(m))
        /\ alive'[m] = alive[m] + IF m = w THEN 1 ELSE 0
    BY <1>3 DEF ReachInv, WatchTypes
  <2>5. QED
    BY <2>1, <2>2, <2>3, <2>4
<1>8. QED
  BY <1>5, <1>6, <1>7 DEF ReachInv

LEMMA KeepWatchReach ==
    ASSUME ReachInv, LedgerInv, NEW c \in Callers, KeepWatch(c)
    PROVE  ReachInv'
<1> DEFINE w == hand[c]
<1>1. /\ stage[c] = "watch" /\ w # 0
      /\ watches' = Append(watches, w)
      /\ hand' = [hand EXCEPT ![c] = 0]
      /\ UNCHANGED <<stage, load, alive>>
  BY DEF KeepWatch, At
<1>2. w \in Members
  BY <1>1 DEF ReachInv, WatchTypes, Members
<1>3. WatchTypes'
  BY <1>1, <1>2 DEF ReachInv, WatchTypes
<1>4. \A k \in Callers : Handling(k)'
  BY <1>1 DEF ReachInv, WatchTypes, Handling
<1>5. ASSUME NEW m \in Members
      PROVE  /\ IsFiniteSet(InHand(m)')
             /\ alive'[m] = Cardinality(InList(m)') + Cardinality(InHand(m)')
  <2>1. Cardinality(InList(m)') = Cardinality(InList(m)) + IF m = w THEN 1 ELSE 0
    BY <1>1, <1>2, ListGrows DEF ReachInv
  <2>2. /\ IsFiniteSet(InHand(m)')
        /\ Cardinality(InHand(m)') = Cardinality(InHand(m)) - IF m = w THEN 1 ELSE 0
    BY <1>1, HandEmpties
  <2>3. Cardinality(InList(m)) \in Nat /\ Cardinality(InHand(m)) \in Nat
    BY ListIsFinite, FS_CardinalityType DEF ReachInv
  <2>4. alive'[m] = Cardinality(InList(m)) + Cardinality(InHand(m))
    BY <1>1 DEF ReachInv
  <2>5. QED
    BY <2>1, <2>2, <2>3, <2>4
<1>6. QED
  BY <1>3, <1>4, <1>5 DEF ReachInv

LEMMA PopWatchReach ==
    ASSUME ReachInv, LedgerInv, NEW c \in Callers, PopWatch(c)
    PROVE  ReachInv'
<1> DEFINE w == Last(watches)
<1>1. /\ stage[c] = "pop" /\ hand[c] = 0 /\ watches # <<>>
      /\ watches' = Front(watches)
      /\ hand' = [hand EXCEPT ![c] = w]
      /\ stage' = [stage EXCEPT ![c] = "halt"]
      /\ UNCHANGED <<load, alive>>
  BY HandIsFree DEF PopWatch, At, Goto, WatchStep
<1>2. w \in Members /\ Front(watches) \in Seq(Members)
  BY <1>1 DEF ReachInv, WatchTypes, Last, Front
<1>3. WatchTypes'
  BY <1>1, <1>2 DEF ReachInv, WatchTypes, Members
<1>4. \A k \in Callers : Handling(k)'
  BY <1>1, <1>2 DEF ReachInv, WatchTypes, Handling, LedgerInv, AtomicTypes, Members
<1>5. ASSUME NEW m \in Members
      PROVE  /\ IsFiniteSet(InHand(m)')
             /\ alive'[m] = Cardinality(InList(m)') + Cardinality(InHand(m)')
  <2>1. Cardinality(InList(m)') = Cardinality(InList(m)) - IF m = w THEN 1 ELSE 0
    BY <1>1, ListShrinks DEF ReachInv
  <2>2. /\ IsFiniteSet(InHand(m)')
        /\ Cardinality(InHand(m)') = Cardinality(InHand(m)) + IF m = w THEN 1 ELSE 0
    BY <1>1, <1>2, HandFills
  <2>3. Cardinality(InList(m)) \in Nat /\ Cardinality(InHand(m)) \in Nat
    BY ListIsFinite, FS_CardinalityType DEF ReachInv
  <2>4. alive'[m] = Cardinality(InList(m)) + Cardinality(InHand(m))
    BY <1>1 DEF ReachInv
  <2>5. QED
    BY <2>1, <2>2, <2>3, <2>4
<1>6. QED
  BY <1>3, <1>4, <1>5 DEF ReachInv

LEMMA HaltWatchReach ==
    ASSUME ReachInv, LedgerInv, NEW c \in Callers, HaltWatch(c)
    PROVE  ReachInv'
<1> DEFINE w == hand[c]
<1>1. /\ stage[c] = "halt" /\ w # 0
      /\ alive' = [alive EXCEPT ![w] = @ - 1]
      /\ hand' = [hand EXCEPT ![c] = 0]
      /\ stage' = [stage EXCEPT ![c] = "stop"]
      /\ UNCHANGED <<load, watches>>
  BY DEF HaltWatch, At, Goto, WatchStep, ReachInv, Handling
<1>2. WatchTypes'
  BY <1>1 DEF ReachInv, WatchTypes, Members
<1>3. \A k \in Callers : Handling(k)'
  BY <1>1 DEF ReachInv, WatchTypes, Handling, LedgerInv, AtomicTypes
<1>4. ASSUME NEW m \in Members
      PROVE  /\ IsFiniteSet(InHand(m)')
             /\ alive'[m] = Cardinality(InList(m)') + Cardinality(InHand(m)')
  <2>1. InList(m)' = InList(m)
    BY <1>1 DEF InList
  <2>2. /\ IsFiniteSet(InHand(m)')
        /\ Cardinality(InHand(m)') = Cardinality(InHand(m)) - IF m = w THEN 1 ELSE 0
    BY <1>1, HandEmpties
  <2>3. Cardinality(InList(m)) \in Nat /\ Cardinality(InHand(m)) \in Nat
    BY ListIsFinite, FS_CardinalityType DEF ReachInv
  <2>4. /\ alive[m] = Cardinality(InList(m)) + Cardinality(InHand(m))
        /\ alive'[m] = alive[m] - IF m = w THEN 1 ELSE 0
    BY <1>1 DEF ReachInv, WatchTypes
  <2>5. QED
    BY <2>1, <2>2, <2>3, <2>4
<1>5. QED
  BY <1>2, <1>3, <1>4 DEF ReachInv

LEMMA OtherReach ==
    ASSUME ReachInv, LedgerInv, NEW c \in Callers, OtherStep(c)
    PROVE  ReachInv'
  BY EachReach, EachReturnsReach, QuietWatchReach, StartWatchReach, KeepWatchReach,
     PopWatchReach, HaltWatchReach DEF OtherStep

\* What leaves the stages, the work and the watchers of the calls alone.
LEMMA ReachStutters ==
    ASSUME ReachInv, UNCHANGED <<stage, load, watchVars>>
    PROVE  ReachInv'
  BY DEF ReachInv, WatchTypes, Handling, InList, InHand, watchVars

LEMMA NextReach == ReachInv /\ LedgerInv /\ [Next]_vars => ReachInv'
<1> SUFFICES ASSUME ReachInv, LedgerInv, [Next]_vars PROVE ReachInv'
  OBVIOUS
<1>1. CASE UNCHANGED vars
  BY <1>1, ReachStutters DEF vars
<1>2. CASE \E m \in Members : WatcherReloads(m) \/ \E d \in Docs \cup {Broken} : Edit(m, d)
  <2>1. UNCHANGED <<stage, load, watchVars>>
    BY <1>2 DEF WatcherReloads, Edit
  <2>2. QED
    BY <2>1, ReachStutters
<1>3. QED
  BY <1>1, <1>2, NextCases, BeginReach, AtomicReach, OtherReach

\* Every running watcher is in the list of the group or in the hands of the call
\* that starts or stops it, whatever calls overlap (watch, watching and stop).
THEOREM WatchersReachableThm == Spec => []WatchersReachable
<1>1. ReachInv => WatchersReachable
  BY DEF ReachInv, WatchersReachable, InList, InHand
<1>2. QED
  BY InitReach, NextReach, LedgerInvariant, <1>1, PTL DEF Spec

-----------------------------------------------------------------------------
(* What a call reports.                                                    *)

\* The members of a load are queued, at work, or done with.
Once(s) == \A i, j \in DOMAIN s : s[i] = s[j] => i = j
Queued(l) == ToSet(l.todo) \cup ToSet(l.waiting)
AtWork(l) == l.busy \cup l.refused
Settled(l) == ToSet(l.failed) \cup l.loaded
Placed(l) == Queued(l) \cup AtWork(l) \cup Settled(l)

\* No member is in two places.
Apart(l) ==
    /\ Once(l.todo) /\ Once(l.waiting)
    /\ ToSet(l.todo) \cap ToSet(l.waiting) = {}
    /\ Queued(l) \cap AtWork(l) = {}
    /\ Queued(l) \cap Settled(l) = {}
    /\ AtWork(l) \cap Settled(l) = {}
    /\ l.busy \cap l.refused = {}
    /\ ToSet(l.failed) \cap l.loaded = {}

Report(c) ==
    /\ raised[c] = 0 => load[c].loaded = Members
    /\ raised[c] # 0 => raised[c] \in ToSet(load[c].failed) \ load[c].loaded
    /\ op[c] \notin Stops => Members \subseteq Settled(load[c])

\* A load has a place for every member until it gives up.
Account(c) ==
    /\ stage[c] = "each" =>
           /\ op[c] \in Loads
           /\ Apart(load[c])
           /\ Stopping(c) \/ Members \subseteq Placed(load[c])
    /\ stage[c] \in AtomicStages => op[c] = "reload_atomic"
    /\ stage[c] \in {"watch", "inside", "stop", "pop", "halt"} => op[c] \notin Loads \ Blocks
    /\ stage[c] = "returned" /\ op[c] \in Loads \ Blocks => Report(c)

ReportInv ==
    /\ op \in [Callers -> Ops \cup {"none"}]
    /\ raised \in [Callers -> Int]
    /\ \A c \in Callers : Account(c)

LEMMA TailSplits ==
    ASSUME NEW s \in Seq(Members), s # <<>>, Once(s)
    PROVE  /\ Once(Tail(s)) /\ Head(s) \notin ToSet(Tail(s))
           /\ ToSet(s) = ToSet(Tail(s)) \cup {Head(s)}
<1> DEFINE n == Len(s)
<1>1. /\ n \in Nat \ {0} /\ DOMAIN s = 1..n /\ Head(s) = s[1]
      /\ DOMAIN Tail(s) = 1..n - 1 /\ \A i \in 1..n - 1 : Tail(s)[i] = s[i + 1]
  OBVIOUS
<1>2. Once(Tail(s)) /\ Head(s) \notin ToSet(Tail(s))
  BY <1>1 DEF Once, ToSet
<1>3. ASSUME NEW x \in ToSet(s), x # Head(s) PROVE x \in ToSet(Tail(s))
  <2>1. PICK i \in 1..n : x = s[i] /\ i # 1
    BY <1>1, <1>3 DEF ToSet
  <2>2. i - 1 \in 1..n - 1 /\ Tail(s)[i - 1] = x
    BY <1>1, <2>1
  <2>3. QED
    BY <1>1, <2>2 DEF ToSet
<1>4. ToSet(Tail(s)) \cup {Head(s)} \subseteq ToSet(s)
  BY <1>1 DEF ToSet
<1>5. QED
  BY <1>2, <1>3, <1>4

LEMMA AppendJoins ==
    ASSUME NEW s \in Seq(Members), NEW m \in Members
    PROVE  /\ ToSet(Append(s, m)) = ToSet(s) \cup {m}
           /\ Once(s) /\ m \notin ToSet(s) => Once(Append(s, m))
<1> DEFINE t == Append(s, m)  n == Len(s)
<1>1. /\ n \in Nat /\ DOMAIN s = 1..n /\ DOMAIN t = 1..n + 1
      /\ t[n + 1] = m /\ \A i \in 1..n : t[i] = s[i]
  OBVIOUS
<1> HIDE DEF t, n
<1>2. ToSet(t) = ToSet(s) \cup {m}
  BY <1>1 DEF ToSet
<1>3. Once(s) /\ m \notin ToSet(s) => Once(t)
  BY <1>1 DEF Once, ToSet
<1>4. QED
  BY <1>2, <1>3 DEF t

LEMMA InOrderIsAll == /\ InOrder \in Seq(Members) /\ Once(InOrder)
                      /\ ToSet(InOrder) = Members /\ ToSet(<<>>) = {}
  BY DEF InOrder, Members, Once, ToSet

\* The first of the list leaves it, to work, to wait, to have failed, or unserved.
LEMMA FirstLeaves ==
    ASSUME NEW l \in LoadStates, Apart(l), l.todo # <<>>,
           NEW k \in {[l EXCEPT !.todo = Tail(l.todo), !.busy = @ \cup {Head(l.todo)}],
                      [l EXCEPT !.todo = Tail(l.todo),
                                !.waiting = Append(@, Head(l.todo))],
                      [l EXCEPT !.todo = Tail(l.todo),
                                !.failed = Append(@, Head(l.todo))]}
    PROVE  Apart(k) /\ Placed(k) = Placed(l)
<1> DEFINE m == Head(l.todo)
<1>1. /\ l.todo \in Seq(Members) /\ l.waiting \in Seq(Members) /\ l.failed \in Seq(Members)
      /\ m \in Members
  BY DEF LoadStates
<1>2. /\ Once(Tail(l.todo)) /\ m \notin ToSet(Tail(l.todo))
      /\ ToSet(l.todo) = ToSet(Tail(l.todo)) \cup {m}
  BY <1>1, TailSplits DEF Apart
<1>3. /\ ToSet(Append(l.waiting, m)) = ToSet(l.waiting) \cup {m}
      /\ ToSet(Append(l.failed, m)) = ToSet(l.failed) \cup {m}
      /\ Once(Append(l.waiting, m))
  BY <1>1, <1>2, AppendJoins DEF Apart
<1>4. CASE k = [l EXCEPT !.todo = Tail(l.todo), !.busy = @ \cup {m}]
  <2>1. /\ k.todo = Tail(l.todo) /\ k.busy = l.busy \cup {m}
        /\ k.waiting = l.waiting /\ k.refused = l.refused
        /\ k.failed = l.failed /\ k.loaded = l.loaded
    BY <1>4 DEF LoadStates
  <2>2. QED
    BY <1>2, <2>1 DEF Apart, Queued, AtWork, Settled, Placed
<1>5. CASE k = [l EXCEPT !.todo = Tail(l.todo), !.waiting = Append(@, m)]
  <2>1. /\ k.todo = Tail(l.todo) /\ k.busy = l.busy
        /\ k.waiting = Append(l.waiting, m) /\ k.refused = l.refused
        /\ k.failed = l.failed /\ k.loaded = l.loaded
    BY <1>5 DEF LoadStates
  <2>2. QED
    BY <1>2, <1>3, <2>1 DEF Apart, Queued, AtWork, Settled, Placed
<1>6. CASE k = [l EXCEPT !.todo = Tail(l.todo), !.failed = Append(@, m)]
  <2>1. /\ k.todo = Tail(l.todo) /\ k.busy = l.busy
        /\ k.waiting = l.waiting /\ k.refused = l.refused
        /\ k.failed = Append(l.failed, m) /\ k.loaded = l.loaded
    BY <1>6 DEF LoadStates
  <2>2. QED
    BY <1>2, <1>3, <2>1 DEF Apart, Queued, AtWork, Settled, Placed
<1>7. QED
  BY <1>4, <1>5, <1>6

\* Work that ends, and the waiting task that follows it.
LEMMA WorkEnds ==
    ASSUME NEW l \in LoadStates, Apart(l), NEW m \in l.busy,
           NEW k \in {[Release(l, m) EXCEPT !.loaded = @ \cup {m}],
                      [Release(l, m) EXCEPT !.failed = Append(@, m)]}
    PROVE  Apart(k) /\ Placed(k) = Placed(l)
<1>1. /\ l.waiting \in Seq(Members) /\ l.failed \in Seq(Members) /\ m \in Members
      /\ l.busy \subseteq Members
  BY DEF LoadStates
<1>2. ToSet(Append(l.failed, m)) = ToSet(l.failed) \cup {m}
  BY <1>1, AppendJoins
<1>3. PICK r : r = Release(l, m)
  OBVIOUS
<1>4. /\ r \in LoadStates /\ r.todo = l.todo /\ r.refused = l.refused
      /\ r.failed = l.failed /\ r.loaded = l.loaded
      /\ Once(r.waiting)
      /\ r.busy \cap ToSet(r.waiting) = {} /\ m \notin r.busy
      /\ ToSet(r.waiting) \subseteq ToSet(l.waiting)
      /\ r.busy \subseteq l.busy \cup ToSet(l.waiting)
      /\ r.busy \cup ToSet(r.waiting) = (l.busy \cup ToSet(l.waiting)) \ {m}
  <2>1. /\ r \in LoadStates /\ r.todo = l.todo /\ r.refused = l.refused
        /\ r.failed = l.failed /\ r.loaded = l.loaded
    BY <1>1, <1>3, ReleaseTypes DEF Release, LoadStates
  <2>2. m \notin ToSet(l.waiting) /\ l.busy \cap ToSet(l.waiting) = {} /\ Once(l.waiting)
    BY DEF Apart, Queued, AtWork
  <2>3. CASE l.waiting = <<>>
    <3>1. r.waiting = <<>> /\ r.busy = l.busy \ {m}
      BY <1>3, <2>3 DEF Release, LoadStates
    <3>2. QED
      BY <2>1, <2>2, <2>3, <3>1, InOrderIsAll
  <2>4. CASE l.waiting # <<>>
    <3>1. /\ r.waiting = Tail(l.waiting)
          /\ r.busy = (l.busy \ {m}) \cup {Head(l.waiting)}
      BY <1>3, <2>4 DEF Release, LoadStates
    <3>2. /\ Once(Tail(l.waiting)) /\ Head(l.waiting) \notin ToSet(Tail(l.waiting))
          /\ ToSet(l.waiting) = ToSet(Tail(l.waiting)) \cup {Head(l.waiting)}
      BY <1>1, <2>2, <2>4, TailSplits
    <3>3. QED
      BY <2>1, <2>2, <3>1, <3>2
  <2>5. QED
    BY <2>3, <2>4
<1>5. CASE k = [r EXCEPT !.loaded = @ \cup {m}]
  <2>1. /\ k.todo = r.todo /\ k.busy = r.busy /\ k.waiting = r.waiting
        /\ k.refused = r.refused /\ k.failed = r.failed /\ k.loaded = r.loaded \cup {m}
    BY <1>4, <1>5 DEF LoadStates
  <2>2. QED
    BY <1>4, <2>1 DEF Apart, Queued, AtWork, Settled, Placed
<1>6. CASE k = [r EXCEPT !.failed = Append(@, m)]
  <2>1. /\ k.todo = r.todo /\ k.busy = r.busy /\ k.waiting = r.waiting
        /\ k.refused = r.refused /\ k.failed = Append(r.failed, m) /\ k.loaded = r.loaded
    BY <1>4, <1>6 DEF LoadStates
  <2>2. QED
    BY <1>2, <1>4, <2>1 DEF Apart, Queued, AtWork, Settled, Placed
<1>7. QED
  BY <1>3, <1>5, <1>6

\* Work on a thread that fails, and the record of it.
LEMMA WorkFails ==
    ASSUME NEW l \in LoadStates, Apart(l), NEW m \in Members, NEW k,
           \/ m \in l.busy /\ k = [l EXCEPT !.busy = @ \ {m}, !.refused = @ \cup {m}]
           \/ m \in l.refused /\ k = [l EXCEPT !.refused = @ \ {m}, !.failed = Append(@, m)]
    PROVE  Apart(k) /\ Placed(k) = Placed(l)
<1>1. ToSet(Append(l.failed, m)) = ToSet(l.failed) \cup {m}
  BY AppendJoins DEF LoadStates
<1>2. CASE m \in l.busy /\ k = [l EXCEPT !.busy = @ \ {m}, !.refused = @ \cup {m}]
  <2>1. /\ k.todo = l.todo /\ k.busy = l.busy \ {m} /\ k.waiting = l.waiting
        /\ k.refused = l.refused \cup {m} /\ k.failed = l.failed /\ k.loaded = l.loaded
    BY <1>2 DEF LoadStates
  <2>2. QED
    BY <1>2, <2>1 DEF Apart, Queued, AtWork, Settled, Placed
<1>3. CASE m \in l.refused /\ k = [l EXCEPT !.refused = @ \ {m}, !.failed = Append(@, m)]
  <2>1. /\ k.todo = l.todo /\ k.busy = l.busy /\ k.waiting = l.waiting
        /\ k.refused = l.refused \ {m} /\ k.failed = Append(l.failed, m)
        /\ k.loaded = l.loaded
    BY <1>3 DEF LoadStates
  <2>2. QED
    BY <1>1, <1>3, <2>1 DEF Apart, Queued, AtWork, Settled, Placed
<1>4. QED
  BY <1>2, <1>3

\* A step of one call leaves what the others report alone.
LEMMA OneAccount ==
    ASSUME ReportInv, NEW c \in Callers, Account(c)',
           op' \in [Callers -> Ops \cup {"none"}], raised' \in [Callers -> Int],
           \A k \in Callers \ {c} : UNCHANGED <<op[k], stage[k], raised[k], load[k]>>
    PROVE  ReportInv'
<1>1. ASSUME NEW k \in Callers \ {c} PROVE Account(k)'
  BY DEF ReportInv, Account, Report, Stopping
<1>2. QED
  BY <1>1 DEF ReportInv

LEMMA LoadingAccounts ==
    ASSUME ReportInv, ReachInv, NEW c \in Callers, NEW k, Loading(c, k), Apart(k),
           load[c].failed # <<>> => k.failed # <<>>,
           Stopping(c) \/ Placed(k) = Placed(load[c])
    PROVE  ReportInv'
<1>1. /\ stage[c] = "each" /\ UNCHANGED <<op, stage, raised>>
      /\ load' = [load EXCEPT ![c] = k]
  BY DEF Loading, At, Work
<1>2. load'[c] = k /\ \A j \in Callers \ {c} : load'[j] = load[j]
  BY <1>1 DEF ReachInv, WatchTypes
<1>3. Account(c)'
  BY <1>1, <1>2 DEF ReportInv, Account, Stopping, AtomicStages
<1>4. QED
  BY <1>1, <1>2, <1>3, OneAccount DEF ReportInv

LEMMA EachAccount ==
    ASSUME ReportInv, ReachInv, NEW c \in Callers,
           \/ Take(c) \/ TaskStarts(c) \/ TaskFailsAtOnce(c)
           \/ \E m \in Members :
                Loaded(c, m) \/ TaskRefused(c, m) \/ Refused(c, m) \/ Record(c, m)
    PROVE  ReportInv'
<1> DEFINE l == load[c]
<1>1. l \in LoadStates /\ stage[c] = "each"
  BY DEF ReachInv, WatchTypes, Take, TaskStarts, TaskFailsAtOnce, Loaded, TaskRefused,
         Refused, Record, Loading, At
<1>2. Apart(l)
  BY <1>1 DEF ReportInv, Account
<1>3. \A m \in Members : Append(l.failed, m) # <<>>
  BY <1>1 DEF LoadStates
<1>4. ASSUME NEW k, k = [l EXCEPT !.todo = Tail(l.todo)], l.todo # <<>>, Stopping(c),
             Loading(c, k)
      PROVE  ReportInv'
  <2>1. /\ k.todo = Tail(l.todo) /\ k.busy = l.busy /\ k.waiting = l.waiting
        /\ k.refused = l.refused /\ k.failed = l.failed /\ k.loaded = l.loaded
    BY <1>1, <1>4 DEF LoadStates
  <2>2. Once(Tail(l.todo)) /\ ToSet(Tail(l.todo)) \subseteq ToSet(l.todo)
    BY <1>1, <1>2, <1>4, TailSplits DEF LoadStates, Apart
  <2>3. Apart(k)
    BY <1>2, <2>1, <2>2 DEF Apart, Queued, AtWork, Settled
  <2>4. QED
    BY <1>4, <2>1, <2>3, LoadingAccounts
<1>5. ASSUME l.todo # <<>>,
             NEW k \in {[l EXCEPT !.todo = Tail(l.todo), !.busy = @ \cup {Head(l.todo)}],
                        [l EXCEPT !.todo = Tail(l.todo),
                                  !.waiting = Append(@, Head(l.todo))],
                        [l EXCEPT !.todo = Tail(l.todo),
                                  !.failed = Append(@, Head(l.todo))]},
             Loading(c, k)
      PROVE  ReportInv'
  <2>1. Apart(k) /\ Placed(k) = Placed(l)
    BY <1>1, <1>2, <1>5, FirstLeaves
  <2>2. Head(l.todo) \in Members
    BY <1>1, <1>5 DEF LoadStates
  <2>3. k.failed = l.failed \/ k.failed = Append(l.failed, Head(l.todo))
    BY <1>1, <1>5 DEF LoadStates
  <2>4. l.failed # <<>> => k.failed # <<>>
    BY <1>3, <2>2, <2>3
  <2>5. QED
    BY <1>5, <2>1, <2>4, LoadingAccounts
<1>6. ASSUME NEW m \in Members, NEW k, Loading(c, k),
             \/ /\ m \in l.busy
                /\ k \in {[Release(l, m) EXCEPT !.loaded = @ \cup {m}],
                          [Release(l, m) EXCEPT !.failed = Append(@, m)]}
             \/ m \in l.busy /\ k = [l EXCEPT !.busy = @ \ {m}, !.refused = @ \cup {m}]
             \/ m \in l.refused /\ k = [l EXCEPT !.refused = @ \ {m},
                                                 !.failed = Append(@, m)]
      PROVE  ReportInv'
  <2>1. Apart(k) /\ Placed(k) = Placed(l)
    <3>1. CASE m \in l.busy /\ k \in {[Release(l, m) EXCEPT !.loaded = @ \cup {m}],
                                     [Release(l, m) EXCEPT !.failed = Append(@, m)]}
      BY <1>1, <1>2, <3>1, WorkEnds
    <3>2. CASE \/ m \in l.busy /\ k = [l EXCEPT !.busy = @ \ {m}, !.refused = @ \cup {m}]
               \/ m \in l.refused /\ k = [l EXCEPT !.refused = @ \ {m},
                                                   !.failed = Append(@, m)]
      BY <1>1, <1>2, <3>2, WorkFails
    <3>3. QED
      BY <1>6, <3>1, <3>2
  <2>2. k.failed = l.failed \/ k.failed = Append(l.failed, m)
    <3>1. Release(l, m) \in LoadStates /\ Release(l, m).failed = l.failed
      BY <1>1, <1>6, ReleaseTypes DEF Release, LoadStates
    <3>2. QED
      BY <1>1, <1>6, <3>1 DEF LoadStates
  <2>3. l.failed # <<>> => k.failed # <<>>
    BY <1>3, <2>2
  <2>4. QED
    BY <1>6, <2>1, <2>3, LoadingAccounts
<1>7. CASE Take(c) \/ TaskStarts(c) \/ TaskFailsAtOnce(c)
  BY <1>4, <1>5, <1>7 DEF Take, TaskStarts, TaskFailsAtOnce
<1>8. CASE \E m \in Members :
              Loaded(c, m) \/ TaskRefused(c, m) \/ Refused(c, m) \/ Record(c, m)
  BY <1>6, <1>8 DEF Loaded, TaskRefused, Refused, Record
<1>9. QED
  BY <1>7, <1>8

LEMMA BeginAccount ==
    ASSUME ReportInv, ReachInv, LedgerInv, NEW c \in Callers, NEW o \in Ops, Begin(c, o)
    PROVE  ReportInv'
<1> DEFINE k == [NoLoad EXCEPT !.todo = InOrder]
<1>1. /\ stage' = [stage EXCEPT ![c] = FirstStage(o)]
      /\ op' = [op EXCEPT ![c] = o] /\ raised' = [raised EXCEPT ![c] = 0]
      /\ load' = [load EXCEPT ![c] = k]
  BY DEF Begin, Goto, Raise, Work
<1>2. /\ stage'[c] = FirstStage(o) /\ op'[c] = o /\ load'[c] = k
      /\ \A j \in Callers \ {c} : UNCHANGED <<op[j], stage[j], raised[j], load[j]>>
  BY <1>1 DEF ReportInv, ReachInv, WatchTypes, LedgerInv, AtomicTypes
<1>3. Apart(k) /\ Members \subseteq Placed(k)
  <2>1. /\ k.todo = InOrder /\ k.waiting = <<>> /\ k.failed = <<>>
        /\ k.busy = {} /\ k.refused = {} /\ k.loaded = {} /\ Once(<<>>)
    BY DEF NoLoad, Once
  <2>2. QED
    BY <2>1, InOrderIsAll DEF Apart, Placed, Queued, AtWork, Settled
<1>4. /\ FirstStage(o) = "each" => o \in Loads
      /\ FirstStage(o) \in AtomicStages => o = "reload_atomic"
      /\ FirstStage(o) \in {"watch", "stop"} => o \notin Loads
      /\ FirstStage(o) \in {"each", "prepare", "watch", "stop"}
  BY DEF FirstStage, AtomicStages, Ops, Loads, Blocks
<1>5. Account(c)'
  BY <1>2, <1>3, <1>4 DEF Account, AtomicStages
<1>6. op' \in [Callers -> Ops \cup {"none"}] /\ raised' \in [Callers -> Int]
  BY <1>1 DEF ReportInv
<1>7. QED
  BY <1>2, <1>5, <1>6, OneAccount

LEMMA AtomicAccount ==
    ASSUME ReportInv, LedgerInv, NEW c \in Callers,
           \/ PrepareNext(c) \/ PrepareRefused(c) \/ Discard(c) \/ AtomicReturns(c)
           \/ \E breaks \in BOOLEAN : Commit(c, breaks)
    PROVE  ReportInv'
<1>1. /\ stage[c] \in AtomicStages /\ UNCHANGED <<op, load>>
      /\ \/ stage' = stage
         \/ \E s \in AtomicStages \cup {"returned"} : stage' = [stage EXCEPT ![c] = s]
      /\ raised' = raised \/ \E e \in {0, hi[c] + 1, lo[c]} : raised' = [raised EXCEPT ![c] = e]
  BY DEF PrepareNext, PrepareRefused, Discard, AtomicReturns, Commit, AtomicStep, At, Goto,
         Raise, AtomicStages
<1>2. hi[c] \in Int /\ lo[c] \in Int
  BY DEF LedgerInv, AtomicTypes
<1>3. /\ stage'[c] \in AtomicStages \cup {"returned"} /\ raised' \in [Callers -> Int]
      /\ \A k \in Callers \ {c} : UNCHANGED <<op[k], stage[k], raised[k], load[k]>>
  BY <1>1, <1>2 DEF ReportInv, LedgerInv, AtomicTypes
<1>4. op[c] = "reload_atomic"
  BY <1>1 DEF ReportInv, Account
<1>5. Account(c)'
  BY <1>1, <1>3, <1>4 DEF Account, AtomicStages, Loads
<1>6. QED
  BY <1>1, <1>3, <1>5, OneAccount DEF ReportInv

LEMMA WatchAccount ==
    ASSUME ReportInv, ReachInv, LedgerInv, NEW c \in Callers,
           \/ StartWatch(c) \/ KeepWatch(c) \/ AllWatched(c) \/ WatchFails(c) \/ LeaveBlock(c)
           \/ LookForWatch(c) \/ PopWatch(c) \/ PopRaises(c) \/ HaltWatch(c)
    PROVE  ReportInv'
<1> DEFINE S == {"watch", "inside", "stop", "pop", "halt"}
<1>1. /\ stage[c] \in S /\ UNCHANGED op
      /\ stage' = stage \/ \E s \in S \cup {"returned"} : stage' = [stage EXCEPT ![c] = s]
      /\ \/ raised' = raised
         \/ /\ load[c].todo # <<>>
            /\ raised' = [raised EXCEPT ![c] = Head(load[c].todo)]
         \/ raised' = [raised EXCEPT ![c] = PopError]
      /\ load' = load \/ \E k \in {[load[c] EXCEPT !.todo = Tail(@)]} : load' = [load EXCEPT ![c] = k]
  BY DEF StartWatch, KeepWatch, AllWatched, WatchFails, LeaveBlock, LookForWatch, PopWatch,
         PopRaises, HaltWatch, WatchStep, At, Goto, Raise, Work
<1>2. PopError \in Int /\ (load[c].todo # <<>> => Head(load[c].todo) \in Int)
  BY DEF PopError, ReachInv, WatchTypes, LoadStates, Members
<1>3. /\ stage'[c] \in S \cup {"returned"} /\ raised' \in [Callers -> Int]
      /\ \A k \in Callers \ {c} : UNCHANGED <<op[k], stage[k], raised[k], load[k]>>
  <2>1. stage'[c] \in S \cup {"returned"} /\ \A k \in Callers \ {c} : stage'[k] = stage[k]
    BY <1>1 DEF LedgerInv, AtomicTypes
  <2>2. raised' \in [Callers -> Int] /\ \A k \in Callers \ {c} : raised'[k] = raised[k]
    BY <1>1, <1>2 DEF ReportInv
  <2>3. \A k \in Callers \ {c} : load'[k] = load[k]
    BY <1>1 DEF ReachInv, WatchTypes
  <2>4. QED
    BY <1>1, <2>1, <2>2, <2>3
<1>4. op[c] \notin Loads \ Blocks
  BY <1>1 DEF ReportInv, Account
<1>5. Account(c)'
  BY <1>1, <1>3, <1>4 DEF Account, AtomicStages
<1>6. QED
  BY <1>1, <1>3, <1>5, OneAccount DEF ReportInv

LEMMA Least ==
    ASSUME NEW T \in SUBSET Nat, T # {}
    PROVE  \E m \in T : \A k \in T : m <= k
<1> DEFINE R == OpToRel(<, Nat)
<1>1. IsWellFoundedOn(R, Nat)
  BY NatLessThanWellFounded
<1>2. PICK m \in T : \A k \in T : ~(<<k, m>> \in R)
  <2> HIDE DEF R
  <2> QED
    BY <1>1, WFMin
<1>3. \A k \in T : k \in Nat /\ m \in Nat /\ ~(k < m)
  BY <1>2 DEF OpToRel
<1> HIDE DEF R
<1>4. QED
  BY <1>2, <1>3

LEMMA FirstErrorIs ==
    ASSUME NEW c \in Callers, load[c] \in LoadStates
    PROVE  /\ load[c].failed = <<>> => FirstError(c) = 0
           /\ load[c].failed # <<>> => FirstError(c) \in ToSet(load[c].failed)
           /\ ToSet(load[c].failed) \subseteq Members
<1> DEFINE f == load[c].failed
<1>1. f \in Seq(Members) /\ ToSet(f) \subseteq Members
  BY DEF LoadStates, ToSet
<1>2. f # <<>> => Head(f) \in ToSet(f)
  <2>1. f # <<>> => 1 \in DOMAIN f /\ Head(f) = f[1]
    BY <1>1
  <2>2. QED
    BY <2>1 DEF ToSet
<1>3. f # <<>> => \E m \in ToSet(f) : \A k \in ToSet(f) : m <= k
  <2>1. ToSet(f) \in SUBSET Nat
    BY <1>1 DEF Members
  <2>2. QED
    BY <1>2, <2>1, Least
<1>4. QED
  BY <1>1, <1>2, <1>3 DEF FirstError

LEMMA EachReturnsAccount ==
    ASSUME ReportInv, ReachInv, LedgerInv, NEW c \in Callers, EachReturns(c)
    PROVE  ReportInv'
<1> DEFINE l == load[c]  e == FirstError(c)
<1>1. /\ stage[c] = "each" /\ l.busy = {} /\ l.refused = {} /\ l.waiting = <<>>
      /\ l.todo = <<>> \/ Stopping(c)
      /\ raised' = [raised EXCEPT ![c] = e] /\ UNCHANGED op
      /\ \/ op[c] = "running" /\ \E s \in {"watch", "returned"} : stage' = [stage EXCEPT ![c] = s]
         \/ op[c] # "running" /\ stage' = [stage EXCEPT ![c] = "returned"]
      /\ \E q \in {InOrder, <<>>} : load' = [load EXCEPT ![c] = [l EXCEPT !.todo = q]]
  BY DEF EachReturns, At, Goto, Raise, Work
<1>2. l \in LoadStates /\ op[c] \in Loads /\ Apart(l)
  BY <1>1 DEF ReportInv, Account, ReachInv, WatchTypes
<1>3. /\ l.failed = <<>> => e = 0
      /\ l.failed # <<>> => e \in ToSet(l.failed)
      /\ ToSet(l.failed) \subseteq Members
  BY <1>2, FirstErrorIs
<1>4. e \in Int /\ 0 \notin Members /\ l.loaded \subseteq Members
  BY <1>2, <1>3 DEF Members, LoadStates
<1>5. /\ raised' \in [Callers -> Int] /\ raised'[c] = e
      /\ load'[c].failed = l.failed /\ load'[c].loaded = l.loaded
      /\ \A k \in Callers \ {c} : UNCHANGED <<op[k], stage[k], raised[k], load[k]>>
  <2>1. PICK q \in {InOrder, <<>>} : load' = [load EXCEPT ![c] = [l EXCEPT !.todo = q]]
    BY <1>1
  <2>2. load'[c] = [l EXCEPT !.todo = q] /\ \A k \in Callers \ {c} : load'[k] = load[k]
    BY <2>1 DEF ReachInv, WatchTypes
  <2>3. load'[c].failed = l.failed /\ load'[c].loaded = l.loaded
    BY <1>2, <2>2 DEF LoadStates
  <2>4. QED
    BY <1>1, <1>4, <2>2, <2>3 DEF ReportInv, LedgerInv, AtomicTypes
<1>6. ~Stopping(c) => Members \subseteq Settled(l)
  <2>1. ~Stopping(c) => l.todo = <<>> /\ Members \subseteq Placed(l)
    BY <1>1 DEF ReportInv, Account
  <2>2. QED
    BY <1>1, <2>1, InOrderIsAll DEF Placed, Queued, AtWork
<1>7. Report(c)'
  <2>1. e = 0 => l.loaded = Members
    <3>1. e = 0 => l.failed = <<>>
      BY <1>3, <1>4
    <3>2. QED
      BY <1>4, <1>6, <3>1, InOrderIsAll DEF Stopping, Settled
  <2>2. e # 0 => e \in ToSet(l.failed) \ l.loaded
    BY <1>2, <1>3 DEF Apart
  <2>3. op[c] \notin Stops => Members \subseteq Settled(l)
    BY <1>6 DEF Stopping
  <2>4. QED
    BY <1>1, <1>5, <2>1, <2>2, <2>3 DEF Report, Settled
<1>8. stage'[c] = "returned" \/ (stage'[c] = "watch" /\ op[c] = "running")
  <2>1. PICK s \in {"watch", "returned"} :
            stage' = [stage EXCEPT ![c] = s] /\ (s = "watch" => op[c] = "running")
    BY <1>1
  <2>2. stage'[c] = s
    BY <2>1 DEF LedgerInv, AtomicTypes
  <2>3. QED
    BY <2>1, <2>2
<1>9. Account(c)'
  BY <1>1, <1>7, <1>8 DEF Account, AtomicStages, Blocks
<1>10. QED
  BY <1>1, <1>5, <1>9, OneAccount DEF ReportInv

LEMMA InitReport == Init => ReportInv
  BY DEF Init, ReportInv, Account, Loads, AtomicStages

LEMMA NextReport == ReportInv /\ ReachInv /\ LedgerInv /\ [Next]_vars => ReportInv'
<1> SUFFICES ASSUME ReportInv, ReachInv, LedgerInv, [Next]_vars PROVE ReportInv'
  OBVIOUS
<1>1. CASE UNCHANGED <<op, stage, raised, load>>
  BY <1>1 DEF ReportInv, Account, Report, Stopping
<1>2. ASSUME NEW m \in Members, WatcherReloads(m) \/ \E d \in Docs \cup {Broken} : Edit(m, d)
      PROVE  UNCHANGED <<op, stage, raised, load>>
  BY <1>2 DEF WatcherReloads, Edit
<1>3. UNCHANGED vars => UNCHANGED <<op, stage, raised, load>>
  BY DEF vars
<1>4. QED
  BY <1>1, <1>2, <1>3, NextCases, BeginAccount, AtomicAccount, EachAccount,
     EachReturnsAccount, WatchAccount DEF OtherStep

\* What a returned call says of the members is true, with any number of members,
\* workers and failures (_each, _each_async, _in_parallel).
THEOREM ReportsAreTrueThm == Spec => []ReportsAreTrue
<1>1. ReportInv /\ ReachInv => ReportsAreTrue
  <2> SUFFICES ASSUME ReportInv, ReachInv, NEW c \in Callers, At(c, "returned"),
                      op[c] \in Loads \ Blocks
               PROVE  /\ raised[c] = 0 => load[c].loaded = Members
                      /\ raised[c] # 0 => raised[c] \in ToSet(load[c].failed) \ load[c].loaded
                      /\ op[c] \notin Stops => load[c].loaded \cup ToSet(load[c].failed) = Members
    BY DEF ReportsAreTrue
  <2>1. Report(c)
    BY DEF ReportInv, Account, At
  <2>2. load[c].loaded \subseteq Members /\ ToSet(load[c].failed) \subseteq Members
    BY FirstErrorIs DEF ReachInv, WatchTypes, LoadStates
  <2>3. QED
    BY <2>1, <2>2 DEF Report, Settled
<1>2. Spec => []ReachInv
  BY InitReach, NextReach, LedgerInvariant, PTL DEF Spec
<1>3. QED
  BY InitReport, NextReport, LedgerInvariant, <1>1, <1>2, PTL DEF Spec

=============================================================================
