--------------------------- MODULE PublishProofs ---------------------------
(***************************************************************************)
(* Proofs about Publish, for any number of threads, trees and operations.  *)
(*                                                                         *)
(* Four invariants carry them.  Base holds in every build, free-threaded   *)
(* included: it types the state, ties each program counter to the call it  *)
(* belongs to, and follows the schema's verdict from the validation to the *)
(* readers.  Backed, in every build too, counts the threads between the    *)
(* write of a model and its generation.  GilInv needs the interpreter      *)
(* lock: it follows one validation from its stamp through the slot, the    *)
(* claim and the write.  LoneInv follows one install past the load() and   *)
(* prepare() calls beside it.                                              *)
(***************************************************************************)
EXTENDS Publish, FiniteSets, FiniteSetTheorems, TLAPS

\* Which call a thread can be in at each step.
Control(t) ==
    /\ op[t] = "replace" <=> path[t] = "replace"
    /\ path[t] = "replace" => pc[t] \in {"idle", "write", "announce", "hooks"}
    /\ pc[t] \in {"enter", "install"} =>
           path[t] = "engine" /\ op[t] \in {"reload", "watch", "commit"}
    /\ pc[t] \in {"commit", "take", "raise"} => path[t] \in {"hook", "publish"}
    /\ pc[t] \in {"write", "announce", "hooks"} =>
           path[t] \in {"hook", "publish", "replace"}
    /\ pc[t] \in {"validate", "fill"} /\ path[t] = "engine" =>
           op[t] \in {"reload", "watch", "load", "prepare"}
    /\ pc[t] = "compare" => path[t] = "engine" /\ op[t] = "load"
    /\ pc[t] = "answer" => path[t] = "load"

\* The schema has accepted whatever a thread is about to install or publish.
Verdict(t) ==
    /\ pc[t] \in {"validate", "commit", "compare"} => tree[t] # None
    /\ pc[t] = "enter" /\ op[t] = "commit" => tree[t] \in Valid
    /\ pc[t] = "install" => tree[t] \in Valid
    /\ pc[t] = "fill" =>
           model[t] # None /\ model[t].tree \in Valid /\ tree[t] \in Valid
    /\ pc[t] \in {"take", "answer"} => staged # None
    /\ pc[t] \in {"raise", "write", "announce", "hooks"} =>
           model[t] # None /\ model[t].tree \in Valid \cup {Handmade}
    /\ pc[t] = "read" \/ path[t] = "hook" => installed # None

Accepted ==
    /\ staged # None => staged.tree \in Valid
    /\ installed \in Valid \cup {None}
    /\ prepared \in [Callers -> Valid \cup {None}]
    /\ \A i \in 1..Len(log) : log[i].tree \in Valid \cup {Handmade}

Base ==
    /\ TypeOK
    /\ \A t \in Threads : Control(t)
    /\ \A t \in Threads : Verdict(t)
    /\ Accepted

-----------------------------------------------------------------------------

LEMMA BaseInit == Init => Base
<1> SUFFICES ASSUME Init
             PROVE  Base
  OBVIOUS
<1> USE ConstantsAssumption DEF Init
<1>1. TypeOK
  <2>1. source \in Trees
    BY DEF ConstantsAssumption
  <2>2. log \in Seq(Models)
    BY DEF Models
  <2>3. /\ pc \in [Threads -> Steps] /\ path \in [Threads -> Paths]
        /\ op \in [Threads -> AllOps \cup {"watch"}]
    BY DEF Steps, Paths, AllOps
  <2>4. /\ tree \in [Threads -> Trees \cup {None}]
        /\ model \in [Threads -> Models \cup {None}]
        /\ prepared \in [Callers -> Trees \cup {None}]
    OBVIOUS
  <2> QED
    BY <2>1, <2>2, <2>3, <2>4 DEF TypeOK
<1>2. \A t \in Threads : Control(t) /\ Verdict(t)
  BY DEF Control, Verdict
<1>3. Accepted
  BY DEF Accepted
<1> QED
  BY <1>1, <1>2, <1>3 DEF Base

\* Where each call of validate goes on, case by case.
LEMMA AfterFillIs ==
  ASSUME Base, NEW t \in Threads, pc[t] = "fill"
  PROVE  \/ path[t] = "load" /\ AfterFill(t) = "answer"
         \/ path[t] \in {"hook", "publish"} /\ AfterFill(t) = "take"
         \/ path[t] = "engine" /\ op[t] = "load" /\ AfterFill(t) = "compare"
         \/ path[t] = "engine" /\ op[t] = "prepare" /\ AfterFill(t) = "idle"
         \/ /\ path[t] = "engine" /\ op[t] \in {"reload", "watch"}
            /\ AfterFill(t) = "install"
<1>1. /\ path[t] \in {"engine", "hook", "publish", "load"}
      /\ path[t] = "engine" => op[t] \in {"reload", "watch", "load", "prepare"}
  BY DEF Base, TypeOK, Control, Paths, AllOps
<1>2. CASE path[t] = "load"
  BY <1>2 DEF AfterFill
<1>3. CASE path[t] \in {"hook", "publish"}
  BY <1>3 DEF AfterFill
<1>4. CASE path[t] = "engine"
  BY <1>1, <1>4 DEF AfterFill
<1> QED
  BY <1>1, <1>2, <1>3, <1>4

LEMMA TypeStep ==
  ASSUME Base, [Next]_vars
  PROVE  TypeOK'
<1> USE ConstantsAssumption DEF Base, TypeOK, Models, Steps, Paths, AllOps, Goto
<1>1. CASE EditSource
  BY <1>1 DEF EditSource, slotVars, outVars, localVars, history
<1>2. ASSUME NEW t \in Callers, Reload(t) PROVE TypeOK'
  BY <1>2 DEF Reload, Start, Overlap, Threads, engineVars, slotVars, outVars
<1>3. ASSUME NEW t \in Callers, CommitPrepared(t) PROVE TypeOK'
  BY <1>3 DEF CommitPrepared, Start, Overlap, Threads, engineVars, slotVars, outVars
<1>4. ASSUME NEW t \in Callers, Discard(t) PROVE TypeOK'
  BY <1>4 DEF Discard, engineVars, slotVars, outVars, localVars, history
<1>5. ASSUME NEW t \in Callers, Replace(t) PROVE TypeOK'
  BY <1>5 DEF Replace, Start, Overlap, Threads, engineVars, slotVars, outVars
<1>6. ASSUME NEW t \in Callers, NEW o \in {"load", "prepare"}, Load(t, o) PROVE TypeOK'
  BY <1>6 DEF Load, Start, Threads, engineVars, slotVars, outVars, history
<1>7. ASSUME NEW t \in Watchers, Watch(t) PROVE TypeOK'
  BY <1>7 DEF Watch, Start, Overlap, Threads, engineVars, slotVars, outVars
<1>8. ASSUME NEW t \in Threads, Enter(t) PROVE TypeOK'
  BY <1>8 DEF Enter, slotVars, outVars, history
<1>9. ASSUME NEW t \in Threads, Refuse(t) PROVE TypeOK'
  BY <1>9 DEF Refuse, Finish, LeaveEngine, slotVars, outVars, history
<1>10. ASSUME NEW t \in Threads, Stamp(t) PROVE TypeOK'
  BY <1>10 DEF Stamp, engineVars, outVars, history
<1>11. ASSUME NEW t \in Threads, Fill(t) PROVE TypeOK'
  BY <1>11, AfterFillIs DEF Fill, engineVars, outVars, history
<1>12. ASSUME NEW t \in Threads, InstallFirst(t) PROVE TypeOK'
  <2>1. tree[t] \in Trees
    BY <1>12 DEF InstallFirst, Verdict
  <2> QED
    BY <1>12, <2>1 DEF InstallFirst, LeaveEngine, slotVars, outVars
<1>24. ASSUME NEW t \in Threads, InstallNext(t) PROVE TypeOK'
  <2>1. tree[t] \in Trees
    BY <1>24 DEF InstallNext, Verdict
  <2> QED
    BY <1>24, <2>1 DEF InstallNext, slotVars, outVars
<1>13. ASSUME NEW t \in Threads, ReadInstalled(t) PROVE TypeOK'
  BY <1>13 DEF ReadInstalled, engineVars, slotVars, outVars, history
<1>14. ASSUME NEW t \in Threads, CommitAlready(t) PROVE TypeOK'
  BY <1>14 DEF CommitAlready, Finish, LeaveEngine, slotVars, outVars, history
<1>15. ASSUME NEW t \in Threads, CommitClaim(t) PROVE TypeOK'
  BY <1>15 DEF CommitClaim, StagedFor, engineVars, outVars, history
<1>16. ASSUME NEW t \in Threads, CommitMismatch(t) PROVE TypeOK'
  BY <1>16 DEF CommitMismatch, engineVars, slotVars, outVars, history
<1>17. ASSUME NEW t \in Threads, Take(t) PROVE TypeOK'
  BY <1>17 DEF Take, engineVars, slotVars, outVars, history
<1>18. ASSUME NEW t \in Threads, Raise(t) PROVE TypeOK'
  BY <1>18 DEF Raise, Verdict, engineVars, outVars, history
<1>19. ASSUME NEW t \in Threads, WriteCache(t) PROVE TypeOK'
  BY <1>19 DEF WriteCache, Verdict, engineVars, slotVars
<1>20. ASSUME NEW t \in Threads, Announce(t) PROVE TypeOK'
  BY <1>20 DEF Announce, engineVars, slotVars, history
<1>21. ASSUME NEW t \in Threads, RunHooks(t) PROVE TypeOK'
  BY <1>21 DEF RunHooks, Finish, LeaveEngine, slotVars, history
<1>22. ASSUME NEW t \in Threads, LoadMatch(t) \/ LoadMismatch(t) \/ LoadAnswer(t)
       PROVE TypeOK'
  BY <1>22 DEF LoadMatch, LoadMismatch, LoadAnswer, engineVars, slotVars, outVars, history
<1>23. CASE UNCHANGED vars
  BY <1>23 DEF vars, engineVars, slotVars, outVars, localVars, history
<1> HIDE DEF Base, TypeOK, Models, Steps, Paths, AllOps, Goto
<1> QED
  BY <1>1, <1>2, <1>3, <1>4, <1>5, <1>6, <1>7, <1>8, <1>9, <1>10, <1>11, <1>12, <1>13,
     <1>14, <1>15, <1>16, <1>17, <1>18, <1>19, <1>20, <1>21, <1>22, <1>23, <1>24
  DEF Next, Call, Work

LEMMA ControlStep ==
  ASSUME Base, [Next]_vars, NEW u \in Threads
  PROVE  Control(u)'
<1> USE ConstantsAssumption DEF Base, TypeOK, Control, AllOps, Steps, Paths, Goto
<1>1. CASE EditSource
  BY <1>1 DEF EditSource, localVars, history
<1>2. ASSUME NEW t \in Callers, Reload(t) PROVE Control(u)'
  BY <1>2 DEF Reload, Start, localVars, history, Threads
<1>3. ASSUME NEW t \in Callers, CommitPrepared(t) PROVE Control(u)'
  BY <1>3 DEF CommitPrepared, Start, localVars, history, Threads
<1>4. ASSUME NEW t \in Callers, Discard(t) PROVE Control(u)'
  BY <1>4 DEF Discard, localVars, history, Threads
<1>5. ASSUME NEW t \in Callers, Replace(t) PROVE Control(u)'
  BY <1>5 DEF Replace, Start, localVars, history, Threads
<1>6. ASSUME NEW t \in Callers, NEW o \in {"load", "prepare"}, Load(t, o) PROVE Control(u)'
  BY <1>6 DEF Load, Start, localVars, history, Threads
<1>7. ASSUME NEW t \in Watchers, Watch(t) PROVE Control(u)'
  BY <1>7 DEF Watch, Start, localVars, history, Threads
<1>8. ASSUME NEW t \in Threads, Enter(t) PROVE Control(u)'
  BY <1>8 DEF Enter, localVars, history
<1>9. ASSUME NEW t \in Threads, Refuse(t) PROVE Control(u)'
  BY <1>9 DEF Refuse, Finish, localVars, history
<1>10. ASSUME NEW t \in Threads, Stamp(t) PROVE Control(u)'
  BY <1>10 DEF Stamp, localVars, history
<1>11. ASSUME NEW t \in Threads, Fill(t) PROVE Control(u)'
  BY <1>11, AfterFillIs DEF Fill, localVars, history
<1>12. ASSUME NEW t \in Threads, InstallFirst(t) PROVE Control(u)'
  BY <1>12 DEF InstallFirst, localVars, history
<1>13. ASSUME NEW t \in Threads, InstallNext(t) PROVE Control(u)'
  BY <1>13 DEF InstallNext, localVars, history
<1>14. ASSUME NEW t \in Threads, ReadInstalled(t) PROVE Control(u)'
  BY <1>14 DEF ReadInstalled, localVars, history
<1>15. ASSUME NEW t \in Threads, CommitAlready(t) PROVE Control(u)'
  BY <1>15 DEF CommitAlready, Finish, localVars, history
<1>16. ASSUME NEW t \in Threads, CommitClaim(t) PROVE Control(u)'
  BY <1>16 DEF CommitClaim, localVars, history
<1>17. ASSUME NEW t \in Threads, CommitMismatch(t) PROVE Control(u)'
  BY <1>17 DEF CommitMismatch, localVars, history
<1>18. ASSUME NEW t \in Threads, Take(t) PROVE Control(u)'
  BY <1>18 DEF Take, localVars, history
<1>19. ASSUME NEW t \in Threads, Raise(t) PROVE Control(u)'
  BY <1>19 DEF Raise, localVars, history
<1>20. ASSUME NEW t \in Threads, WriteCache(t) PROVE Control(u)'
  BY <1>20 DEF WriteCache, localVars, history
<1>21. ASSUME NEW t \in Threads, Announce(t) PROVE Control(u)'
  BY <1>21 DEF Announce, localVars, history
<1>22. ASSUME NEW t \in Threads, RunHooks(t) PROVE Control(u)'
  BY <1>22 DEF RunHooks, Finish, localVars, history
<1>23. ASSUME NEW t \in Threads, LoadMatch(t) PROVE Control(u)'
  BY <1>23 DEF LoadMatch, localVars, history
<1>24. ASSUME NEW t \in Threads, LoadMismatch(t) PROVE Control(u)'
  BY <1>24 DEF LoadMismatch, localVars, history
<1>25. ASSUME NEW t \in Threads, LoadAnswer(t) PROVE Control(u)'
  BY <1>25 DEF LoadAnswer, localVars, history
<1>26. CASE UNCHANGED vars
  BY <1>26 DEF vars, localVars, history
<1> HIDE DEF Base, TypeOK, Control, AllOps, Steps, Paths, Goto
<1> QED
  BY <1>1, <1>2, <1>3, <1>4, <1>5, <1>6, <1>7, <1>8, <1>9, <1>10, <1>11, <1>12,
     <1>13, <1>14, <1>15, <1>16, <1>17, <1>18, <1>19, <1>20, <1>21, <1>22, <1>23,
     <1>24, <1>25, <1>26
  DEF Next, Call, Work

LEMMA VerdictStep ==
  ASSUME Base, [Next]_vars, NEW u \in Threads
  PROVE  Verdict(u)'
<1> USE ConstantsAssumption DEF Base, TypeOK, Models, Steps, Verdict, Accepted, Control, Goto
<1>1. CASE EditSource
  BY <1>1 DEF EditSource, engineVars, slotVars, localVars, history
<1>2. ASSUME NEW t \in Callers, Reload(t) PROVE Verdict(u)'
  BY <1>2 DEF Reload, Start, engineVars, slotVars, localVars, history, Threads
<1>3. ASSUME NEW t \in Callers, CommitPrepared(t) PROVE Verdict(u)'
  BY <1>3 DEF CommitPrepared, Start, engineVars, slotVars, localVars, history,
     Threads
<1>4. ASSUME NEW t \in Callers, Discard(t) PROVE Verdict(u)'
  BY <1>4 DEF Discard, localVars, engineVars, slotVars, history, Threads
<1>5. ASSUME NEW t \in Callers, Replace(t) PROVE Verdict(u)'
  BY <1>5 DEF Replace, Start, engineVars, slotVars, localVars, history, Threads
<1>6. ASSUME NEW t \in Callers, NEW o \in {"load", "prepare"}, Load(t, o) PROVE Verdict(u)'
  BY <1>6 DEF Load, Start, engineVars, slotVars, localVars, history, Threads
<1>7. ASSUME NEW t \in Watchers, Watch(t) PROVE Verdict(u)'
  BY <1>7 DEF Watch, Start, engineVars, slotVars, localVars, history, Threads
<1>8. ASSUME NEW t \in Threads, Enter(t) PROVE Verdict(u)'
  BY <1>8 DEF Enter, engineVars, slotVars, localVars, history
<1>9. ASSUME NEW t \in Threads, Refuse(t) PROVE Verdict(u)'
  BY <1>9 DEF Refuse, Finish, engineVars, slotVars, localVars, history
<1>10. ASSUME NEW t \in Threads, Stamp(t) PROVE Verdict(u)'
  BY <1>10 DEF Stamp, engineVars, slotVars, localVars, history
<1>11. ASSUME NEW t \in Threads, Fill(t) PROVE Verdict(u)'
  BY <1>11, AfterFillIs DEF Fill, engineVars, slotVars, localVars, history
<1>12. ASSUME NEW t \in Threads, InstallFirst(t) PROVE Verdict(u)'
  BY <1>12 DEF InstallFirst, engineVars, slotVars, localVars, history
<1>13. ASSUME NEW t \in Threads, InstallNext(t) PROVE Verdict(u)'
  BY <1>13 DEF InstallNext, engineVars, slotVars, localVars, history
<1>14. ASSUME NEW t \in Threads, ReadInstalled(t) PROVE Verdict(u)'
  BY <1>14 DEF ReadInstalled, engineVars, slotVars, localVars, history
<1>15. ASSUME NEW t \in Threads, CommitAlready(t) PROVE Verdict(u)'
  BY <1>15 DEF CommitAlready, Finish, StagedFor, engineVars, slotVars, localVars,
     history
<1>16. ASSUME NEW t \in Threads, CommitClaim(t) PROVE Verdict(u)'
  BY <1>16 DEF CommitClaim, StagedFor, engineVars, slotVars, localVars, history
<1>17. ASSUME NEW t \in Threads, CommitMismatch(t) PROVE Verdict(u)'
  BY <1>17 DEF CommitMismatch, engineVars, slotVars, localVars, history
<1>18. ASSUME NEW t \in Threads, Take(t) PROVE Verdict(u)'
  BY <1>18 DEF Take, engineVars, slotVars, localVars, history
<1>19. ASSUME NEW t \in Threads, Raise(t) PROVE Verdict(u)'
  BY <1>19 DEF Raise, engineVars, slotVars, localVars, history
<1>20. ASSUME NEW t \in Threads, WriteCache(t) PROVE Verdict(u)'
  BY <1>20 DEF WriteCache, engineVars, slotVars, localVars, history
<1>21. ASSUME NEW t \in Threads, Announce(t) PROVE Verdict(u)'
  BY <1>21 DEF Announce, engineVars, slotVars, localVars, history
<1>22. ASSUME NEW t \in Threads, RunHooks(t) PROVE Verdict(u)'
  BY <1>22 DEF RunHooks, Finish, engineVars, slotVars, localVars, history
<1>23. ASSUME NEW t \in Threads, LoadMatch(t) PROVE Verdict(u)'
  BY <1>23 DEF LoadMatch, engineVars, slotVars, localVars, history
<1>24. ASSUME NEW t \in Threads, LoadMismatch(t) PROVE Verdict(u)'
  BY <1>24 DEF LoadMismatch, engineVars, slotVars, localVars, history
<1>25. ASSUME NEW t \in Threads, LoadAnswer(t) PROVE Verdict(u)'
  BY <1>25 DEF LoadAnswer, engineVars, slotVars, localVars, history
<1>26. CASE UNCHANGED vars
  BY <1>26 DEF vars, engineVars, slotVars, localVars, history
<1> HIDE DEF Base, TypeOK, Models, Steps, Verdict, Accepted, Control, Goto
<1> QED
  BY <1>1, <1>2, <1>3, <1>4, <1>5, <1>6, <1>7, <1>8, <1>9, <1>10, <1>11, <1>12,
     <1>13, <1>14, <1>15, <1>16, <1>17, <1>18, <1>19, <1>20, <1>21, <1>22, <1>23,
     <1>24, <1>25, <1>26
  DEF Next, Call, Work

LEMMA AcceptedStep ==
  ASSUME Base, [Next]_vars
  PROVE  Accepted'
<1> USE ConstantsAssumption DEF Base, TypeOK, Models, Verdict, Accepted, Control
<1>1. CASE EditSource
  BY <1>1 DEF EditSource, engineVars, slotVars, history
<1>2. ASSUME NEW t \in Callers, Reload(t) PROVE Accepted'
  BY <1>2 DEF Reload, Start, engineVars, slotVars, history, Threads
<1>3. ASSUME NEW t \in Callers, CommitPrepared(t) PROVE Accepted'
  BY <1>3 DEF CommitPrepared, Start, engineVars, slotVars, history, Threads
<1>4. ASSUME NEW t \in Callers, Discard(t) PROVE Accepted'
  BY <1>4 DEF Discard, localVars, engineVars, slotVars, history, Threads
<1>5. ASSUME NEW t \in Callers, Replace(t) PROVE Accepted'
  BY <1>5 DEF Replace, Start, engineVars, slotVars, history, Threads
<1>6. ASSUME NEW t \in Callers, NEW o \in {"load", "prepare"}, Load(t, o) PROVE Accepted'
  BY <1>6 DEF Load, Start, engineVars, slotVars, history, Threads
<1>7. ASSUME NEW t \in Watchers, Watch(t) PROVE Accepted'
  BY <1>7 DEF Watch, Start, engineVars, slotVars, history, Threads
<1>8. ASSUME NEW t \in Threads, Enter(t) PROVE Accepted'
  BY <1>8 DEF Enter, engineVars, slotVars, history
<1>9. ASSUME NEW t \in Threads, Refuse(t) PROVE Accepted'
  BY <1>9 DEF Refuse, Finish, engineVars, slotVars, history
<1>10. ASSUME NEW t \in Threads, Stamp(t) PROVE Accepted'
  BY <1>10 DEF Stamp, engineVars, slotVars, history
<1>11. ASSUME NEW t \in Threads, Fill(t) PROVE Accepted'
  BY <1>11, AfterFillIs DEF Fill, engineVars, slotVars, history
<1>12. ASSUME NEW t \in Threads, InstallFirst(t) PROVE Accepted'
  BY <1>12 DEF InstallFirst, engineVars, slotVars, history
<1>13. ASSUME NEW t \in Threads, InstallNext(t) PROVE Accepted'
  BY <1>13 DEF InstallNext, engineVars, slotVars, history
<1>14. ASSUME NEW t \in Threads, ReadInstalled(t) PROVE Accepted'
  BY <1>14 DEF ReadInstalled, engineVars, slotVars, history
<1>15. ASSUME NEW t \in Threads, CommitAlready(t) PROVE Accepted'
  BY <1>15 DEF CommitAlready, Finish, StagedFor, engineVars, slotVars, history
<1>16. ASSUME NEW t \in Threads, CommitClaim(t) PROVE Accepted'
  BY <1>16 DEF CommitClaim, StagedFor, engineVars, slotVars, history
<1>17. ASSUME NEW t \in Threads, CommitMismatch(t) PROVE Accepted'
  BY <1>17 DEF CommitMismatch, engineVars, slotVars, history
<1>18. ASSUME NEW t \in Threads, Take(t) PROVE Accepted'
  BY <1>18 DEF Take, engineVars, slotVars, history
<1>19. ASSUME NEW t \in Threads, Raise(t) PROVE Accepted'
  BY <1>19 DEF Raise, engineVars, slotVars, history
<1>20. ASSUME NEW t \in Threads, WriteCache(t) PROVE Accepted'
  BY <1>20 DEF WriteCache, engineVars, slotVars, history
<1>21. ASSUME NEW t \in Threads, Announce(t) PROVE Accepted'
  BY <1>21 DEF Announce, engineVars, slotVars, history
<1>22. ASSUME NEW t \in Threads, RunHooks(t) PROVE Accepted'
  BY <1>22 DEF RunHooks, Finish, engineVars, slotVars, history
<1>23. ASSUME NEW t \in Threads, LoadMatch(t) PROVE Accepted'
  BY <1>23 DEF LoadMatch, engineVars, slotVars, history
<1>24. ASSUME NEW t \in Threads, LoadMismatch(t) PROVE Accepted'
  BY <1>24 DEF LoadMismatch, engineVars, slotVars, history
<1>25. ASSUME NEW t \in Threads, LoadAnswer(t) PROVE Accepted'
  BY <1>25 DEF LoadAnswer, engineVars, slotVars, history
<1>26. CASE UNCHANGED vars
  BY <1>26 DEF vars, engineVars, slotVars, history
<1> HIDE DEF Base, TypeOK, Models, Verdict, Accepted, Control
<1> QED
  BY <1>1, <1>2, <1>3, <1>4, <1>5, <1>6, <1>7, <1>8, <1>9, <1>10, <1>11, <1>12,
     <1>13, <1>14, <1>15, <1>16, <1>17, <1>18, <1>19, <1>20, <1>21, <1>22, <1>23,
     <1>24, <1>25, <1>26
  DEF Next, Call, Work

THEOREM BaseInvariant == Spec => []Base
<1>1. Base /\ [Next]_vars => Base'
  BY TypeStep, ControlStep, VerdictStep, AcceptedStep DEF Base
<1> QED
  BY BaseInit, <1>1, PTL DEF Spec

\* Type correctness, in every build: each variable keeps the type the code
\* declares for it, whatever the threads do.
THEOREM TypeCorrect == Spec => []TypeOK
<1>1. Base => TypeOK
  BY DEF Base
<1> QED
  BY BaseInvariant, <1>1, PTL

\* The schema's verdict is final, in every build, free-threaded included: no
\* interleaving of reloads, loads, prepares and commits installs or publishes a
\* tree the validator refused.
THEOREM RejectedNeverServesThm == Spec => []RejectedNeverServes
<1>1. Base => RejectedNeverServes
  BY DEF Base, Accepted, RejectedNeverServes
<1> QED
  BY BaseInvariant, <1>1, PTL

-----------------------------------------------------------------------------
(* The generation, in every build.                                          *)

\* The threads between the write of the cache and their announcement.
Announcing == {t \in Threads : pc[t] = "announce"}

\* Every model the cache has held was counted, or is about to be: the write and
\* the count are two steps, and any number of threads may be between them.
Backed == IsFiniteSet(Announcing) /\ Len(log) = generation + Cardinality(Announcing)

\* A step that neither publishes nor announces.
Idling == Announcing' = Announcing /\ UNCHANGED <<log, generation>>

LEMMA BackedInit == Init => Backed
<1> SUFFICES ASSUME Init
             PROVE  Backed
  OBVIOUS
<1>1. Announcing = {}
  BY DEF Init, Announcing
<1> QED
  BY <1>1, FS_EmptySet DEF Init, Backed

\* The write adds one model and one thread that will count it ...
LEMMA WriteBacked ==
  ASSUME Base, Backed, NEW t \in Threads, WriteCache(t)
  PROVE  Backed'
<1> USE DEF Base, TypeOK
<1>1. t \notin Announcing
  BY DEF WriteCache, Announcing
<1>2. Announcing' = Announcing \cup {t}
  BY DEF WriteCache, Goto, Announcing
<1>3. IsFiniteSet(Announcing') /\ Cardinality(Announcing') = Cardinality(Announcing) + 1
  BY <1>1, <1>2, FS_AddElement DEF Backed
<1>4. Len(log') = Len(log) + 1 /\ generation' = generation
  <2>1. model[t] \in Models
    BY DEF WriteCache, Verdict
  <2> QED
    BY <2>1 DEF WriteCache
<1>5. Cardinality(Announcing) \in Nat
  BY FS_CardinalityType DEF Backed
<1> QED
  BY <1>3, <1>4, <1>5 DEF Backed

\* ... and the announcement takes that thread away and counts the model.
LEMMA AnnounceBacked ==
  ASSUME Base, Backed, NEW t \in Threads, Announce(t)
  PROVE  Backed'
<1> USE DEF Base, TypeOK
<1>1. t \in Announcing
  BY DEF Announce, Announcing
<1>2. Announcing' = Announcing \ {t}
  BY DEF Announce, Goto, Announcing
<1>3. IsFiniteSet(Announcing') /\ Cardinality(Announcing') = Cardinality(Announcing) - 1
  BY <1>1, <1>2, FS_RemoveElement DEF Backed
<1>4. log' = log /\ generation' = generation + 1
  BY DEF Announce, history
<1>5. Cardinality(Announcing) \in Nat
  BY FS_CardinalityType DEF Backed
<1> QED
  BY <1>3, <1>4, <1>5 DEF Backed

LEMMA BackedStep ==
  ASSUME Base, Backed, [Next]_vars
  PROVE  Backed'
<1> USE ConstantsAssumption DEF Base, TypeOK, Announcing, Idling, Goto
<1>1. ASSUME EditSource PROVE Idling
  BY <1>1 DEF EditSource, engineVars, slotVars, outVars, localVars, history
<1>2. ASSUME NEW t \in Callers, Reload(t) PROVE Idling
  BY <1>2 DEF Reload, Start, engineVars, slotVars, outVars, localVars, history,
     Threads
<1>3. ASSUME NEW t \in Callers, CommitPrepared(t) PROVE Idling
  BY <1>3 DEF CommitPrepared, Start, engineVars, slotVars, outVars, localVars,
     history, Threads
<1>4. ASSUME NEW t \in Callers, Discard(t) PROVE Idling
  BY <1>4 DEF Discard, localVars, engineVars, slotVars, outVars, history, Threads
<1>5. ASSUME NEW t \in Callers, Replace(t) PROVE Idling
  BY <1>5 DEF Replace, Start, engineVars, slotVars, outVars, localVars, history,
     Threads
<1>6. ASSUME NEW t \in Callers, NEW o \in {"load", "prepare"}, Load(t, o) PROVE Idling
  BY <1>6 DEF Load, Start, engineVars, slotVars, outVars, localVars, history,
     Threads
<1>7. ASSUME NEW t \in Watchers, Watch(t) PROVE Idling
  BY <1>7 DEF Watch, Start, engineVars, slotVars, outVars, localVars, history,
     Threads
<1>8. ASSUME NEW t \in Threads, Enter(t) PROVE Idling
  BY <1>8 DEF Enter, engineVars, slotVars, outVars, localVars, history
<1>9. ASSUME NEW t \in Threads, Refuse(t) PROVE Idling
  BY <1>9 DEF Refuse, Finish, engineVars, slotVars, outVars, localVars, history
<1>10. ASSUME NEW t \in Threads, Stamp(t) PROVE Idling
  BY <1>10 DEF Stamp, engineVars, slotVars, outVars, localVars, history
<1>11. ASSUME NEW t \in Threads, Fill(t) PROVE Idling
  BY <1>11, AfterFillIs DEF Fill, engineVars, slotVars, outVars, localVars, history
<1>12. ASSUME NEW t \in Threads, InstallFirst(t) PROVE Idling
  BY <1>12 DEF InstallFirst, engineVars, slotVars, outVars, localVars, history
<1>13. ASSUME NEW t \in Threads, InstallNext(t) PROVE Idling
  BY <1>13 DEF InstallNext, engineVars, slotVars, outVars, localVars, history
<1>14. ASSUME NEW t \in Threads, ReadInstalled(t) PROVE Idling
  BY <1>14 DEF ReadInstalled, engineVars, slotVars, outVars, localVars, history
<1>15. ASSUME NEW t \in Threads, CommitAlready(t) PROVE Idling
  BY <1>15 DEF CommitAlready, Finish, StagedFor, engineVars, slotVars, outVars,
     localVars, history
<1>16. ASSUME NEW t \in Threads, CommitClaim(t) PROVE Idling
  BY <1>16 DEF CommitClaim, StagedFor, engineVars, slotVars, outVars, localVars,
     history
<1>17. ASSUME NEW t \in Threads, CommitMismatch(t) PROVE Idling
  BY <1>17 DEF CommitMismatch, engineVars, slotVars, outVars, localVars, history
<1>18. ASSUME NEW t \in Threads, Take(t) PROVE Idling
  BY <1>18 DEF Take, engineVars, slotVars, outVars, localVars, history
<1>19. ASSUME NEW t \in Threads, Raise(t) PROVE Idling
  BY <1>19 DEF Raise, engineVars, slotVars, outVars, localVars, history
<1>20. ASSUME NEW t \in Threads, WriteCache(t) PROVE Backed'
  BY <1>20, WriteBacked
<1>21. ASSUME NEW t \in Threads, Announce(t) PROVE Backed'
  BY <1>21, AnnounceBacked
<1>22. ASSUME NEW t \in Threads, RunHooks(t) PROVE Idling
  BY <1>22 DEF RunHooks, Finish, engineVars, slotVars, outVars, localVars, history
<1>23. ASSUME NEW t \in Threads, LoadMatch(t) PROVE Idling
  BY <1>23 DEF LoadMatch, engineVars, slotVars, outVars, localVars, history
<1>24. ASSUME NEW t \in Threads, LoadMismatch(t) PROVE Idling
  BY <1>24 DEF LoadMismatch, engineVars, slotVars, outVars, localVars, history
<1>25. ASSUME NEW t \in Threads, LoadAnswer(t) PROVE Idling
  BY <1>25 DEF LoadAnswer, engineVars, slotVars, outVars, localVars, history
<1>26. ASSUME UNCHANGED vars PROVE Idling
  BY <1>26 DEF vars, engineVars, slotVars, outVars, localVars, history
<1>27. Idling => Backed'
  BY DEF Backed
<1> HIDE DEF Base, TypeOK, Announcing, Idling, Goto
<1> QED
  BY <1>1, <1>2, <1>3, <1>4, <1>5, <1>6, <1>7, <1>8, <1>9, <1>10, <1>11, <1>12,
     <1>13, <1>14, <1>15, <1>16, <1>17, <1>18, <1>19, <1>20, <1>21, <1>22, <1>23,
     <1>24, <1>25, <1>26, <1>27
  DEF Next, Call, Work

THEOREM BackedInvariant == Spec => []Backed
<1>1. Base /\ Backed /\ [Next]_vars => Backed'
  BY BackedStep
<1> QED
  BY BaseInvariant, BackedInit, <1>1, PTL DEF Spec

\* In every build, free-threaded included: the generation never counts a model
\* the cache has not held, and at rest has counted every one of them.
THEOREM GenerationIsBackedThm == Spec => []GenerationIsBacked
<1>1. Base /\ Backed => GenerationIsBacked
  <2> SUFFICES ASSUME Base, Backed
               PROVE  GenerationIsBacked
    OBVIOUS
  <2>1. generation \in Nat /\ Cardinality(Announcing) \in Nat
    BY FS_CardinalityType DEF Base, TypeOK, Backed
  <2>2. generation <= Len(log)
    BY <2>1 DEF Backed
  <2>3. ASSUME Quiet PROVE generation = Len(log)
    <3>1. Announcing = {}
      BY <2>3 DEF Quiet, Announcing
    <3> QED
      BY <2>1, <3>1, FS_EmptySet DEF Backed
  <2> QED
    BY <2>2, <2>3 DEF GenerationIsBacked
<1> QED
  BY BaseInvariant, BackedInvariant, <1>1, PTL

-----------------------------------------------------------------------------
(* Under the GIL.                                                           *)

\* One thread at a time is inside a stretch of attached Rust code.
OneHolder == \A t, u \in Threads : Holding(t) /\ Holding(u) => t = u

\* What the counters say of each other, of the slot and of the log.
Ledger ==
    /\ last_committed <= next_sequence
    /\ staged # None => staged.seq <= next_sequence
    /\ \A i \in 1..Len(log) : log[i].seq <= last_committed
    /\ installed \in everInstalled \cup {None}
    /\ OnlyInstalledIsPublished
    /\ PublishedInOrder

\* One validation on its way to the readers.
Flight(t) ==
    /\ pc[t] = "fill" => /\ model[t].tree = tree[t]
                         /\ model[t].seq = next_sequence
                         /\ last_committed < next_sequence
    /\ pc[t] \in {"take", "answer"} => staged.tree = tree[t]
    /\ pc[t] = "take" => last_committed < staged.seq
    /\ pc[t] = "raise" => /\ model[t].tree = tree[t]
                          /\ last_committed < model[t].seq
                          /\ model[t].seq <= next_sequence
    /\ pc[t] = "write" /\ op[t] # "replace" =>
           /\ model[t].seq = last_committed
           /\ 0 < last_committed
           /\ \A i \in 1..Len(log) : log[i].seq < last_committed
    /\ pc[t] \in {"write", "announce", "hooks"} /\ op[t] # "replace" =>
           model[t].tree = tree[t]
    /\ pc[t] \in {"write", "announce", "hooks"} /\ op[t] = "replace" =>
           model[t] = [seq |-> 0, tree |-> Handmade]
    /\ /\ pc[t] \in {"validate", "fill", "commit", "take", "raise", "write"}
       /\ path[t] \in {"hook", "publish"}
       => tree[t] \in everInstalled

\* The generation lags the log by the one model being announced.
Counted ==
    IF \E t \in Threads : pc[t] = "announce" THEN Len(log) = generation + 1
                                             ELSE Len(log) = generation

GilInv ==
    /\ OneHolder
    /\ Ledger
    /\ \A t \in Threads : Flight(t)
    /\ Counted

LEMMA LogTyped == TypeOK => \A i \in 1..Len(log) : log[i].seq \in Nat
<1> SUFFICES ASSUME TypeOK, NEW i \in 1..Len(log)
             PROVE  log[i].seq \in Nat
  OBVIOUS
<1>1. log[i] \in Models
  BY DEF TypeOK
<1> QED
  BY <1>1 DEF Models

LEMMA GilInit == Init => GilInv
<1> SUFFICES ASSUME Init
             PROVE  GilInv
  OBVIOUS
<1>1. OneHolder
  BY DEF Init, OneHolder, Holding
<1>2. Ledger
  BY DEF Init, Ledger, OnlyInstalledIsPublished, PublishedInOrder
<1>3. \A t \in Threads : Flight(t)
  BY DEF Init, Flight
<1>4. Counted
  BY DEF Init, Counted
<1> QED
  BY <1>1, <1>2, <1>3, <1>4 DEF GilInv

LEMMA OneHolderStep ==
  ASSUME HasGIL, Base, GilInv, [Next]_vars
  PROVE  OneHolder'
<1> USE ConstantsAssumption DEF Base, TypeOK, GilInv, OneHolder, Holding, Attached, Goto
<1>1. CASE EditSource
  BY <1>1 DEF EditSource, engineVars, slotVars, localVars, history
<1>2. ASSUME NEW t \in Callers, Reload(t) PROVE OneHolder'
  BY <1>2 DEF Reload, Start, engineVars, slotVars, localVars, history, Threads
<1>3. ASSUME NEW t \in Callers, CommitPrepared(t) PROVE OneHolder'
  BY <1>3 DEF CommitPrepared, Start, engineVars, slotVars, localVars, history,
     Threads
<1>4. ASSUME NEW t \in Callers, Discard(t) PROVE OneHolder'
  BY <1>4 DEF Discard, localVars, engineVars, slotVars, history, Threads
<1>5. ASSUME NEW t \in Callers, Replace(t) PROVE OneHolder'
  BY <1>5 DEF Replace, Start, engineVars, slotVars, localVars, history, Threads
<1>6. ASSUME NEW t \in Callers, NEW o \in {"load", "prepare"}, Load(t, o) PROVE OneHolder'
  BY <1>6 DEF Load, Start, engineVars, slotVars, localVars, history, Threads
<1>7. ASSUME NEW t \in Watchers, Watch(t) PROVE OneHolder'
  BY <1>7 DEF Watch, Start, engineVars, slotVars, localVars, history, Threads
<1>8. ASSUME NEW t \in Threads, Enter(t) PROVE OneHolder'
  BY <1>8 DEF Enter, engineVars, slotVars, localVars, history
<1>9. ASSUME NEW t \in Threads, Refuse(t) PROVE OneHolder'
  BY <1>9 DEF Refuse, Finish, engineVars, slotVars, localVars, history
<1>10. ASSUME NEW t \in Threads, Stamp(t) PROVE OneHolder'
  BY <1>10 DEF Stamp, engineVars, slotVars, localVars, history
<1>11. ASSUME NEW t \in Threads, Fill(t) PROVE OneHolder'
  BY <1>11, AfterFillIs DEF Fill, engineVars, slotVars, localVars, history
<1>12. ASSUME NEW t \in Threads, InstallFirst(t) PROVE OneHolder'
  BY <1>12 DEF InstallFirst, engineVars, slotVars, localVars, history
<1>13. ASSUME NEW t \in Threads, InstallNext(t) PROVE OneHolder'
  BY <1>13 DEF InstallNext, engineVars, slotVars, localVars, history
<1>14. ASSUME NEW t \in Threads, ReadInstalled(t) PROVE OneHolder'
  BY <1>14 DEF ReadInstalled, engineVars, slotVars, localVars, history
<1>15. ASSUME NEW t \in Threads, CommitAlready(t) PROVE OneHolder'
  BY <1>15 DEF CommitAlready, Finish, StagedFor, engineVars, slotVars, localVars,
     history
<1>16. ASSUME NEW t \in Threads, CommitClaim(t) PROVE OneHolder'
  BY <1>16 DEF CommitClaim, StagedFor, engineVars, slotVars, localVars, history
<1>17. ASSUME NEW t \in Threads, CommitMismatch(t) PROVE OneHolder'
  BY <1>17 DEF CommitMismatch, engineVars, slotVars, localVars, history
<1>18. ASSUME NEW t \in Threads, Take(t) PROVE OneHolder'
  BY <1>18 DEF Take, engineVars, slotVars, localVars, history
<1>19. ASSUME NEW t \in Threads, Raise(t) PROVE OneHolder'
  BY <1>19 DEF Raise, engineVars, slotVars, localVars, history
<1>20. ASSUME NEW t \in Threads, WriteCache(t) PROVE OneHolder'
  BY <1>20 DEF WriteCache, engineVars, slotVars, localVars, history
<1>21. ASSUME NEW t \in Threads, Announce(t) PROVE OneHolder'
  BY <1>21 DEF Announce, engineVars, slotVars, localVars, history
<1>22. ASSUME NEW t \in Threads, RunHooks(t) PROVE OneHolder'
  BY <1>22 DEF RunHooks, Finish, engineVars, slotVars, localVars, history
<1>23. ASSUME NEW t \in Threads, LoadMatch(t) PROVE OneHolder'
  BY <1>23 DEF LoadMatch, engineVars, slotVars, localVars, history
<1>24. ASSUME NEW t \in Threads, LoadMismatch(t) PROVE OneHolder'
  BY <1>24 DEF LoadMismatch, engineVars, slotVars, localVars, history
<1>25. ASSUME NEW t \in Threads, LoadAnswer(t) PROVE OneHolder'
  BY <1>25 DEF LoadAnswer, engineVars, slotVars, localVars, history
<1>26. CASE UNCHANGED vars
  BY <1>26 DEF vars, engineVars, slotVars, localVars, history
<1> HIDE DEF Base, TypeOK, GilInv, OneHolder, Holding, Attached, Goto
<1> QED
  BY <1>1, <1>2, <1>3, <1>4, <1>5, <1>6, <1>7, <1>8, <1>9, <1>10, <1>11, <1>12,
     <1>13, <1>14, <1>15, <1>16, <1>17, <1>18, <1>19, <1>20, <1>21, <1>22, <1>23,
     <1>24, <1>25, <1>26
  DEF Next, Call, Work

LEMMA FlightStep ==
  ASSUME HasGIL, Base, GilInv, [Next]_vars, NEW u \in Threads
  PROVE  Flight(u)'
<1> USE ConstantsAssumption DEF Base, TypeOK, Models, GilInv, Flight, Verdict, Control, Accepted, Ledger, Holding, Attached, Goto
<1>1. CASE EditSource
  BY <1>1 DEF EditSource, engineVars, slotVars, localVars, history
<1>2. ASSUME NEW t \in Callers, Reload(t) PROVE Flight(u)'
  BY <1>2 DEF Reload, Start, engineVars, slotVars, localVars, history, Threads
<1>3. ASSUME NEW t \in Callers, CommitPrepared(t) PROVE Flight(u)'
  BY <1>3 DEF CommitPrepared, Start, engineVars, slotVars, localVars, history,
     Threads
<1>4. ASSUME NEW t \in Callers, Discard(t) PROVE Flight(u)'
  BY <1>4 DEF Discard, localVars, engineVars, slotVars, history, Threads
<1>5. ASSUME NEW t \in Callers, Replace(t) PROVE Flight(u)'
  BY <1>5 DEF Replace, Start, engineVars, slotVars, localVars, history, Threads
<1>6. ASSUME NEW t \in Callers, NEW o \in {"load", "prepare"}, Load(t, o) PROVE Flight(u)'
  BY <1>6 DEF Load, Start, engineVars, slotVars, localVars, history, Threads
<1>7. ASSUME NEW t \in Watchers, Watch(t) PROVE Flight(u)'
  BY <1>7 DEF Watch, Start, engineVars, slotVars, localVars, history, Threads
<1>8. ASSUME NEW t \in Threads, Enter(t) PROVE Flight(u)'
  BY <1>8 DEF Enter, engineVars, slotVars, localVars, history
<1>9. ASSUME NEW t \in Threads, Refuse(t) PROVE Flight(u)'
  BY <1>9 DEF Refuse, Finish, engineVars, slotVars, localVars, history
<1>10. ASSUME NEW t \in Threads, Stamp(t) PROVE Flight(u)'
  BY <1>10 DEF Stamp, engineVars, slotVars, localVars, history
<1>11. ASSUME NEW t \in Threads, Fill(t) PROVE Flight(u)'
  BY <1>11, AfterFillIs DEF Fill, engineVars, slotVars, localVars, history
<1>12. ASSUME NEW t \in Threads, InstallFirst(t) PROVE Flight(u)'
  BY <1>12 DEF InstallFirst, engineVars, slotVars, localVars, history
<1>13. ASSUME NEW t \in Threads, InstallNext(t) PROVE Flight(u)'
  BY <1>13 DEF InstallNext, engineVars, slotVars, localVars, history
<1>14. ASSUME NEW t \in Threads, ReadInstalled(t) PROVE Flight(u)'
  BY <1>14 DEF ReadInstalled, engineVars, slotVars, localVars, history
<1>15. ASSUME NEW t \in Threads, CommitAlready(t) PROVE Flight(u)'
  BY <1>15 DEF CommitAlready, Finish, StagedFor, engineVars, slotVars, localVars,
     history
<1>16. ASSUME NEW t \in Threads, CommitClaim(t) PROVE Flight(u)'
  BY <1>16, LogTyped DEF CommitClaim, StagedFor, engineVars, slotVars, localVars,
     history
<1>17. ASSUME NEW t \in Threads, CommitMismatch(t) PROVE Flight(u)'
  BY <1>17 DEF CommitMismatch, engineVars, slotVars, localVars, history
<1>18. ASSUME NEW t \in Threads, Take(t) PROVE Flight(u)'
  BY <1>18 DEF Take, engineVars, slotVars, localVars, history
<1>19. ASSUME NEW t \in Threads, Raise(t) PROVE Flight(u)'
  BY <1>19, LogTyped DEF Raise, engineVars, slotVars, localVars, history
<1>20. ASSUME NEW t \in Threads, WriteCache(t) PROVE Flight(u)'
  BY <1>20 DEF WriteCache, engineVars, slotVars, localVars, history
<1>21. ASSUME NEW t \in Threads, Announce(t) PROVE Flight(u)'
  BY <1>21 DEF Announce, engineVars, slotVars, localVars, history
<1>22. ASSUME NEW t \in Threads, RunHooks(t) PROVE Flight(u)'
  BY <1>22 DEF RunHooks, Finish, engineVars, slotVars, localVars, history
<1>23. ASSUME NEW t \in Threads, LoadMatch(t) PROVE Flight(u)'
  BY <1>23 DEF LoadMatch, engineVars, slotVars, localVars, history
<1>24. ASSUME NEW t \in Threads, LoadMismatch(t) PROVE Flight(u)'
  BY <1>24 DEF LoadMismatch, engineVars, slotVars, localVars, history
<1>25. ASSUME NEW t \in Threads, LoadAnswer(t) PROVE Flight(u)'
  BY <1>25 DEF LoadAnswer, engineVars, slotVars, localVars, history
<1>26. CASE UNCHANGED vars
  BY <1>26 DEF vars, engineVars, slotVars, localVars, history
<1> HIDE DEF Base, TypeOK, Models, GilInv, Flight, Verdict, Control, Accepted, Ledger, Holding, Attached, Goto
<1> QED
  BY <1>1, <1>2, <1>3, <1>4, <1>5, <1>6, <1>7, <1>8, <1>9, <1>10, <1>11, <1>12,
     <1>13, <1>14, <1>15, <1>16, <1>17, <1>18, <1>19, <1>20, <1>21, <1>22, <1>23,
     <1>24, <1>25, <1>26
  DEF Next, Call, Work

LEMMA LedgerStep ==
  ASSUME HasGIL, Base, GilInv, [Next]_vars
  PROVE  Ledger'
<1> USE ConstantsAssumption DEF Base, TypeOK, Models, GilInv, Flight, Verdict, Control, Accepted, Ledger, OnlyInstalledIsPublished, PublishedInOrder
<1>1. CASE EditSource
  BY <1>1 DEF EditSource, engineVars, slotVars, localVars, history
<1>2. ASSUME NEW t \in Callers, Reload(t) PROVE Ledger'
  BY <1>2 DEF Reload, Start, engineVars, slotVars, localVars, history, Threads
<1>3. ASSUME NEW t \in Callers, CommitPrepared(t) PROVE Ledger'
  BY <1>3 DEF CommitPrepared, Start, engineVars, slotVars, localVars, history,
     Threads
<1>4. ASSUME NEW t \in Callers, Discard(t) PROVE Ledger'
  BY <1>4 DEF Discard, localVars, engineVars, slotVars, history, Threads
<1>5. ASSUME NEW t \in Callers, Replace(t) PROVE Ledger'
  BY <1>5 DEF Replace, Start, engineVars, slotVars, localVars, history, Threads
<1>6. ASSUME NEW t \in Callers, NEW o \in {"load", "prepare"}, Load(t, o) PROVE Ledger'
  BY <1>6 DEF Load, Start, engineVars, slotVars, localVars, history, Threads
<1>7. ASSUME NEW t \in Watchers, Watch(t) PROVE Ledger'
  BY <1>7 DEF Watch, Start, engineVars, slotVars, localVars, history, Threads
<1>8. ASSUME NEW t \in Threads, Enter(t) PROVE Ledger'
  BY <1>8 DEF Enter, engineVars, slotVars, localVars, history
<1>9. ASSUME NEW t \in Threads, Refuse(t) PROVE Ledger'
  BY <1>9 DEF Refuse, Finish, engineVars, slotVars, localVars, history
<1>10. ASSUME NEW t \in Threads, Stamp(t) PROVE Ledger'
  BY <1>10 DEF Stamp, engineVars, slotVars, localVars, history
<1>11. ASSUME NEW t \in Threads, Fill(t) PROVE Ledger'
  BY <1>11, AfterFillIs DEF Fill, engineVars, slotVars, localVars, history
<1>12. ASSUME NEW t \in Threads, InstallFirst(t) PROVE Ledger'
  BY <1>12 DEF InstallFirst, engineVars, slotVars, localVars, history
<1>13. ASSUME NEW t \in Threads, InstallNext(t) PROVE Ledger'
  BY <1>13 DEF InstallNext, engineVars, slotVars, localVars, history
<1>14. ASSUME NEW t \in Threads, ReadInstalled(t) PROVE Ledger'
  BY <1>14 DEF ReadInstalled, engineVars, slotVars, localVars, history
<1>15. ASSUME NEW t \in Threads, CommitAlready(t) PROVE Ledger'
  BY <1>15 DEF CommitAlready, Finish, StagedFor, engineVars, slotVars, localVars,
     history
<1>16. ASSUME NEW t \in Threads, CommitClaim(t) PROVE Ledger'
  BY <1>16, LogTyped DEF CommitClaim, StagedFor, engineVars, slotVars, localVars,
     history
<1>17. ASSUME NEW t \in Threads, CommitMismatch(t) PROVE Ledger'
  BY <1>17 DEF CommitMismatch, engineVars, slotVars, localVars, history
<1>18. ASSUME NEW t \in Threads, Take(t) PROVE Ledger'
  BY <1>18 DEF Take, engineVars, slotVars, localVars, history
<1>19. ASSUME NEW t \in Threads, Raise(t) PROVE Ledger'
  BY <1>19, LogTyped DEF Raise, engineVars, slotVars, localVars, history
<1>20. ASSUME NEW t \in Threads, WriteCache(t) PROVE Ledger'
  BY <1>20 DEF WriteCache, engineVars, slotVars, localVars, history
<1>21. ASSUME NEW t \in Threads, Announce(t) PROVE Ledger'
  BY <1>21 DEF Announce, engineVars, slotVars, localVars, history
<1>22. ASSUME NEW t \in Threads, RunHooks(t) PROVE Ledger'
  BY <1>22 DEF RunHooks, Finish, engineVars, slotVars, localVars, history
<1>23. ASSUME NEW t \in Threads, LoadMatch(t) PROVE Ledger'
  BY <1>23 DEF LoadMatch, engineVars, slotVars, localVars, history
<1>24. ASSUME NEW t \in Threads, LoadMismatch(t) PROVE Ledger'
  BY <1>24 DEF LoadMismatch, engineVars, slotVars, localVars, history
<1>25. ASSUME NEW t \in Threads, LoadAnswer(t) PROVE Ledger'
  BY <1>25 DEF LoadAnswer, engineVars, slotVars, localVars, history
<1>26. CASE UNCHANGED vars
  BY <1>26 DEF vars, engineVars, slotVars, localVars, history
<1> HIDE DEF Base, TypeOK, Models, GilInv, Flight, Verdict, Control, Accepted, Ledger, OnlyInstalledIsPublished, PublishedInOrder
<1> QED
  BY <1>1, <1>2, <1>3, <1>4, <1>5, <1>6, <1>7, <1>8, <1>9, <1>10, <1>11, <1>12,
     <1>13, <1>14, <1>15, <1>16, <1>17, <1>18, <1>19, <1>20, <1>21, <1>22, <1>23,
     <1>24, <1>25, <1>26
  DEF Next, Call, Work

\* One thread at most is between the write and the announcement, so the count of
\* those threads is the one by which the generation lags.
LEMMA CountedStep ==
  ASSUME Base, Backed, OneHolder', [Next]_vars
  PROVE  Counted'
<1>1. Len(log') = generation' + Cardinality(Announcing')
  BY BackedStep DEF Backed
<1>2. Len(log') \in Nat /\ generation' \in Nat
  BY TypeStep DEF TypeOK
<1>3. CASE \E t \in Threads : pc'[t] = "announce"
  <2>1. PICK t \in Threads : pc'[t] = "announce"
    BY <1>3
  <2>2. Announcing' = {t}
    BY <2>1 DEF OneHolder, Holding, Announcing
  <2>3. Cardinality(Announcing') = 1
    BY <2>2, FS_Singleton
  <2> QED
    BY <1>1, <1>3, <2>3 DEF Counted
<1>4. CASE ~\E t \in Threads : pc'[t] = "announce"
  <2>1. Announcing' = {}
    BY <1>4 DEF Announcing
  <2>2. Cardinality(Announcing') = 0
    BY <2>1, FS_EmptySet
  <2>3. Len(log') = generation'
    <3>1. \A n, g \in Nat : n = g + 0 => n = g
      OBVIOUS
    <3> QED
      BY <1>1, <1>2, <2>2, <3>1, Zenon
  <2> QED
    BY <1>4, <2>3 DEF Counted
<1> QED
  BY <1>3, <1>4

THEOREM GilInvariant == ASSUME HasGIL PROVE Spec => []GilInv
<1>1. Base /\ Backed /\ GilInv /\ [Next]_vars => GilInv'
  BY OneHolderStep, FlightStep, LedgerStep, CountedStep DEF GilInv
<1> QED
  BY BaseInvariant, BackedInvariant, GilInit, <1>1, PTL DEF Spec

\* Under the GIL commit never publishes the model of another tree.
THEOREM RightModelThm == ASSUME HasGIL PROVE Spec => []RightModel
<1>1. GilInv => RightModel
  BY DEF GilInv, Flight, RightModel
<1> QED
  BY GilInvariant, <1>1, PTL

\* Under the GIL validations reach the readers in the order of their stamps, each
\* at most once.
THEOREM PublishedInOrderThm == ASSUME HasGIL PROVE Spec => []PublishedInOrder
<1>1. GilInv => PublishedInOrder
  BY DEF GilInv, Ledger
<1> QED
  BY GilInvariant, <1>1, PTL

\* Under the GIL readers are never given a candidate nothing installed.
THEOREM OnlyInstalledThm == ASSUME HasGIL PROVE Spec => []OnlyInstalledIsPublished
<1>1. GilInv => OnlyInstalledIsPublished
  BY DEF GilInv, Ledger
<1> QED
  BY GilInvariant, <1>1, PTL

\* What LoadAnswersItsOwn says of one step of one caller.
OwnAnswer(u) == op[u] = "load" /\ pc[u] \in {"compare", "answer"} /\ pc'[u] = "idle"
                    => model'[u].tree = tree[u]

LEMMA OwnAnswerStep ==
  ASSUME HasGIL, Base, GilInv, [Next]_vars, NEW u \in Callers
  PROVE  OwnAnswer(u)
<1> USE ConstantsAssumption DEF Base, TypeOK, Models, GilInv, Flight, OwnAnswer, Control, Goto, Threads
<1>1. CASE EditSource
  BY <1>1 DEF EditSource, localVars, history
<1>2. ASSUME NEW t \in Callers, Reload(t) PROVE OwnAnswer(u)
  BY <1>2 DEF Reload, Start, localVars, history, Threads
<1>3. ASSUME NEW t \in Callers, CommitPrepared(t) PROVE OwnAnswer(u)
  BY <1>3 DEF CommitPrepared, Start, localVars, history, Threads
<1>4. ASSUME NEW t \in Callers, Discard(t) PROVE OwnAnswer(u)
  BY <1>4 DEF Discard, localVars, history, Threads
<1>5. ASSUME NEW t \in Callers, Replace(t) PROVE OwnAnswer(u)
  BY <1>5 DEF Replace, Start, localVars, history, Threads
<1>6. ASSUME NEW t \in Callers, NEW o \in {"load", "prepare"}, Load(t, o) PROVE OwnAnswer(u)
  BY <1>6 DEF Load, Start, localVars, history, Threads
<1>7. ASSUME NEW t \in Watchers, Watch(t) PROVE OwnAnswer(u)
  BY <1>7 DEF Watch, Start, localVars, history, Threads
<1>8. ASSUME NEW t \in Threads, Enter(t) PROVE OwnAnswer(u)
  BY <1>8 DEF Enter, localVars, history
<1>9. ASSUME NEW t \in Threads, Refuse(t) PROVE OwnAnswer(u)
  BY <1>9 DEF Refuse, Finish, localVars, history
<1>10. ASSUME NEW t \in Threads, Stamp(t) PROVE OwnAnswer(u)
  BY <1>10 DEF Stamp, localVars, history
<1>11. ASSUME NEW t \in Threads, Fill(t) PROVE OwnAnswer(u)
  BY <1>11, AfterFillIs DEF Fill, localVars, history
<1>12. ASSUME NEW t \in Threads, InstallFirst(t) PROVE OwnAnswer(u)
  BY <1>12 DEF InstallFirst, localVars, history
<1>13. ASSUME NEW t \in Threads, InstallNext(t) PROVE OwnAnswer(u)
  BY <1>13 DEF InstallNext, localVars, history
<1>14. ASSUME NEW t \in Threads, ReadInstalled(t) PROVE OwnAnswer(u)
  BY <1>14 DEF ReadInstalled, localVars, history
<1>15. ASSUME NEW t \in Threads, CommitAlready(t) PROVE OwnAnswer(u)
  BY <1>15 DEF CommitAlready, Finish, localVars, history
<1>16. ASSUME NEW t \in Threads, CommitClaim(t) PROVE OwnAnswer(u)
  BY <1>16 DEF CommitClaim, localVars, history
<1>17. ASSUME NEW t \in Threads, CommitMismatch(t) PROVE OwnAnswer(u)
  BY <1>17 DEF CommitMismatch, localVars, history
<1>18. ASSUME NEW t \in Threads, Take(t) PROVE OwnAnswer(u)
  BY <1>18 DEF Take, localVars, history
<1>19. ASSUME NEW t \in Threads, Raise(t) PROVE OwnAnswer(u)
  BY <1>19 DEF Raise, localVars, history
<1>20. ASSUME NEW t \in Threads, WriteCache(t) PROVE OwnAnswer(u)
  BY <1>20 DEF WriteCache, localVars, history
<1>21. ASSUME NEW t \in Threads, Announce(t) PROVE OwnAnswer(u)
  BY <1>21 DEF Announce, localVars, history
<1>22. ASSUME NEW t \in Threads, RunHooks(t) PROVE OwnAnswer(u)
  BY <1>22 DEF RunHooks, Finish, localVars, history
<1>23. ASSUME NEW t \in Threads, LoadMatch(t) PROVE OwnAnswer(u)
  BY <1>23 DEF LoadMatch, StagedFor, localVars, history
<1>24. ASSUME NEW t \in Threads, LoadMismatch(t) PROVE OwnAnswer(u)
  BY <1>24 DEF LoadMismatch, localVars, history
<1>25. ASSUME NEW t \in Threads, LoadAnswer(t) PROVE OwnAnswer(u)
  BY <1>25 DEF LoadAnswer, localVars, history
<1>26. CASE UNCHANGED vars
  BY <1>26 DEF vars, localVars, history
<1> HIDE DEF Base, TypeOK, Models, GilInv, Flight, OwnAnswer, Control, Goto, Threads
<1> QED
  BY <1>1, <1>2, <1>3, <1>4, <1>5, <1>6, <1>7, <1>8, <1>9, <1>10, <1>11, <1>12,
     <1>13, <1>14, <1>15, <1>16, <1>17, <1>18, <1>19, <1>20, <1>21, <1>22, <1>23,
     <1>24, <1>25, <1>26
  DEF Next, Call, Work

\* Under the GIL load() answers with the candidate of its own call.
THEOREM LoadAnswersItsOwnThm == ASSUME HasGIL PROVE Spec => LoadAnswersItsOwn
<1> DEFINE Own == \A t \in Callers : OwnAnswer(t)
<1>1. Base /\ GilInv /\ [Next]_vars => [Own]_vars
  BY OwnAnswerStep
<1>2. LoadAnswersItsOwn <=> [][Own]_vars
  BY DEF LoadAnswersItsOwn, OwnAnswer
<1> HIDE DEF Own
<1> QED
  BY BaseInvariant, GilInvariant, <1>1, <1>2, PTL DEF Spec

-----------------------------------------------------------------------------
(* Refinement.                                                              *)

LEMMA StampValidates ==
  ASSUME NEW t \in Threads, Stamp(t)
  PROVE  Abstract!Validate
  BY DEF Stamp, outVars, history, Abstract!Validate

LEMMA WriteShows ==
  ASSUME HasGIL, Base, GilInv, NEW t \in Threads, WriteCache(t)
  PROVE  Abstract!Show(model[t])
<1>1. pc[t] = "write" /\ Attached(t)
  BY DEF WriteCache
<1>2. ~ \E u \in Threads : pc[u] = "announce"
  BY <1>1 DEF Attached, Holding
<1>3. generation = Len(log)
  BY <1>2 DEF GilInv, Counted
<1> QED
  BY <1>3 DEF WriteCache, slotVars, Abstract!Show

LEMMA WritesPublishable ==
  ASSUME Base, GilInv, NEW t \in Threads, WriteCache(t)
  PROVE  model[t] \in Abstract!Publishable
<1>1. pc[t] = "write" /\ model[t] \in Models
  BY DEF WriteCache, Base, TypeOK, Verdict
<1>2. CASE op[t] = "replace"
  BY <1>1, <1>2 DEF GilInv, Flight, Abstract!Publishable
<1>3. CASE op[t] # "replace"
  <2>1. model[t].tree \in Trees
    BY <1>1, <1>3 DEF GilInv, Flight, Base, Control, TypeOK, Ledger
  <2>2. model[t].seq \in 1..next_sequence
    BY <1>1, <1>3 DEF GilInv, Flight, Ledger, Base, TypeOK
  <2>3. \A i \in 1..Len(log) : log[i].seq < model[t].seq
    BY <1>1, <1>3 DEF GilInv, Flight
  <2> QED
    BY <1>1, <2>1, <2>2, <2>3 DEF Models, Abstract!Publishable
<1> QED
  BY <1>2, <1>3

LEMMA AnnounceAnnounces ==
  ASSUME HasGIL, Base, GilInv, NEW t \in Threads, Announce(t)
  PROVE  Abstract!Announce
<1>1. Len(log) = generation + 1
  BY DEF Announce, GilInv, Counted
<1> QED
  BY <1>1 DEF Announce, Base, TypeOK, slotVars, history, Abstract!Announce

abstractVars == <<next_sequence, log, generation>>

\* Every step maps to a step of the log of publications, or to a stutter.
LEMMA StepRefines ==
  ASSUME HasGIL, Base, GilInv, [Next]_vars
  PROVE  [Abstract!Next]_abstractVars
<1> USE DEF abstractVars
<1>1. ASSUME NEW t \in Threads, Stamp(t) PROVE Abstract!Next
  BY <1>1, StampValidates DEF Abstract!Next
<1>2. ASSUME NEW t \in Threads, WriteCache(t) PROVE Abstract!Next
  BY <1>2, WriteShows, WritesPublishable DEF Abstract!Next
<1>3. ASSUME NEW t \in Threads, Announce(t) PROVE Abstract!Next
  BY <1>3, AnnounceAnnounces DEF Abstract!Next
<1>4. CASE EditSource
  BY <1>4 DEF EditSource, slotVars, outVars, history
<1>5. ASSUME NEW t \in Callers, Call(t) PROVE UNCHANGED abstractVars
  BY <1>5 DEF Call, Reload, CommitPrepared, Discard, Replace, Load, Overlap, Start,
     slotVars, outVars, history
<1>6. ASSUME NEW t \in Watchers, Watch(t) PROVE UNCHANGED abstractVars
  BY <1>6 DEF Watch, slotVars, outVars
<1>7. ASSUME NEW t \in Threads,
             Enter(t) \/ Refuse(t) \/ Fill(t) \/ InstallFirst(t) \/ InstallNext(t)
               \/ ReadInstalled(t)
      PROVE  UNCHANGED abstractVars
  BY <1>7 DEF Enter, Refuse, Fill, InstallFirst, InstallNext, ReadInstalled, slotVars,
     outVars, history
<1>8. ASSUME NEW t \in Threads,
             CommitAlready(t) \/ CommitClaim(t) \/ CommitMismatch(t) \/ Take(t)
               \/ Raise(t) \/ RunHooks(t)
      PROVE  UNCHANGED abstractVars
  BY <1>8 DEF CommitAlready, CommitClaim, CommitMismatch, Take, Raise, RunHooks,
     slotVars, outVars, history
<1>9. ASSUME NEW t \in Threads, LoadMatch(t) \/ LoadMismatch(t) \/ LoadAnswer(t)
      PROVE  UNCHANGED abstractVars
  BY <1>9 DEF LoadMatch, LoadMismatch, LoadAnswer, slotVars, outVars, history
<1>10. CASE UNCHANGED vars
  BY <1>10 DEF vars, slotVars, outVars, history
<1> QED
  BY <1>1, <1>2, <1>3, <1>4, <1>5, <1>6, <1>7, <1>8, <1>9, <1>10 DEF Next, Work

\* Under the GIL publishing is a log of publications: validations numbered as
\* they succeed, one model at a time shown to the readers, each validation at
\* most once and in order, and a generation that counts exactly those.
THEOREM Refinement == ASSUME HasGIL PROVE Spec => ImplementsLog
<1>1. Init => Abstract!Init
  BY DEF Init, Abstract!Init
<1>2. Base /\ GilInv /\ [Next]_vars => [Abstract!Next]_abstractVars
  BY StepRefines
<1> QED
  BY BaseInvariant, GilInvariant, <1>1, <1>2, PTL
  DEF Spec, ImplementsLog, Abstract!Spec, abstractVars

-----------------------------------------------------------------------------
(* Installs that do not overlap.                                            *)

\* A thread is between the start and the end of an installing operation.
AtWork(t) == pc[t] # "idle" /\ op[t] \in Installing

\* Only installing operations commit; only load() compares.
Part(t) ==
    pc[t] # "idle" =>
        IF op[t] \in Installing
        THEN path[t] # "load" /\ pc[t] \notin {"compare", "answer"}
        ELSE /\ path[t] \in {"engine", "load"}
             /\ pc[t] \in {"validate", "fill", "compare", "answer"}

\* From the claim to the write a thread's model is the one in the slot.
Claimed(t) == pc[t] = "write" /\ op[t] # "replace"
Claims(t) == pc[t] = "raise" \/ Claimed(t) => model[t] = staged

\* Between writes the cache has what was claimed last, where it is still staged.
Slot ==
    /\ staged # None => last_committed <= staged.seq
    /\ /\ staged # None /\ staged.seq = last_committed
       /\ cache # None /\ cache.seq # 0
       /\ \A t \in Threads : ~Claimed(t)
       => cache.tree = staged.tree

Served ==
    /\ cached = cache
    /\ cache # None /\ cache.seq # 0 => cache.tree = installed

\* An installing operation on its way, from what was served before it to what
\* it leaves.
Course(t) ==
    /\ pc[t] \in {"announce", "hooks"} => cache = model[t]
    /\ pc[t] \notin {"announce", "hooks"} => cached = cache
    /\ path[t] \in {"hook", "publish"} /\ pc[t] # "read" => tree[t] = installed
    /\ path[t] = "engine" /\ pc[t] # "read" => Served

One == \A t, u \in Threads : AtWork(t) /\ AtWork(u) => t = u

Lone ==
    /\ One
    /\ \A t \in Threads : AtWork(t) => Course(t)
    /\ (\A t \in Threads : ~AtWork(t)) => Served

LoneInv ==
    /\ \A t \in Threads : Part(t) /\ Claims(t)
    /\ Slot
    /\ ~overlapped => Lone

LEMMA PartStep ==
  ASSUME HasGIL, Base, GilInv, LoneInv, [Next]_vars, NEW u \in Threads
  PROVE  Part(u)'
<1> USE ConstantsAssumption DEF Base, TypeOK, Control, LoneInv, Part, Installing,
  Goto
<1>1. CASE EditSource
  BY <1>1 DEF EditSource, engineVars, slotVars, outVars, localVars, history
<1>2. ASSUME NEW t \in Callers, Reload(t) PROVE Part(u)'
  BY <1>2 DEF Reload, Start, Overlap, Threads, engineVars, slotVars, outVars,
    localVars, history
<1>3. ASSUME NEW t \in Callers, CommitPrepared(t) PROVE Part(u)'
  BY <1>3 DEF CommitPrepared, Start, Overlap, Threads, engineVars, slotVars,
    outVars, localVars, history
<1>4. ASSUME NEW t \in Callers, Discard(t) PROVE Part(u)'
  BY <1>4 DEF Discard, Threads, engineVars, slotVars, outVars, localVars, history
<1>5. ASSUME NEW t \in Callers, Replace(t) PROVE Part(u)'
  BY <1>5 DEF Replace, Start, Overlap, Threads, engineVars, slotVars, outVars,
    localVars, history
<1>6. ASSUME NEW t \in Callers, NEW o \in {"load", "prepare"}, Load(t, o)
      PROVE Part(u)'
  BY <1>6 DEF Load, Start, Threads, engineVars, slotVars, outVars, localVars,
    history
<1>7. ASSUME NEW t \in Watchers, Watch(t) PROVE Part(u)'
  BY <1>7 DEF Watch, Start, Overlap, Threads, engineVars, slotVars, outVars,
    localVars, history
<1>8. ASSUME NEW t \in Threads, Enter(t) PROVE Part(u)'
  BY <1>8 DEF Enter, engineVars, slotVars, outVars, localVars, history
<1>9. ASSUME NEW t \in Threads, Refuse(t) PROVE Part(u)'
  BY <1>9 DEF Refuse, Finish, engineVars, slotVars, outVars, localVars, history
<1>10. ASSUME NEW t \in Threads, Stamp(t) PROVE Part(u)'
  BY <1>10 DEF Stamp, engineVars, slotVars, outVars, localVars, history
<1>11. ASSUME NEW t \in Threads, Fill(t) PROVE Part(u)'
  BY <1>11, AfterFillIs DEF Fill, engineVars, slotVars, outVars, localVars, history
<1>12. ASSUME NEW t \in Threads, InstallFirst(t) PROVE Part(u)'
  BY <1>12 DEF InstallFirst, engineVars, slotVars, outVars, localVars, history
<1>13. ASSUME NEW t \in Threads, InstallNext(t) PROVE Part(u)'
  BY <1>13 DEF InstallNext, engineVars, slotVars, outVars, localVars, history
<1>14. ASSUME NEW t \in Threads, ReadInstalled(t) PROVE Part(u)'
  BY <1>14 DEF ReadInstalled, engineVars, slotVars, outVars, localVars, history
<1>15. ASSUME NEW t \in Threads, CommitAlready(t) PROVE Part(u)'
  BY <1>15 DEF CommitAlready, Finish, StagedFor, engineVars, slotVars, outVars,
    localVars, history
<1>16. ASSUME NEW t \in Threads, CommitClaim(t) PROVE Part(u)'
  BY <1>16 DEF CommitClaim, StagedFor, engineVars, slotVars, outVars, localVars,
    history
<1>17. ASSUME NEW t \in Threads, CommitMismatch(t) PROVE Part(u)'
  BY <1>17 DEF CommitMismatch, engineVars, slotVars, outVars, localVars, history
<1>18. ASSUME NEW t \in Threads, Take(t) PROVE Part(u)'
  BY <1>18 DEF Take, engineVars, slotVars, outVars, localVars, history
<1>19. ASSUME NEW t \in Threads, Raise(t) PROVE Part(u)'
  BY <1>19 DEF Raise, engineVars, slotVars, outVars, localVars, history
<1>20. ASSUME NEW t \in Threads, WriteCache(t) PROVE Part(u)'
  BY <1>20 DEF WriteCache, engineVars, slotVars, outVars, localVars, history
<1>21. ASSUME NEW t \in Threads, Announce(t) PROVE Part(u)'
  BY <1>21 DEF Announce, engineVars, slotVars, outVars, localVars, history
<1>22. ASSUME NEW t \in Threads, RunHooks(t) PROVE Part(u)'
  BY <1>22 DEF RunHooks, Finish, engineVars, slotVars, outVars, localVars, history
<1>23. ASSUME NEW t \in Threads, LoadMatch(t) PROVE Part(u)'
  BY <1>23 DEF LoadMatch, engineVars, slotVars, outVars, localVars, history
<1>24. ASSUME NEW t \in Threads, LoadMismatch(t) PROVE Part(u)'
  BY <1>24 DEF LoadMismatch, engineVars, slotVars, outVars, localVars, history
<1>25. ASSUME NEW t \in Threads, LoadAnswer(t) PROVE Part(u)'
  BY <1>25 DEF LoadAnswer, engineVars, slotVars, outVars, localVars, history
<1>26. CASE UNCHANGED vars
  BY <1>26 DEF vars, engineVars, slotVars, outVars, localVars, history
<1> HIDE DEF Base, TypeOK, Control, LoneInv, Part, Installing, Goto
<1> QED
  BY <1>1, <1>2, <1>3, <1>4, <1>5, <1>6, <1>7, <1>8, <1>9, <1>10, <1>11, <1>12,
    <1>13, <1>14, <1>15, <1>16, <1>17, <1>18, <1>19, <1>20, <1>21, <1>22, <1>23,
      <1>24, <1>25, <1>26
  DEF Next, Call, Work

LEMMA ClaimsStep ==
  ASSUME HasGIL, Base, GilInv, LoneInv, [Next]_vars, NEW u \in Threads
  PROVE  Claims(u)'
<1> USE ConstantsAssumption DEF Base, TypeOK, Control, Verdict, GilInv, Holding,
  Attached, LoneInv, Claims, Claimed, Goto
<1>1. CASE EditSource
  BY <1>1 DEF EditSource, engineVars, slotVars, outVars, localVars, history
<1>2. ASSUME NEW t \in Callers, Reload(t) PROVE Claims(u)'
  BY <1>2 DEF Reload, Start, Overlap, Threads, engineVars, slotVars, outVars,
    localVars, history
<1>3. ASSUME NEW t \in Callers, CommitPrepared(t) PROVE Claims(u)'
  BY <1>3 DEF CommitPrepared, Start, Overlap, Threads, engineVars, slotVars,
    outVars, localVars, history
<1>4. ASSUME NEW t \in Callers, Discard(t) PROVE Claims(u)'
  BY <1>4 DEF Discard, Threads, engineVars, slotVars, outVars, localVars, history
<1>5. ASSUME NEW t \in Callers, Replace(t) PROVE Claims(u)'
  BY <1>5 DEF Replace, Start, Overlap, Threads, engineVars, slotVars, outVars,
    localVars, history
<1>6. ASSUME NEW t \in Callers, NEW o \in {"load", "prepare"}, Load(t, o)
      PROVE Claims(u)'
  BY <1>6 DEF Load, Start, Threads, engineVars, slotVars, outVars, localVars,
    history
<1>7. ASSUME NEW t \in Watchers, Watch(t) PROVE Claims(u)'
  BY <1>7 DEF Watch, Start, Overlap, Threads, engineVars, slotVars, outVars,
    localVars, history
<1>8. ASSUME NEW t \in Threads, Enter(t) PROVE Claims(u)'
  BY <1>8 DEF Enter, engineVars, slotVars, outVars, localVars, history
<1>9. ASSUME NEW t \in Threads, Refuse(t) PROVE Claims(u)'
  BY <1>9 DEF Refuse, Finish, engineVars, slotVars, outVars, localVars, history
<1>10. ASSUME NEW t \in Threads, Stamp(t) PROVE Claims(u)'
  BY <1>10 DEF Stamp, engineVars, slotVars, outVars, localVars, history
<1>11. ASSUME NEW t \in Threads, Fill(t) PROVE Claims(u)'
  BY <1>11, AfterFillIs DEF Fill, engineVars, slotVars, outVars, localVars, history
<1>12. ASSUME NEW t \in Threads, InstallFirst(t) PROVE Claims(u)'
  BY <1>12 DEF InstallFirst, engineVars, slotVars, outVars, localVars, history
<1>13. ASSUME NEW t \in Threads, InstallNext(t) PROVE Claims(u)'
  BY <1>13 DEF InstallNext, engineVars, slotVars, outVars, localVars, history
<1>14. ASSUME NEW t \in Threads, ReadInstalled(t) PROVE Claims(u)'
  BY <1>14 DEF ReadInstalled, engineVars, slotVars, outVars, localVars, history
<1>15. ASSUME NEW t \in Threads, CommitAlready(t) PROVE Claims(u)'
  BY <1>15 DEF CommitAlready, Finish, StagedFor, engineVars, slotVars, outVars,
    localVars, history
<1>16. ASSUME NEW t \in Threads, CommitClaim(t) PROVE Claims(u)'
  BY <1>16 DEF CommitClaim, StagedFor, engineVars, slotVars, outVars, localVars,
    history
<1>17. ASSUME NEW t \in Threads, CommitMismatch(t) PROVE Claims(u)'
  BY <1>17 DEF CommitMismatch, engineVars, slotVars, outVars, localVars, history
<1>18. ASSUME NEW t \in Threads, Take(t) PROVE Claims(u)'
  BY <1>18 DEF Take, engineVars, slotVars, outVars, localVars, history
<1>19. ASSUME NEW t \in Threads, Raise(t) PROVE Claims(u)'
  BY <1>19 DEF Raise, engineVars, slotVars, outVars, localVars, history
<1>20. ASSUME NEW t \in Threads, WriteCache(t) PROVE Claims(u)'
  BY <1>20 DEF WriteCache, engineVars, slotVars, outVars, localVars, history
<1>21. ASSUME NEW t \in Threads, Announce(t) PROVE Claims(u)'
  BY <1>21 DEF Announce, engineVars, slotVars, outVars, localVars, history
<1>22. ASSUME NEW t \in Threads, RunHooks(t) PROVE Claims(u)'
  BY <1>22 DEF RunHooks, Finish, engineVars, slotVars, outVars, localVars, history
<1>23. ASSUME NEW t \in Threads, LoadMatch(t) PROVE Claims(u)'
  BY <1>23 DEF LoadMatch, engineVars, slotVars, outVars, localVars, history
<1>24. ASSUME NEW t \in Threads, LoadMismatch(t) PROVE Claims(u)'
  BY <1>24 DEF LoadMismatch, engineVars, slotVars, outVars, localVars, history
<1>25. ASSUME NEW t \in Threads, LoadAnswer(t) PROVE Claims(u)'
  BY <1>25 DEF LoadAnswer, engineVars, slotVars, outVars, localVars, history
<1>26. CASE UNCHANGED vars
  BY <1>26 DEF vars, engineVars, slotVars, outVars, localVars, history
<1> HIDE DEF Base, TypeOK, Control, Verdict, GilInv, Holding, Attached, LoneInv,
  Claims, Claimed, Goto
<1> QED
  BY <1>1, <1>2, <1>3, <1>4, <1>5, <1>6, <1>7, <1>8, <1>9, <1>10, <1>11, <1>12,
    <1>13, <1>14, <1>15, <1>16, <1>17, <1>18, <1>19, <1>20, <1>21, <1>22, <1>23,
      <1>24, <1>25, <1>26
  DEF Next, Call, Work

LEMMA SlotStep ==
  ASSUME HasGIL, Base, GilInv, LoneInv, [Next]_vars
  PROVE  Slot'
<1> USE ConstantsAssumption DEF Base, TypeOK, Models, Control, Verdict, GilInv,
  Ledger, Flight, Holding, Attached, LoneInv, Claims, Claimed, Slot, Goto
<1>1. CASE EditSource
  BY <1>1 DEF EditSource, engineVars, slotVars, outVars, localVars, history
<1>2. ASSUME NEW t \in Callers, Reload(t) PROVE Slot'
  BY <1>2 DEF Reload, Start, Overlap, Threads, engineVars, slotVars, outVars,
    localVars, history
<1>3. ASSUME NEW t \in Callers, CommitPrepared(t) PROVE Slot'
  BY <1>3 DEF CommitPrepared, Start, Overlap, Threads, engineVars, slotVars,
    outVars, localVars, history
<1>4. ASSUME NEW t \in Callers, Discard(t) PROVE Slot'
  BY <1>4 DEF Discard, Threads, engineVars, slotVars, outVars, localVars, history
<1>5. ASSUME NEW t \in Callers, Replace(t) PROVE Slot'
  BY <1>5 DEF Replace, Start, Overlap, Threads, engineVars, slotVars, outVars,
    localVars, history
<1>6. ASSUME NEW t \in Callers, NEW o \in {"load", "prepare"}, Load(t, o)
      PROVE Slot'
  BY <1>6 DEF Load, Start, Threads, engineVars, slotVars, outVars, localVars,
    history
<1>7. ASSUME NEW t \in Watchers, Watch(t) PROVE Slot'
  BY <1>7 DEF Watch, Start, Overlap, Threads, engineVars, slotVars, outVars,
    localVars, history
<1>8. ASSUME NEW t \in Threads, Enter(t) PROVE Slot'
  BY <1>8 DEF Enter, engineVars, slotVars, outVars, localVars, history
<1>9. ASSUME NEW t \in Threads, Refuse(t) PROVE Slot'
  BY <1>9 DEF Refuse, Finish, engineVars, slotVars, outVars, localVars, history
<1>10. ASSUME NEW t \in Threads, Stamp(t) PROVE Slot'
  BY <1>10 DEF Stamp, engineVars, slotVars, outVars, localVars, history
<1>11. ASSUME NEW t \in Threads, Fill(t) PROVE Slot'
  BY <1>11, AfterFillIs DEF Fill, engineVars, slotVars, outVars, localVars, history
<1>12. ASSUME NEW t \in Threads, InstallFirst(t) PROVE Slot'
  BY <1>12 DEF InstallFirst, engineVars, slotVars, outVars, localVars, history
<1>13. ASSUME NEW t \in Threads, InstallNext(t) PROVE Slot'
  BY <1>13 DEF InstallNext, engineVars, slotVars, outVars, localVars, history
<1>14. ASSUME NEW t \in Threads, ReadInstalled(t) PROVE Slot'
  BY <1>14 DEF ReadInstalled, engineVars, slotVars, outVars, localVars, history
<1>15. ASSUME NEW t \in Threads, CommitAlready(t) PROVE Slot'
  BY <1>15 DEF CommitAlready, Finish, StagedFor, engineVars, slotVars, outVars,
    localVars, history
<1>16. ASSUME NEW t \in Threads, CommitClaim(t) PROVE Slot'
  BY <1>16 DEF CommitClaim, StagedFor, engineVars, slotVars, outVars, localVars,
    history
<1>17. ASSUME NEW t \in Threads, CommitMismatch(t) PROVE Slot'
  BY <1>17 DEF CommitMismatch, engineVars, slotVars, outVars, localVars, history
<1>18. ASSUME NEW t \in Threads, Take(t) PROVE Slot'
  BY <1>18 DEF Take, engineVars, slotVars, outVars, localVars, history
<1>19. ASSUME NEW t \in Threads, Raise(t) PROVE Slot'
  BY <1>19 DEF Raise, engineVars, slotVars, outVars, localVars, history
<1>20. ASSUME NEW t \in Threads, WriteCache(t) PROVE Slot'
  BY <1>20 DEF WriteCache, engineVars, slotVars, outVars, localVars, history
<1>21. ASSUME NEW t \in Threads, Announce(t) PROVE Slot'
  BY <1>21 DEF Announce, engineVars, slotVars, outVars, localVars, history
<1>22. ASSUME NEW t \in Threads, RunHooks(t) PROVE Slot'
  BY <1>22 DEF RunHooks, Finish, engineVars, slotVars, outVars, localVars, history
<1>23. ASSUME NEW t \in Threads, LoadMatch(t) PROVE Slot'
  BY <1>23 DEF LoadMatch, engineVars, slotVars, outVars, localVars, history
<1>24. ASSUME NEW t \in Threads, LoadMismatch(t) PROVE Slot'
  BY <1>24 DEF LoadMismatch, engineVars, slotVars, outVars, localVars, history
<1>25. ASSUME NEW t \in Threads, LoadAnswer(t) PROVE Slot'
  BY <1>25 DEF LoadAnswer, engineVars, slotVars, outVars, localVars, history
<1>26. CASE UNCHANGED vars
  BY <1>26 DEF vars, engineVars, slotVars, outVars, localVars, history
<1> HIDE DEF Base, TypeOK, Models, Control, Verdict, GilInv, Ledger, Flight,
  Holding, Attached, LoneInv, Claims, Claimed, Slot, Goto
<1> QED
  BY <1>1, <1>2, <1>3, <1>4, <1>5, <1>6, <1>7, <1>8, <1>9, <1>10, <1>11, <1>12,
    <1>13, <1>14, <1>15, <1>16, <1>17, <1>18, <1>19, <1>20, <1>21, <1>22, <1>23,
      <1>24, <1>25, <1>26
  DEF Next, Call, Work

LEMMA OneStep ==
  ASSUME HasGIL, Base, GilInv, LoneInv, [Next]_vars, ~overlapped'
  PROVE  ~overlapped /\ One'
<1> USE ConstantsAssumption DEF Base, TypeOK, LoneInv, Lone, One, AtWork,
  Installing, Goto
<1>1. CASE EditSource
  BY <1>1 DEF EditSource, engineVars, slotVars, outVars, localVars, history
<1>2. ASSUME NEW t \in Callers, Reload(t) PROVE ~overlapped /\ One'
  BY <1>2 DEF Reload, Start, Overlap, Threads, engineVars, slotVars, outVars,
    localVars, history
<1>3. ASSUME NEW t \in Callers, CommitPrepared(t) PROVE ~overlapped /\ One'
  BY <1>3 DEF CommitPrepared, Start, Overlap, Threads, engineVars, slotVars,
    outVars, localVars, history
<1>4. ASSUME NEW t \in Callers, Discard(t) PROVE ~overlapped /\ One'
  BY <1>4 DEF Discard, Threads, engineVars, slotVars, outVars, localVars, history
<1>5. ASSUME NEW t \in Callers, Replace(t) PROVE ~overlapped /\ One'
  BY <1>5 DEF Replace, Start, Overlap, Threads, engineVars, slotVars, outVars,
    localVars, history
<1>6. ASSUME NEW t \in Callers, NEW o \in {"load", "prepare"}, Load(t, o)
      PROVE ~overlapped /\ One'
  BY <1>6 DEF Load, Start, Threads, engineVars, slotVars, outVars, localVars,
    history
<1>7. ASSUME NEW t \in Watchers, Watch(t) PROVE ~overlapped /\ One'
  BY <1>7 DEF Watch, Start, Overlap, Threads, engineVars, slotVars, outVars,
    localVars, history
<1>8. ASSUME NEW t \in Threads, Enter(t) PROVE ~overlapped /\ One'
  BY <1>8 DEF Enter, engineVars, slotVars, outVars, localVars, history
<1>9. ASSUME NEW t \in Threads, Refuse(t) PROVE ~overlapped /\ One'
  BY <1>9 DEF Refuse, Finish, engineVars, slotVars, outVars, localVars, history
<1>10. ASSUME NEW t \in Threads, Stamp(t) PROVE ~overlapped /\ One'
  BY <1>10 DEF Stamp, engineVars, slotVars, outVars, localVars, history
<1>11. ASSUME NEW t \in Threads, Fill(t) PROVE ~overlapped /\ One'
  BY <1>11, AfterFillIs DEF Fill, engineVars, slotVars, outVars, localVars, history
<1>12. ASSUME NEW t \in Threads, InstallFirst(t) PROVE ~overlapped /\ One'
  BY <1>12 DEF InstallFirst, engineVars, slotVars, outVars, localVars, history
<1>13. ASSUME NEW t \in Threads, InstallNext(t) PROVE ~overlapped /\ One'
  BY <1>13 DEF InstallNext, engineVars, slotVars, outVars, localVars, history
<1>14. ASSUME NEW t \in Threads, ReadInstalled(t) PROVE ~overlapped /\ One'
  BY <1>14 DEF ReadInstalled, engineVars, slotVars, outVars, localVars, history
<1>15. ASSUME NEW t \in Threads, CommitAlready(t) PROVE ~overlapped /\ One'
  BY <1>15 DEF CommitAlready, Finish, StagedFor, engineVars, slotVars, outVars,
    localVars, history
<1>16. ASSUME NEW t \in Threads, CommitClaim(t) PROVE ~overlapped /\ One'
  BY <1>16 DEF CommitClaim, StagedFor, engineVars, slotVars, outVars, localVars,
    history
<1>17. ASSUME NEW t \in Threads, CommitMismatch(t) PROVE ~overlapped /\ One'
  BY <1>17 DEF CommitMismatch, engineVars, slotVars, outVars, localVars, history
<1>18. ASSUME NEW t \in Threads, Take(t) PROVE ~overlapped /\ One'
  BY <1>18 DEF Take, engineVars, slotVars, outVars, localVars, history
<1>19. ASSUME NEW t \in Threads, Raise(t) PROVE ~overlapped /\ One'
  BY <1>19 DEF Raise, engineVars, slotVars, outVars, localVars, history
<1>20. ASSUME NEW t \in Threads, WriteCache(t) PROVE ~overlapped /\ One'
  BY <1>20 DEF WriteCache, engineVars, slotVars, outVars, localVars, history
<1>21. ASSUME NEW t \in Threads, Announce(t) PROVE ~overlapped /\ One'
  BY <1>21 DEF Announce, engineVars, slotVars, outVars, localVars, history
<1>22. ASSUME NEW t \in Threads, RunHooks(t) PROVE ~overlapped /\ One'
  BY <1>22 DEF RunHooks, Finish, engineVars, slotVars, outVars, localVars, history
<1>23. ASSUME NEW t \in Threads, LoadMatch(t) PROVE ~overlapped /\ One'
  BY <1>23 DEF LoadMatch, engineVars, slotVars, outVars, localVars, history
<1>24. ASSUME NEW t \in Threads, LoadMismatch(t) PROVE ~overlapped /\ One'
  BY <1>24 DEF LoadMismatch, engineVars, slotVars, outVars, localVars, history
<1>25. ASSUME NEW t \in Threads, LoadAnswer(t) PROVE ~overlapped /\ One'
  BY <1>25 DEF LoadAnswer, engineVars, slotVars, outVars, localVars, history
<1>26. CASE UNCHANGED vars
  BY <1>26 DEF vars, engineVars, slotVars, outVars, localVars, history
<1> HIDE DEF Base, TypeOK, LoneInv, Lone, One, AtWork, Installing, Goto
<1> QED
  BY <1>1, <1>2, <1>3, <1>4, <1>5, <1>6, <1>7, <1>8, <1>9, <1>10, <1>11, <1>12,
    <1>13, <1>14, <1>15, <1>16, <1>17, <1>18, <1>19, <1>20, <1>21, <1>22, <1>23,
      <1>24, <1>25, <1>26
  DEF Next, Call, Work

LEMMA CourseStep ==
  ASSUME HasGIL, Base, GilInv, LoneInv, [Next]_vars, ~overlapped',
    NEW u \in Threads, AtWork(u)'
  PROVE  Course(u)'
<1> USE ConstantsAssumption DEF Base, TypeOK, Models, Control, Verdict, Accepted,
  GilInv, Flight, Holding, Attached, LoneInv, Part, Claimed, Slot, Lone, One,
    AtWork, Course, Served, Installing, Goto
<1>1. CASE EditSource
  BY <1>1 DEF EditSource, engineVars, slotVars, outVars, localVars, history
<1>2. ASSUME NEW t \in Callers, Reload(t) PROVE Course(u)'
  BY <1>2 DEF Reload, Start, Overlap, Threads, engineVars, slotVars, outVars,
    localVars, history
<1>3. ASSUME NEW t \in Callers, CommitPrepared(t) PROVE Course(u)'
  BY <1>3 DEF CommitPrepared, Start, Overlap, Threads, engineVars, slotVars,
    outVars, localVars, history
<1>4. ASSUME NEW t \in Callers, Discard(t) PROVE Course(u)'
  BY <1>4 DEF Discard, Threads, engineVars, slotVars, outVars, localVars, history
<1>5. ASSUME NEW t \in Callers, Replace(t) PROVE Course(u)'
  BY <1>5 DEF Replace, Start, Overlap, Threads, engineVars, slotVars, outVars,
    localVars, history
<1>6. ASSUME NEW t \in Callers, NEW o \in {"load", "prepare"}, Load(t, o)
      PROVE Course(u)'
  BY <1>6 DEF Load, Start, Threads, engineVars, slotVars, outVars, localVars,
    history
<1>7. ASSUME NEW t \in Watchers, Watch(t) PROVE Course(u)'
  BY <1>7 DEF Watch, Start, Overlap, Threads, engineVars, slotVars, outVars,
    localVars, history
<1>8. ASSUME NEW t \in Threads, Enter(t) PROVE Course(u)'
  BY <1>8 DEF Enter, engineVars, slotVars, outVars, localVars, history
<1>9. ASSUME NEW t \in Threads, Refuse(t) PROVE Course(u)'
  BY <1>9 DEF Refuse, Finish, engineVars, slotVars, outVars, localVars, history
<1>10. ASSUME NEW t \in Threads, Stamp(t) PROVE Course(u)'
  BY <1>10 DEF Stamp, engineVars, slotVars, outVars, localVars, history
<1>11. ASSUME NEW t \in Threads, Fill(t) PROVE Course(u)'
  BY <1>11, AfterFillIs DEF Fill, engineVars, slotVars, outVars, localVars, history
<1>12. ASSUME NEW t \in Threads, InstallFirst(t) PROVE Course(u)'
  BY <1>12 DEF InstallFirst, engineVars, slotVars, outVars, localVars, history
<1>13. ASSUME NEW t \in Threads, InstallNext(t) PROVE Course(u)'
  BY <1>13 DEF InstallNext, engineVars, slotVars, outVars, localVars, history
<1>14. ASSUME NEW t \in Threads, ReadInstalled(t) PROVE Course(u)'
  BY <1>14 DEF ReadInstalled, engineVars, slotVars, outVars, localVars, history
<1>15. ASSUME NEW t \in Threads, CommitAlready(t) PROVE Course(u)'
  BY <1>15 DEF CommitAlready, Finish, StagedFor, engineVars, slotVars, outVars,
    localVars, history
<1>16. ASSUME NEW t \in Threads, CommitClaim(t) PROVE Course(u)'
  BY <1>16 DEF CommitClaim, StagedFor, engineVars, slotVars, outVars, localVars,
    history
<1>17. ASSUME NEW t \in Threads, CommitMismatch(t) PROVE Course(u)'
  BY <1>17 DEF CommitMismatch, engineVars, slotVars, outVars, localVars, history
<1>18. ASSUME NEW t \in Threads, Take(t) PROVE Course(u)'
  BY <1>18 DEF Take, engineVars, slotVars, outVars, localVars, history
<1>19. ASSUME NEW t \in Threads, Raise(t) PROVE Course(u)'
  BY <1>19 DEF Raise, engineVars, slotVars, outVars, localVars, history
<1>20. ASSUME NEW t \in Threads, WriteCache(t) PROVE Course(u)'
  BY <1>20 DEF WriteCache, engineVars, slotVars, outVars, localVars, history
<1>21. ASSUME NEW t \in Threads, Announce(t) PROVE Course(u)'
  BY <1>21 DEF Announce, engineVars, slotVars, outVars, localVars, history
<1>22. ASSUME NEW t \in Threads, RunHooks(t) PROVE Course(u)'
  BY <1>22 DEF RunHooks, Finish, engineVars, slotVars, outVars, localVars, history
<1>23. ASSUME NEW t \in Threads, LoadMatch(t) PROVE Course(u)'
  BY <1>23 DEF LoadMatch, engineVars, slotVars, outVars, localVars, history
<1>24. ASSUME NEW t \in Threads, LoadMismatch(t) PROVE Course(u)'
  BY <1>24 DEF LoadMismatch, engineVars, slotVars, outVars, localVars, history
<1>25. ASSUME NEW t \in Threads, LoadAnswer(t) PROVE Course(u)'
  BY <1>25 DEF LoadAnswer, engineVars, slotVars, outVars, localVars, history
<1>26. CASE UNCHANGED vars
  BY <1>26 DEF vars, engineVars, slotVars, outVars, localVars, history
<1> HIDE DEF Base, TypeOK, Models, Control, Verdict, Accepted, GilInv, Flight,
  Holding, Attached, LoneInv, Part, Claimed, Slot, Lone, One, AtWork, Course,
    Served, Installing, Goto
<1> QED
  BY <1>1, <1>2, <1>3, <1>4, <1>5, <1>6, <1>7, <1>8, <1>9, <1>10, <1>11, <1>12,
    <1>13, <1>14, <1>15, <1>16, <1>17, <1>18, <1>19, <1>20, <1>21, <1>22, <1>23,
      <1>24, <1>25, <1>26
  DEF Next, Call, Work

LEMMA ServedStep ==
  ASSUME HasGIL, Base, GilInv, LoneInv, [Next]_vars, ~overlapped',
    \A k \in Threads : ~AtWork(k)'
  PROVE  Served'
<1> USE ConstantsAssumption DEF Base, TypeOK, Models, Control, Verdict, Accepted,
  GilInv, Flight, Holding, Attached, LoneInv, Part, Claimed, Slot, Lone, One,
    AtWork, Course, Served, Installing, Goto
<1>1. CASE EditSource
  BY <1>1 DEF EditSource, engineVars, slotVars, outVars, localVars, history
<1>2. ASSUME NEW t \in Callers, Reload(t) PROVE Served'
  BY <1>2 DEF Reload, Start, Overlap, Threads, engineVars, slotVars, outVars,
    localVars, history
<1>3. ASSUME NEW t \in Callers, CommitPrepared(t) PROVE Served'
  BY <1>3 DEF CommitPrepared, Start, Overlap, Threads, engineVars, slotVars,
    outVars, localVars, history
<1>4. ASSUME NEW t \in Callers, Discard(t) PROVE Served'
  BY <1>4 DEF Discard, Threads, engineVars, slotVars, outVars, localVars, history
<1>5. ASSUME NEW t \in Callers, Replace(t) PROVE Served'
  BY <1>5 DEF Replace, Start, Overlap, Threads, engineVars, slotVars, outVars,
    localVars, history
<1>6. ASSUME NEW t \in Callers, NEW o \in {"load", "prepare"}, Load(t, o)
      PROVE Served'
  BY <1>6 DEF Load, Start, Threads, engineVars, slotVars, outVars, localVars,
    history
<1>7. ASSUME NEW t \in Watchers, Watch(t) PROVE Served'
  BY <1>7 DEF Watch, Start, Overlap, Threads, engineVars, slotVars, outVars,
    localVars, history
<1>8. ASSUME NEW t \in Threads, Enter(t) PROVE Served'
  BY <1>8 DEF Enter, engineVars, slotVars, outVars, localVars, history
<1>9. ASSUME NEW t \in Threads, Refuse(t) PROVE Served'
  <2>1. /\ pc[t] = "validate" /\ tree[t] \notin Valid
        /\ \A k \in Threads \ {t} : pc'[k] = pc[k] /\ op'[k] = op[k]
        /\ UNCHANGED <<installed, cache, cached, overlapped>>
    BY <1>9 DEF Refuse, Finish, outVars, history
  <2>2. tree[t] # None /\ installed \in Valid \cup {None}
    BY <2>1
  <2>3. CASE AtWork(t)
    <3>1. Course(t) /\ path[t] \in {"engine", "hook", "publish"}
      BY <2>1, <2>3, <1>9 DEF Refuse, history, Paths
    <3>2. path[t] = "engine"
      BY <2>1, <2>2, <3>1
    <3>3. Served
      BY <2>1, <3>1, <3>2
    <3> QED
      BY <2>1, <3>3
  <2>4. CASE ~AtWork(t)
    <3>1. ASSUME NEW k \in Threads, k # t PROVE ~AtWork(k)
      <4>1. ~AtWork(k)' /\ pc'[k] = pc[k] /\ op'[k] = op[k]
        BY <2>1, <3>1
      <4> QED
        BY <4>1
    <3>2. \A k \in Threads : ~AtWork(k)
      BY <2>4, <3>1
    <3> QED
      BY <2>1, <3>2
  <2> QED
    BY <2>3, <2>4
<1>10. ASSUME NEW t \in Threads, Stamp(t) PROVE Served'
  BY <1>10 DEF Stamp, engineVars, slotVars, outVars, localVars, history
<1>11. ASSUME NEW t \in Threads, Fill(t) PROVE Served'
  BY <1>11, AfterFillIs DEF Fill, engineVars, slotVars, outVars, localVars, history
<1>12. ASSUME NEW t \in Threads, InstallFirst(t) PROVE Served'
  BY <1>12 DEF InstallFirst, engineVars, slotVars, outVars, localVars, history
<1>13. ASSUME NEW t \in Threads, InstallNext(t) PROVE Served'
  BY <1>13 DEF InstallNext, engineVars, slotVars, outVars, localVars, history
<1>14. ASSUME NEW t \in Threads, ReadInstalled(t) PROVE Served'
  BY <1>14 DEF ReadInstalled, engineVars, slotVars, outVars, localVars, history
<1>15. ASSUME NEW t \in Threads, CommitAlready(t) PROVE Served'
  BY <1>15 DEF CommitAlready, Finish, StagedFor, engineVars, slotVars, outVars,
    localVars, history
<1>16. ASSUME NEW t \in Threads, CommitClaim(t) PROVE Served'
  BY <1>16 DEF CommitClaim, StagedFor, engineVars, slotVars, outVars, localVars,
    history
<1>17. ASSUME NEW t \in Threads, CommitMismatch(t) PROVE Served'
  BY <1>17 DEF CommitMismatch, engineVars, slotVars, outVars, localVars, history
<1>18. ASSUME NEW t \in Threads, Take(t) PROVE Served'
  BY <1>18 DEF Take, engineVars, slotVars, outVars, localVars, history
<1>19. ASSUME NEW t \in Threads, Raise(t) PROVE Served'
  BY <1>19 DEF Raise, engineVars, slotVars, outVars, localVars, history
<1>20. ASSUME NEW t \in Threads, WriteCache(t) PROVE Served'
  BY <1>20 DEF WriteCache, engineVars, slotVars, outVars, localVars, history
<1>21. ASSUME NEW t \in Threads, Announce(t) PROVE Served'
  BY <1>21 DEF Announce, engineVars, slotVars, outVars, localVars, history
<1>22. ASSUME NEW t \in Threads, RunHooks(t) PROVE Served'
  BY <1>22 DEF RunHooks, Finish, engineVars, slotVars, outVars, localVars, history
<1>23. ASSUME NEW t \in Threads, LoadMatch(t) PROVE Served'
  BY <1>23 DEF LoadMatch, engineVars, slotVars, outVars, localVars, history
<1>24. ASSUME NEW t \in Threads, LoadMismatch(t) PROVE Served'
  BY <1>24 DEF LoadMismatch, engineVars, slotVars, outVars, localVars, history
<1>25. ASSUME NEW t \in Threads, LoadAnswer(t) PROVE Served'
  BY <1>25 DEF LoadAnswer, engineVars, slotVars, outVars, localVars, history
<1>26. CASE UNCHANGED vars
  BY <1>26 DEF vars, engineVars, slotVars, outVars, localVars, history
<1> HIDE DEF Base, TypeOK, Models, Control, Verdict, Accepted, GilInv, Flight,
  Holding, Attached, LoneInv, Part, Claimed, Slot, Lone, One, AtWork, Course,
    Served, Installing, Goto
<1> QED
  BY <1>1, <1>2, <1>3, <1>4, <1>5, <1>6, <1>7, <1>8, <1>9, <1>10, <1>11, <1>12,
    <1>13, <1>14, <1>15, <1>16, <1>17, <1>18, <1>19, <1>20, <1>21, <1>22, <1>23,
      <1>24, <1>25, <1>26
  DEF Next, Call, Work

LEMMA LoneInit == Init => LoneInv
<1> SUFFICES ASSUME Init
             PROVE  LoneInv
  OBVIOUS
<1>1. \A t \in Threads : Part(t) /\ Claims(t) /\ ~AtWork(t)
  BY DEF Init, Part, Claims, Claimed, AtWork
<1>2. Slot /\ Served
  BY DEF Init, Slot, Served
<1> QED
  BY <1>1, <1>2 DEF LoneInv, Lone, One

LEMMA LoneStep ==
  ASSUME HasGIL
  PROVE  Base /\ GilInv /\ LoneInv /\ [Next]_vars => LoneInv'
<1> SUFFICES ASSUME Base, GilInv, LoneInv, [Next]_vars
             PROVE  LoneInv'
  OBVIOUS
<1>1. \A u \in Threads : Part(u)' /\ Claims(u)'
  BY PartStep, ClaimsStep
<1>2. Slot'
  BY SlotStep
<1>3. ASSUME ~overlapped' PROVE Lone'
  <2>1. One'
    BY <1>3, OneStep
  <2>2. \A u \in Threads : AtWork(u)' => Course(u)'
    BY <1>3, CourseStep
  <2>3. (\A u \in Threads : ~AtWork(u)') => Served'
    BY <1>3, ServedStep
  <2> QED
    BY <2>1, <2>2, <2>3 DEF Lone
<1> QED
  BY <1>1, <1>2, <1>3 DEF LoneInv

\* As long as installing operations do not overlap, readers are served what the
\* engine has installed, however many load() and prepare() calls run meanwhile
\* (inner.rs, commit; mod.rs, publish_current).
THEOREM LoneInstallsServeThm == ASSUME HasGIL PROVE Spec => []LoneInstallsServe
<1>1. LoneInv => LoneInstallsServe
  BY DEF LoneInv, Lone, AtWork, Served, Quiet, LoneInstallsServe
<1>2. Base /\ GilInv /\ LoneInv /\ [Next]_vars => LoneInv'
  BY LoneStep
<1> QED
  BY LoneInit, <1>1, <1>2, BaseInvariant, GilInvariant, PTL DEF Spec

=============================================================================
