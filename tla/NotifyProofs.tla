---------------------------- MODULE NotifyProofs ----------------------------
(***************************************************************************)
(* Proofs about Notify, for any number of tasks, installs and refusals and *)
(* with or without a GIL: no notifier thread sleeps on something it has to *)
(* report, every awaited future has a live thread that will resolve it, and *)
(* no wake carries a model older than its generation.                      *)
(***************************************************************************)
EXTENDS Notify, TLAPS

\* The lock is held exactly by the thread between its predicate and its sleep.
Locking == \A k \in Notifiers : thread[k] = "sleep" <=> mutex = k

\* The cache is at least as new as the generation, until a release empties it.
Standing ==
    /\ releasing = "no" => cache >= generation /\ ~closed
    /\ releasing # "no" => cache = 0
    /\ installing = "written" => cache = generation + 1 /\ releasing = "no"

\* What a thread carries from its wait to the futures: until a release begins,
\* it stopped for something it had not seen, and answers it.
Report(k) ==
    /\ thread[k] = "read" =>
           /\ answer[k].at.generation <= generation
           /\ answer[k].model = 0
    /\ thread[k] = "read" /\ releasing = "no" =>
           \/ answer[k].at.generation > seen[k].generation
           \/ k = "events" /\ answer[k].at.refusals > seen[k].refusals
    /\ thread[k] = "resolve" /\ releasing = "no" => answer[k] # Released
    /\ thread[k] = "dying" => releasing # "no"
    /\ answer[k].model # 0 => answer[k].model >= answer[k].at.generation

\* What a task's future is at each stage, and who will resolve it.
Listed(c) ==
    /\ stage[c] \in {"check", "await"} => future[c] # NoFuture
    /\ stage[c] = "read" => future[c] \in Wakes
    /\ stage[c] \in {"check", "await"} /\ future[c] = Pending /\ releasing = "no" =>
           c \in waiters[NotifierOf(c)] /\ thread[NotifierOf(c)] # "none"
    /\ stage[c] \in {"check", "await"} /\ future[c] # Pending /\ future[c].model # 0 =>
           future[c].model >= future[c].at.generation

NotifyInv ==
    /\ TypeOK
    /\ Locking
    /\ Standing
    /\ NoLostWakeup
    /\ \A k \in Notifiers : Report(k)
    /\ \A c \in Tasks : Listed(c)

-----------------------------------------------------------------------------

LEMMA ReleasedTyped == Released \in Wakes
  BY DEF Released, Wakes, Counters

LEMMA NowTyped == TypeOK => Now \in Counters
  BY DEF TypeOK, Now, Counters

LEMMA NotifierTyped == \A c \in Tasks : NotifierOf(c) \in Notifiers
  BY DEF NotifierOf, Notifiers

LEMMA AnswerTyped ==
  ASSUME TypeOK, NEW k \in Notifiers
  PROVE  Answer(k, cache) \in Wakes
<1>1. answer[k].at \in Counters /\ cache \in Nat
  BY DEF TypeOK, Wakes
<1> QED
  BY <1>1, ReleasedTyped DEF Answer, Wakes

LEMMA TakeTyped ==
  ASSUME TypeOK, NEW c \in Tasks, NEW w \in Wakes, Take(c, w)
  PROVE  /\ stage' \in [Tasks -> Stages]
         /\ noted' \in [Tasks -> Counters]
         /\ future' \in [Tasks -> Wakes \cup {NoFuture, Pending}]
         /\ got' \in [Tasks -> Nat]
<1>1. w.at \in Counters /\ w.model \in Nat /\ noted[c] \in Counters
  BY DEF Wakes, TypeOK
<1>2. future' \in [Tasks -> Wakes \cup {NoFuture, Pending}]
  BY DEF Take, TypeOK
<1>3. stage' \in [Tasks -> Stages] /\ got' \in [Tasks -> Nat]
  BY <1>1 DEF Take, TypeOK, Proceed, Stages
<1>4. noted' \in [Tasks -> Counters]
  BY <1>1 DEF Take, TypeOK, Counters
<1> QED
  BY <1>2, <1>3, <1>4

LEMMA NotifyInit == Init => NotifyInv
<1> SUFFICES ASSUME Init
             PROVE  NotifyInv
  OBVIOUS
<1> USE TaskAssumption DEF Init
<1>1. TypeOK
  <2>1. [generation |-> 0, refusals |-> 0] \in Counters
    BY DEF Counters
  <2>2. cache \in Nat /\ generation \in Nat /\ cached \in Nat /\ refusals \in Nat
    OBVIOUS
  <2>3. /\ thread \in [Notifiers -> ThreadSteps]
        /\ stage \in [Tasks -> Stages]
    BY DEF ThreadSteps, Stages
  <2>4. answer \in [Notifiers -> Wakes]
    BY ReleasedTyped
  <2> QED
    BY <2>1, <2>2, <2>3, <2>4 DEF TypeOK
<1>2. Locking /\ NoLostWakeup /\ Standing
  BY DEF Locking, NoLostWakeup, Standing, Notifiers
<1>3. \A k \in Notifiers : Report(k)
  BY DEF Report, Released
<1>4. \A c \in Tasks : Listed(c)
  BY DEF Listed
<1> QED
  BY <1>1, <1>2, <1>3, <1>4 DEF NotifyInv

LEMMA TypeStep ==
  ASSUME NotifyInv, [Next]_vars
  PROVE  TypeOK'
<1> USE TaskAssumption DEF NotifyInv, TypeOK, ThreadSteps, Stages
<1>1. CASE WriteCache
  BY <1>1 DEF WriteCache, wakeVars, threadVars, taskVars
<1>2. CASE Announce
  BY <1>2 DEF Announce, NotifyAll, wakeVars, threadVars, taskVars
<1>3. CASE PublishHook
  BY <1>3 DEF PublishHook, wakeVars, threadVars, taskVars
<1>4. CASE Refuse
  BY <1>4 DEF Refuse, NotifyAll, wakeVars, threadVars, taskVars
<1>5. CASE EmptyCache
  BY <1>5 DEF EmptyCache, wakeVars, threadVars, taskVars
<1>6. CASE Close
  BY <1>6 DEF Close, wakeVars, threadVars, taskVars
<1>7. CASE NotifyClosed
  BY <1>7 DEF NotifyClosed, NotifyAll, wakeVars, threadVars, taskVars
<1>8. ASSUME NEW k \in Notifiers, KeepWaiting(k) PROVE TypeOK'
  BY <1>8 DEF KeepWaiting, Goto, wakeVars, threadVars, taskVars
<1>9. ASSUME NEW k \in Notifiers, Sleep(k) PROVE TypeOK'
  BY <1>9 DEF Sleep, Goto, wakeVars, threadVars, taskVars
<1>10. ASSUME NEW k \in Notifiers, StopWaiting(k) PROVE TypeOK'
  <2>1. [at |-> Now, model |-> 0] \in Wakes
    BY NowTyped DEF Wakes
  <2> QED
    BY <1>10, <2>1 DEF StopWaiting, Goto, wakeVars, threadVars, taskVars
<1>11. ASSUME NEW k \in Notifiers, ReadCache(k) PROVE TypeOK'
  BY <1>11, AnswerTyped DEF ReadCache, Goto, Wakes, wakeVars, threadVars, taskVars
<1>12. ASSUME NEW k \in Notifiers, ResolveAll(k) PROVE TypeOK'
  BY <1>12, ReleasedTyped DEF ResolveAll, Goto, wakeVars, threadVars, taskVars
<1>13. ASSUME NEW k \in Notifiers, EndIdle(k) PROVE TypeOK'
  BY <1>13 DEF EndIdle, Goto, wakeVars, threadVars, taskVars
<1>14. ASSUME NEW k \in Notifiers, Die(k) PROVE TypeOK'
  BY <1>14 DEF Die, Goto, wakeVars, threadVars, taskVars
<1>15. ASSUME NEW c \in Tasks, Begin(c) PROVE TypeOK'
  BY <1>15, NowTyped DEF Begin, Proceed, Now, wakeVars, threadVars, taskVars
<1>16. ASSUME NEW c \in Tasks, Register(c) PROVE TypeOK'
  <2>1. Now \in Counters /\ NotifierOf(c) \in Notifiers
    BY NowTyped, NotifierTyped
  <2> QED
    BY <1>16, <2>1 DEF Register, Proceed, Goto, wakeVars, threadVars, taskVars
<1>17. ASSUME NEW c \in Tasks, Recheck(c) PROVE TypeOK'
  <2>1. [at |-> Now, model |-> 0] \in Wakes
    BY NowTyped DEF Wakes
  <2> QED
    BY <1>17, <2>1 DEF Recheck, Proceed, wakeVars, threadVars, taskVars
<1>18. ASSUME NEW c \in Tasks, ReadCached(c) PROVE TypeOK'
  <2>1. [future[c] EXCEPT !.model = cached] \in Wakes
    BY <1>18 DEF ReadCached, Listed, Wakes
  <2> QED
    BY <1>18, <2>1, TakeTyped DEF ReadCached, wakeVars, threadVars, taskVars
<1>19. ASSUME NEW c \in Tasks, Wake(c) PROVE TypeOK'
  <2>1. future[c] \in Wakes
    BY <1>19 DEF Wake, Listed
  <2> QED
    BY <1>19, <2>1, TakeTyped DEF Wake, wakeVars, threadVars, taskVars
<1>20. ASSUME NEW c \in Tasks, GiveUp(c) PROVE TypeOK'
  BY <1>20 DEF GiveUp, Proceed, wakeVars, threadVars, taskVars
<1>21. CASE UNCHANGED vars
  BY <1>21 DEF vars, wakeVars, threadVars, taskVars
<1> HIDE DEF NotifyInv, TypeOK, ThreadSteps, Stages
<1> QED
  BY <1>1, <1>2, <1>3, <1>4, <1>5, <1>6, <1>7, <1>8, <1>9, <1>10, <1>11, <1>12,
     <1>13, <1>14, <1>15, <1>16, <1>17, <1>18, <1>19, <1>20, <1>21
  DEF Next, Install, Release, Run, Follow

LEMMA LockStep ==
  ASSUME NotifyInv, [Next]_vars
  PROVE  Locking' /\ NoLostWakeup' /\ Standing'
<1> USE TaskAssumption DEF NotifyInv, TypeOK, Counters, Locking, Standing, NoLostWakeup, Moved
<1>1. CASE WriteCache
  BY <1>1 DEF WriteCache, wakeVars, threadVars, taskVars
<1>2. CASE Announce
  BY <1>2 DEF Announce, NotifyAll, Notifiers, wakeVars, threadVars, taskVars
<1>3. CASE PublishHook
  BY <1>3 DEF PublishHook, wakeVars, threadVars, taskVars
<1>4. CASE Refuse
  BY <1>4 DEF Refuse, NotifyAll, Notifiers, wakeVars, threadVars, taskVars
<1>5. CASE EmptyCache
  BY <1>5 DEF EmptyCache, wakeVars, threadVars, taskVars
<1>6. CASE Close
  BY <1>6 DEF Close, wakeVars, threadVars, taskVars
<1>7. CASE NotifyClosed
  BY <1>7 DEF NotifyClosed, NotifyAll, wakeVars, threadVars, taskVars
<1>8. ASSUME NEW k \in Notifiers, KeepWaiting(k) PROVE Locking' /\ NoLostWakeup' /\ Standing'
  BY <1>8 DEF KeepWaiting, Goto, Notifiers, wakeVars, threadVars, taskVars
<1>9. ASSUME NEW k \in Notifiers, Sleep(k) PROVE Locking' /\ NoLostWakeup' /\ Standing'
  BY <1>9 DEF Sleep, Goto, Notifiers, wakeVars, threadVars, taskVars
<1>10. ASSUME NEW k \in Notifiers, StopWaiting(k) PROVE Locking' /\ NoLostWakeup' /\ Standing'
  BY <1>10 DEF StopWaiting, Goto, Now, wakeVars, threadVars, taskVars
<1>11. ASSUME NEW k \in Notifiers, ReadCache(k) PROVE Locking' /\ NoLostWakeup' /\ Standing'
  BY <1>11 DEF ReadCache, Goto, wakeVars, threadVars, taskVars
<1>12. ASSUME NEW k \in Notifiers, ResolveAll(k) PROVE Locking' /\ NoLostWakeup' /\ Standing'
  BY <1>12 DEF ResolveAll, Goto, wakeVars, threadVars, taskVars
<1>13. ASSUME NEW k \in Notifiers, EndIdle(k) PROVE Locking' /\ NoLostWakeup' /\ Standing'
  BY <1>13 DEF EndIdle, Goto, wakeVars, threadVars, taskVars
<1>14. ASSUME NEW k \in Notifiers, Die(k) PROVE Locking' /\ NoLostWakeup' /\ Standing'
  BY <1>14 DEF Die, Goto, wakeVars, threadVars, taskVars
<1>15. ASSUME NEW c \in Tasks, Begin(c) PROVE Locking' /\ NoLostWakeup' /\ Standing'
  BY <1>15 DEF Begin, Proceed, Now, wakeVars, threadVars, taskVars
<1>16. ASSUME NEW c \in Tasks, Register(c) PROVE Locking' /\ NoLostWakeup' /\ Standing'
  BY <1>16 DEF Register, Proceed, Goto, Now, NotifierOf, wakeVars, threadVars,
     taskVars
<1>17. ASSUME NEW c \in Tasks, Recheck(c) PROVE Locking' /\ NoLostWakeup' /\ Standing'
  BY <1>17 DEF Recheck, Proceed, Now, wakeVars, threadVars, taskVars
<1>18. ASSUME NEW c \in Tasks, ReadCached(c) PROVE Locking' /\ NoLostWakeup' /\ Standing'
  BY <1>18 DEF ReadCached, Take, Proceed, wakeVars, threadVars, taskVars
<1>19. ASSUME NEW c \in Tasks, Wake(c) PROVE Locking' /\ NoLostWakeup' /\ Standing'
  BY <1>19 DEF Wake, Take, Proceed, wakeVars, threadVars, taskVars
<1>20. ASSUME NEW c \in Tasks, GiveUp(c) PROVE Locking' /\ NoLostWakeup' /\ Standing'
  BY <1>20 DEF GiveUp, Proceed, wakeVars, threadVars, taskVars
<1>21. CASE UNCHANGED vars
  BY <1>21 DEF vars, wakeVars, threadVars, taskVars
<1> HIDE DEF NotifyInv, TypeOK, Counters, Locking, Standing, NoLostWakeup, Moved
<1> QED
  BY <1>1, <1>2, <1>3, <1>4, <1>5, <1>6, <1>7, <1>8, <1>9, <1>10, <1>11, <1>12,
     <1>13, <1>14, <1>15, <1>16, <1>17, <1>18, <1>19, <1>20, <1>21
  DEF Next, Install, Release, Run, Follow

LEMMA ReportStep ==
  ASSUME NotifyInv, [Next]_vars, NEW m \in Notifiers
  PROVE  Report(m)'
<1> USE TaskAssumption DEF NotifyInv, TypeOK, Counters, Wakes, Standing, Report, Moved
<1>1. CASE WriteCache
  BY <1>1 DEF WriteCache, wakeVars, threadVars, taskVars
<1>2. CASE Announce
  BY <1>2 DEF Announce, NotifyAll, wakeVars, threadVars, taskVars
<1>3. CASE PublishHook
  BY <1>3 DEF PublishHook, wakeVars, threadVars, taskVars
<1>4. CASE Refuse
  BY <1>4 DEF Refuse, NotifyAll, wakeVars, threadVars, taskVars
<1>5. CASE EmptyCache
  BY <1>5 DEF EmptyCache, wakeVars, threadVars, taskVars
<1>6. CASE Close
  BY <1>6 DEF Close, wakeVars, threadVars, taskVars
<1>7. CASE NotifyClosed
  BY <1>7 DEF NotifyClosed, NotifyAll, wakeVars, threadVars, taskVars
<1>8. ASSUME NEW k \in Notifiers, KeepWaiting(k) PROVE Report(m)'
  BY <1>8 DEF KeepWaiting, Goto, wakeVars, threadVars, taskVars
<1>9. ASSUME NEW k \in Notifiers, Sleep(k) PROVE Report(m)'
  BY <1>9 DEF Sleep, Goto, wakeVars, threadVars, taskVars
<1>10. ASSUME NEW k \in Notifiers, StopWaiting(k) PROVE Report(m)'
  BY <1>10 DEF StopWaiting, Goto, Now, wakeVars, threadVars, taskVars
<1>11. ASSUME NEW k \in Notifiers, ReadCache(k) PROVE Report(m)'
  <2>1. CASE m # k
    BY <1>11, <2>1 DEF ReadCache, Goto, wakeVars, threadVars, taskVars
  <2>2. CASE m = k
    <3>1. thread'[k] = "resolve" /\ answer'[k] = Answer(k, cache)
      BY <1>11 DEF ReadCache, Goto
    <3>2. releasing = "no" => Answer(k, cache) # Released
      BY <1>11 DEF ReadCache, Answer, Released
    <3>3. Answer(k, cache).model # 0 =>
            Answer(k, cache).model >= Answer(k, cache).at.generation
      BY <1>11 DEF ReadCache, Answer, Released
    <3> QED
      BY <2>2, <3>1, <3>2, <3>3, <1>11 DEF ReadCache
  <2> QED
    BY <2>1, <2>2
<1>12. ASSUME NEW k \in Notifiers, ResolveAll(k) PROVE Report(m)'
  <2>1. CASE m # k
    BY <1>12, <2>1 DEF ResolveAll, Goto, wakeVars, threadVars, taskVars
  <2>2. CASE m = k
    <3>1. answer'[k] = Released /\ thread'[k] \in {"dying", "empty"}
      BY <1>12 DEF ResolveAll, Goto
    <3>2. thread'[k] = "dying" => releasing' # "no"
      BY <1>12 DEF ResolveAll, Goto
    <3> QED
      BY <2>2, <3>1, <3>2 DEF Released
  <2> QED
    BY <2>1, <2>2
<1>13. ASSUME NEW k \in Notifiers, EndIdle(k) PROVE Report(m)'
  BY <1>13 DEF EndIdle, Goto, wakeVars, threadVars, taskVars
<1>14. ASSUME NEW k \in Notifiers, Die(k) PROVE Report(m)'
  BY <1>14 DEF Die, Goto, wakeVars, threadVars, taskVars
<1>15. ASSUME NEW c \in Tasks, Begin(c) PROVE Report(m)'
  BY <1>15 DEF Begin, Proceed, Now, wakeVars, threadVars, taskVars
<1>16. ASSUME NEW c \in Tasks, Register(c) PROVE Report(m)'
  BY <1>16 DEF Register, Proceed, Goto, Now, NotifierOf, wakeVars, threadVars,
     taskVars
<1>17. ASSUME NEW c \in Tasks, Recheck(c) PROVE Report(m)'
  BY <1>17 DEF Recheck, Proceed, Now, wakeVars, threadVars, taskVars
<1>18. ASSUME NEW c \in Tasks, ReadCached(c) PROVE Report(m)'
  BY <1>18 DEF ReadCached, Take, Proceed, wakeVars, threadVars, taskVars
<1>19. ASSUME NEW c \in Tasks, Wake(c) PROVE Report(m)'
  BY <1>19 DEF Wake, Take, Proceed, wakeVars, threadVars, taskVars
<1>20. ASSUME NEW c \in Tasks, GiveUp(c) PROVE Report(m)'
  BY <1>20 DEF GiveUp, Proceed, wakeVars, threadVars, taskVars
<1>21. CASE UNCHANGED vars
  BY <1>21 DEF vars, wakeVars, threadVars, taskVars
<1> HIDE DEF NotifyInv, TypeOK, Counters, Wakes, Standing, Report, Moved
<1> QED
  BY <1>1, <1>2, <1>3, <1>4, <1>5, <1>6, <1>7, <1>8, <1>9, <1>10, <1>11, <1>12,
     <1>13, <1>14, <1>15, <1>16, <1>17, <1>18, <1>19, <1>20, <1>21
  DEF Next, Install, Release, Run, Follow

LEMMA ListedStep ==
  ASSUME NotifyInv, [Next]_vars, NEW d \in Tasks
  PROVE  Listed(d)'
<1> USE TaskAssumption DEF NotifyInv, TypeOK, Report, Listed
<1>1. CASE WriteCache
  BY <1>1 DEF WriteCache, wakeVars, threadVars, taskVars
<1>2. CASE Announce
  BY <1>2, NotifierTyped DEF Announce, NotifyAll, wakeVars, threadVars, taskVars
<1>3. CASE PublishHook
  BY <1>3 DEF PublishHook, wakeVars, threadVars, taskVars
<1>4. CASE Refuse
  BY <1>4, NotifierTyped DEF Refuse, NotifyAll, wakeVars, threadVars, taskVars
<1>5. CASE EmptyCache
  BY <1>5 DEF EmptyCache, wakeVars, threadVars, taskVars
<1>6. CASE Close
  BY <1>6 DEF Close, wakeVars, threadVars, taskVars
<1>7. CASE NotifyClosed
  BY <1>7, NotifierTyped DEF NotifyClosed, NotifyAll, wakeVars, threadVars,
     taskVars
<1>8. ASSUME NEW k \in Notifiers, KeepWaiting(k) PROVE Listed(d)'
  BY <1>8, NotifierTyped DEF KeepWaiting, Goto, wakeVars, threadVars, taskVars
<1>9. ASSUME NEW k \in Notifiers, Sleep(k) PROVE Listed(d)'
  BY <1>9, NotifierTyped DEF Sleep, Goto, wakeVars, threadVars, taskVars
<1>10. ASSUME NEW k \in Notifiers, StopWaiting(k) PROVE Listed(d)'
  BY <1>10, NotifierTyped DEF StopWaiting, Goto, Now, wakeVars, threadVars,
     taskVars
<1>11. ASSUME NEW k \in Notifiers, ReadCache(k) PROVE Listed(d)'
  BY <1>11, NotifierTyped DEF ReadCache, Goto, wakeVars, threadVars, taskVars
<1>12. ASSUME NEW k \in Notifiers, ResolveAll(k) PROVE Listed(d)'
  <2>1. future'[d] = IF d \in waiters[k] /\ future[d] = Pending
                     THEN answer[k] ELSE future[d]
    BY <1>12 DEF ResolveAll
  <2>2. NotifierOf(d) \in Notifiers /\ answer[k] \in Wakes
    BY NotifierTyped
  <2>3. NoFuture \notin Wakes /\ Pending \notin Wakes
    BY DEF Wakes, Counters
  <2>4. stage' = stage /\ releasing' = releasing
    BY <1>12 DEF ResolveAll
  <2>5. /\ stage[d] \in {"check", "await"} => future'[d] # NoFuture
        /\ stage[d] = "read" => future'[d] \in Wakes
    BY <2>1, <2>2, <2>3
  <2>6. stage[d] \in {"check", "await"} /\ future'[d] = Pending /\ releasing = "no" =>
           d \in waiters'[NotifierOf(d)] /\ thread'[NotifierOf(d)] # "none"
    BY <1>12, <2>1, <2>2, <2>3 DEF ResolveAll, Goto
  <2>7. stage[d] \in {"check", "await"} /\ future'[d] # Pending /\ future'[d].model # 0
          => future'[d].model >= future'[d].at.generation
    BY <2>1
  <2> QED
    BY <2>4, <2>5, <2>6, <2>7
<1>13. ASSUME NEW k \in Notifiers, EndIdle(k) PROVE Listed(d)'
  BY <1>13, NotifierTyped DEF EndIdle, Goto, wakeVars, threadVars, taskVars
<1>14. ASSUME NEW k \in Notifiers, Die(k) PROVE Listed(d)'
  BY <1>14, NotifierTyped DEF Die, Goto, wakeVars, threadVars, taskVars
<1>15. ASSUME NEW c \in Tasks, Begin(c) PROVE Listed(d)'
  BY <1>15 DEF Begin, Proceed, Now, wakeVars, threadVars, taskVars
<1>16. ASSUME NEW c \in Tasks, Register(c) PROVE Listed(d)'
  BY <1>16, NotifierTyped DEF Register, Proceed, Goto, Now, NotifierOf, wakeVars,
     threadVars, taskVars
<1>17. ASSUME NEW c \in Tasks, Recheck(c) PROVE Listed(d)'
  <2>1. [at |-> Now, model |-> 0] \in Wakes
    BY NowTyped DEF Wakes
  <2> QED
    BY <1>17, <2>1 DEF Recheck, Proceed, wakeVars, threadVars, taskVars
<1>18. ASSUME NEW c \in Tasks, ReadCached(c) PROVE Listed(d)'
  BY <1>18 DEF ReadCached, Take, Proceed, wakeVars, threadVars, taskVars
<1>19. ASSUME NEW c \in Tasks, Wake(c) PROVE Listed(d)'
  BY <1>19 DEF Wake, Take, Proceed, wakeVars, threadVars, taskVars
<1>20. ASSUME NEW c \in Tasks, GiveUp(c) PROVE Listed(d)'
  BY <1>20 DEF GiveUp, Proceed, wakeVars, threadVars, taskVars
<1>21. CASE UNCHANGED vars
  BY <1>21 DEF vars, wakeVars, threadVars, taskVars
<1> HIDE DEF NotifyInv, TypeOK, Report, Listed
<1> QED
  BY <1>1, <1>2, <1>3, <1>4, <1>5, <1>6, <1>7, <1>8, <1>9, <1>10, <1>11, <1>12,
     <1>13, <1>14, <1>15, <1>16, <1>17, <1>18, <1>19, <1>20, <1>21
  DEF Next, Install, Release, Run, Follow

THEOREM NotifyInvariant == Spec => []NotifyInv
<1>1. NotifyInv /\ [Next]_vars => NotifyInv'
  BY TypeStep, LockStep, ReportStep, ListedStep DEF NotifyInv
<1> QED
  BY NotifyInit, <1>1, PTL DEF Spec

\* Type correctness.
THEOREM NotifyTypes == Spec => []TypeOK
<1>1. NotifyInv => TypeOK
  BY DEF NotifyInv
<1> QED
  BY NotifyInvariant, <1>1, PTL

\* No lost wake-up, in any build: a notifier thread never sleeps while an install
\* or a refusal its wait watches is unreported.
THEOREM NoLostWakeupThm == Spec => []NoLostWakeup
<1>1. NotifyInv => NoLostWakeup
  BY DEF NotifyInv
<1> QED
  BY NotifyInvariant, <1>1, PTL

\* Until a release begins, a future somebody awaits is resolved or in the list of
\* a live thread.
THEOREM WaitersAreServedThm == Spec => []WaitersAreServed
<1>1. NotifyInv => WaitersAreServed
  BY DEF NotifyInv, Listed, WaitersAreServed
<1> QED
  BY NotifyInvariant, <1>1, PTL

\* A wake never pairs a generation with an older model.
THEOREM WakeIsCurrentThm == Spec => []WakeIsCurrent
<1>1. NotifyInv => WakeIsCurrent
  BY DEF NotifyInv, Listed, WakeIsCurrent
<1> QED
  BY NotifyInvariant, <1>1, PTL

-----------------------------------------------------------------------------
(* Only a release ends a stream.  A wake without a model ends one when its  *)
(* generation is news to the stream; the argument is that it never is while *)
(* the configuration lives.                                                 *)

\* What a thread has seen, and what it carries, is not of the future.
Current(k) ==
    /\ seen[k].generation <= generation
    /\ thread[k] = "resolve" => answer[k].at.generation <= generation

\* What a task finds in its future, or will find: no release, and no news
\* without a model.
Answered(c) ==
    releasing = "no" =>
        /\ stage[c] = "check" /\ future[c] # Pending =>
              future[c] # Released /\ future[c].at.generation <= generation
        /\ stage[c] = "await" /\ future[c] # Pending =>
              /\ future[c] # Released
              /\ future[c].model = 0 => future[c].at.generation <= noted[c].generation
        /\ stage[c] = "await" /\ future[c] = Pending =>
              IF thread[NotifierOf(c)] = "resolve"
              THEN answer[NotifierOf(c)].model = 0 =>
                       answer[NotifierOf(c)].at.generation <= noted[c].generation
              ELSE seen[NotifierOf(c)].generation <= noted[c].generation

\* A task waits at its own notifier only.
Placed == \A c \in Tasks, k \in Notifiers : c \in waiters[k] => k = NotifierOf(c)

NewsInv ==
    /\ NotifyInv
    /\ Placed
    /\ \A k \in Notifiers : Current(k)
    /\ \A c \in Tasks : Answered(c)

LEMMA PlacedStep == ASSUME NotifyInv, Placed, [Next]_vars PROVE Placed'
<1> USE DEF NotifyInv, TypeOK, Placed
<1>1. CASE WriteCache
  BY <1>1, NotifierTyped DEF WriteCache, wakeVars, threadVars, taskVars
<1>2. CASE Announce
  BY <1>2, NotifierTyped DEF Announce, NotifyAll, wakeVars, threadVars, taskVars
<1>3. CASE PublishHook
  BY <1>3, NotifierTyped DEF PublishHook, wakeVars, threadVars, taskVars
<1>4. CASE Refuse
  BY <1>4, NotifierTyped DEF Refuse, NotifyAll, wakeVars, threadVars, taskVars
<1>5. CASE EmptyCache
  BY <1>5, NotifierTyped DEF EmptyCache, wakeVars, threadVars, taskVars
<1>6. CASE Close
  BY <1>6, NotifierTyped DEF Close, wakeVars, threadVars, taskVars
<1>7. CASE NotifyClosed
  BY <1>7, NotifierTyped DEF NotifyClosed, NotifyAll, wakeVars, threadVars, taskVars
<1>8. ASSUME NEW k \in Notifiers, KeepWaiting(k) PROVE Placed'
  BY <1>8, NotifierTyped DEF KeepWaiting, Goto, wakeVars, threadVars, taskVars
<1>9. ASSUME NEW k \in Notifiers, Sleep(k) PROVE Placed'
  BY <1>9, NotifierTyped DEF Sleep, Goto, wakeVars, threadVars, taskVars
<1>10. ASSUME NEW k \in Notifiers, StopWaiting(k) PROVE Placed'
  BY <1>10, NotifierTyped DEF StopWaiting, Goto, Now, wakeVars, threadVars, taskVars
<1>11. ASSUME NEW k \in Notifiers, ReadCache(k) PROVE Placed'
  BY <1>11, NotifierTyped DEF ReadCache, Goto, wakeVars, threadVars, taskVars
<1>12. ASSUME NEW k \in Notifiers, ResolveAll(k) PROVE Placed'
  BY <1>12, NotifierTyped DEF ResolveAll, Goto, wakeVars, threadVars, taskVars
<1>13. ASSUME NEW k \in Notifiers, EndIdle(k) PROVE Placed'
  BY <1>13, NotifierTyped DEF EndIdle, Goto, wakeVars, threadVars, taskVars
<1>14. ASSUME NEW k \in Notifiers, Die(k) PROVE Placed'
  BY <1>14, NotifierTyped DEF Die, Goto, wakeVars, threadVars, taskVars
<1>15. ASSUME NEW c \in Tasks, Begin(c) PROVE Placed'
  BY <1>15 DEF Begin, Proceed, Now, wakeVars, threadVars, taskVars
<1>16. ASSUME NEW c \in Tasks, Register(c) PROVE Placed'
  BY <1>16, NotifierTyped DEF Register, Proceed, Goto, Now, NotifierOf, wakeVars, threadVars, taskVars
<1>17. ASSUME NEW c \in Tasks, Recheck(c) PROVE Placed'
  BY <1>17, NotifierTyped DEF Recheck, Proceed, News, Now, wakeVars, threadVars, taskVars
<1>18. ASSUME NEW c \in Tasks, ReadCached(c) PROVE Placed'
  BY <1>18, NotifierTyped DEF ReadCached, Take, Proceed, wakeVars, threadVars, taskVars
<1>19. ASSUME NEW c \in Tasks, Wake(c) PROVE Placed'
  BY <1>19, NotifierTyped DEF Wake, Take, Proceed, wakeVars, threadVars, taskVars
<1>20. ASSUME NEW c \in Tasks, GiveUp(c) PROVE Placed'
  BY <1>20, NotifierTyped DEF GiveUp, Proceed, wakeVars, threadVars, taskVars
<1>21. CASE UNCHANGED vars
  BY <1>21 DEF vars, wakeVars, threadVars, taskVars
<1> HIDE DEF NotifyInv, TypeOK, Placed
<1> QED
  BY <1>1, <1>2, <1>3, <1>4, <1>5, <1>6, <1>7, <1>8, <1>9, <1>10, <1>11, <1>12,
     <1>13, <1>14, <1>15, <1>16, <1>17, <1>18, <1>19, <1>20, <1>21
  DEF Next, Install, Release, Run, Follow

LEMMA CurrentStep ==
  ASSUME NewsInv, [Next]_vars, NEW m \in Notifiers
  PROVE  Current(m)'
<1> USE TaskAssumption DEF NewsInv, NotifyInv, TypeOK, Counters, Wakes, Report, Current
<1>1. CASE WriteCache
  BY <1>1, NotifierTyped DEF WriteCache, wakeVars, threadVars, taskVars
<1>2. CASE Announce
  BY <1>2, NotifierTyped DEF Announce, NotifyAll, wakeVars, threadVars, taskVars
<1>3. CASE PublishHook
  BY <1>3, NotifierTyped DEF PublishHook, wakeVars, threadVars, taskVars
<1>4. CASE Refuse
  BY <1>4, NotifierTyped DEF Refuse, NotifyAll, wakeVars, threadVars, taskVars
<1>5. CASE EmptyCache
  BY <1>5, NotifierTyped DEF EmptyCache, wakeVars, threadVars, taskVars
<1>6. CASE Close
  BY <1>6, NotifierTyped DEF Close, wakeVars, threadVars, taskVars
<1>7. CASE NotifyClosed
  BY <1>7, NotifierTyped DEF NotifyClosed, NotifyAll, wakeVars, threadVars, taskVars
<1>8. ASSUME NEW k \in Notifiers, KeepWaiting(k) PROVE Current(m)'
  BY <1>8, NotifierTyped DEF KeepWaiting, Goto, wakeVars, threadVars, taskVars
<1>9. ASSUME NEW k \in Notifiers, Sleep(k) PROVE Current(m)'
  BY <1>9, NotifierTyped DEF Sleep, Goto, wakeVars, threadVars, taskVars
<1>10. ASSUME NEW k \in Notifiers, StopWaiting(k) PROVE Current(m)'
  BY <1>10, NotifierTyped DEF StopWaiting, Goto, Now, wakeVars, threadVars, taskVars
<1>11. ASSUME NEW k \in Notifiers, ReadCache(k) PROVE Current(m)'
  <2>1. CASE m # k
    BY <1>11, <2>1 DEF ReadCache, Goto, wakeVars, threadVars, taskVars
  <2>2. CASE m = k
    <3>1. Answer(k, cache).at.generation <= generation
      BY <1>11 DEF ReadCache, Answer, Released
    <3> QED
      BY <1>11, <2>2, <3>1 DEF ReadCache, Goto, wakeVars
  <2> QED
    BY <2>1, <2>2
<1>12. ASSUME NEW k \in Notifiers, ResolveAll(k) PROVE Current(m)'
  BY <1>12, NotifierTyped DEF ResolveAll, Goto, wakeVars, threadVars, taskVars
<1>13. ASSUME NEW k \in Notifiers, EndIdle(k) PROVE Current(m)'
  BY <1>13, NotifierTyped DEF EndIdle, Goto, wakeVars, threadVars, taskVars
<1>14. ASSUME NEW k \in Notifiers, Die(k) PROVE Current(m)'
  BY <1>14, NotifierTyped DEF Die, Goto, wakeVars, threadVars, taskVars
<1>15. ASSUME NEW c \in Tasks, Begin(c) PROVE Current(m)'
  BY <1>15 DEF Begin, Proceed, Now, wakeVars, threadVars, taskVars
<1>16. ASSUME NEW c \in Tasks, Register(c) PROVE Current(m)'
  <2>1. NotifierOf(c) \in Notifiers /\ generation \in Nat /\ generation' = generation
    BY <1>16, NotifierTyped DEF Register, wakeVars
  <2>2. /\ answer' = answer
        /\ seen'[m] \in {seen[m], Now}
        /\ thread'[m] = "resolve" => thread[m] = "resolve"
    BY <1>16, <2>1 DEF Register, Goto
  <2> QED
    BY <2>1, <2>2 DEF Now
<1>17. ASSUME NEW c \in Tasks, Recheck(c) PROVE Current(m)'
  BY <1>17, NotifierTyped DEF Recheck, Proceed, News, Now, wakeVars, threadVars, taskVars
<1>18. ASSUME NEW c \in Tasks, ReadCached(c) PROVE Current(m)'
  BY <1>18, NotifierTyped DEF ReadCached, Take, Proceed, wakeVars, threadVars, taskVars
<1>19. ASSUME NEW c \in Tasks, Wake(c) PROVE Current(m)'
  BY <1>19, NotifierTyped DEF Wake, Take, Proceed, wakeVars, threadVars, taskVars
<1>20. ASSUME NEW c \in Tasks, GiveUp(c) PROVE Current(m)'
  BY <1>20, NotifierTyped DEF GiveUp, Proceed, wakeVars, threadVars, taskVars
<1>21. CASE UNCHANGED vars
  BY <1>21 DEF vars, wakeVars, threadVars, taskVars
<1> HIDE DEF NewsInv, NotifyInv, TypeOK, Counters, Wakes, Report, Current
<1> QED
  BY <1>1, <1>2, <1>3, <1>4, <1>5, <1>6, <1>7, <1>8, <1>9, <1>10, <1>11, <1>12,
     <1>13, <1>14, <1>15, <1>16, <1>17, <1>18, <1>19, <1>20, <1>21
  DEF Next, Install, Release, Run, Follow

LEMMA AnsweredStep ==
  ASSUME NewsInv, [Next]_vars, NEW d \in Tasks
  PROVE  Answered(d)'
<1> USE TaskAssumption DEF NewsInv, NotifyInv, TypeOK, Standing, Report, Listed, Placed,
        Current, Answered
<1>1. CASE WriteCache
  BY <1>1, NotifierTyped DEF WriteCache, wakeVars, threadVars, taskVars
<1>2. CASE Announce
  <2>1. /\ NotifierOf(d) \in Notifiers
        /\ generation \in Nat /\ generation' = generation + 1
        /\ UNCHANGED <<releasing, stage, noted, future, answer, seen>>
    BY <1>2, NotifierTyped DEF Announce, threadVars, taskVars
  <2>2. thread'[NotifierOf(d)] = "resolve" <=> thread[NotifierOf(d)] = "resolve"
    BY <1>2, <2>1 DEF Announce, NotifyAll
  <2>3. future[d] \in Wakes => future[d].at.generation \in Nat
    BY DEF Wakes, Counters
  <2> QED
    BY <2>1, <2>2, <2>3
<1>3. CASE PublishHook
  BY <1>3, NotifierTyped DEF PublishHook, wakeVars, threadVars, taskVars
<1>4. CASE Refuse
  BY <1>4, NotifierTyped DEF Refuse, NotifyAll, wakeVars, threadVars, taskVars
<1>5. CASE EmptyCache
  BY <1>5, NotifierTyped DEF EmptyCache, wakeVars, threadVars, taskVars
<1>6. CASE Close
  BY <1>6, NotifierTyped DEF Close, wakeVars, threadVars, taskVars
<1>7. CASE NotifyClosed
  BY <1>7, NotifierTyped DEF NotifyClosed, NotifyAll, wakeVars, threadVars, taskVars
<1>8. ASSUME NEW k \in Notifiers, KeepWaiting(k) PROVE Answered(d)'
  BY <1>8, NotifierTyped DEF KeepWaiting, Goto, wakeVars, threadVars, taskVars
<1>9. ASSUME NEW k \in Notifiers, Sleep(k) PROVE Answered(d)'
  BY <1>9, NotifierTyped DEF Sleep, Goto, wakeVars, threadVars, taskVars
<1>10. ASSUME NEW k \in Notifiers, StopWaiting(k) PROVE Answered(d)'
  BY <1>10, NotifierTyped DEF StopWaiting, Goto, Now, wakeVars, threadVars, taskVars
<1>11. ASSUME NEW k \in Notifiers, ReadCache(k) PROVE Answered(d)'
  <2> DEFINE j == NotifierOf(d)
  <2>1. CASE j # k
    BY <1>11, <2>1, NotifierTyped DEF ReadCache, Goto, wakeVars, threadVars, taskVars
  <2>2. CASE j = k
    <3>1. /\ thread[k] = "read" /\ thread'[k] = "resolve" /\ answer'[k] = Answer(k, cache)
          /\ UNCHANGED <<releasing, stage, future, noted, generation>>
      BY <1>11 DEF ReadCache, Goto, wakeVars, taskVars
    <3>2. /\ answer[k].at \in Counters /\ seen[k] \in Counters /\ noted[d] \in Counters
          /\ answer[k].at.generation \in Nat /\ seen[k].generation \in Nat
          /\ noted[d].generation \in Nat /\ cache \in Nat
      BY DEF Wakes, Counters
    \* Until a release the cache holds what moved the generation.
    <3>3. ASSUME releasing = "no", Answer(k, cache).model = 0
          PROVE  Answer(k, cache).at.generation <= seen[k].generation
      <4>1. ~(answer[k].at.generation > seen[k].generation)
        <5>1. SUFFICES ASSUME answer[k].at.generation > seen[k].generation PROVE FALSE
          OBVIOUS
        <5>2. cache >= generation /\ generation >= answer[k].at.generation
          BY <3>1, <3>3
        <5>3. cache # 0
          BY <3>2, <5>1, <5>2
        <5>4. Answer(k, cache).model = cache
          BY <5>1, <5>3 DEF Answer
        <5> QED BY <3>3, <5>3, <5>4
      <4> QED
        BY <3>2, <4>1 DEF Answer, Released
    <3>4. ASSUME releasing = "no", stage[d] = "await", future[d] = Pending,
                 Answer(k, cache).model = 0
          PROVE  Answer(k, cache).at.generation <= noted[d].generation
      <4>1. seen[k].generation <= noted[d].generation
        BY <2>2, <3>1, <3>4
      <4>2. Answer(k, cache).at.generation \in Nat
        BY <3>2 DEF Answer, Released
      <4> QED
        BY <3>2, <3>3, <3>4, <4>1, <4>2
    <3> QED
      BY <2>2, <3>1, <3>4
  <2> QED
    BY <2>1, <2>2
<1>12. ASSUME NEW k \in Notifiers, ResolveAll(k) PROVE Answered(d)'
  <2> DEFINE j == NotifierOf(d)
  <2>1. /\ future'[d] = IF d \in waiters[k] /\ future[d] = Pending
                        THEN answer[k] ELSE future[d]
        /\ UNCHANGED <<releasing, stage, noted, generation, seen>>
        /\ thread[k] = "resolve"
    BY <1>12 DEF ResolveAll, wakeVars
  <2>2. j \in Notifiers /\ answer[k] \in Wakes /\ Pending \notin Wakes
    BY NotifierTyped DEF Wakes, Counters
  <2>3. CASE j # k
    <3>1. /\ thread'[j] = thread[j] /\ answer'[j] = answer[j]
      BY <1>12, <2>2, <2>3 DEF ResolveAll, Goto
    <3>2. d \notin waiters[k]
      BY <2>3
    <3> QED
      BY <2>1, <3>1, <3>2
  <2>4. CASE j = k
    <3>1. releasing = "no" => answer[k] # Released /\ answer[k].at.generation <= generation
      BY <2>1
    <3>2. releasing = "no" /\ stage[d] = "await" => future'[d] # Pending
      BY <2>1, <2>2, <2>4
    <3> QED
      BY <2>1, <2>4, <3>1, <3>2
  <2> QED
    BY <2>3, <2>4
<1>13. ASSUME NEW k \in Notifiers, EndIdle(k) PROVE Answered(d)'
  BY <1>13, NotifierTyped DEF EndIdle, Goto, wakeVars, threadVars, taskVars
<1>14. ASSUME NEW k \in Notifiers, Die(k) PROVE Answered(d)'
  BY <1>14, NotifierTyped DEF Die, Goto, wakeVars, threadVars, taskVars
<1>15. ASSUME NEW c \in Tasks, Begin(c) PROVE Answered(d)'
  BY <1>15 DEF Begin, Proceed, Now, wakeVars, threadVars, taskVars
<1>16. ASSUME NEW c \in Tasks, Register(c) PROVE Answered(d)'
  BY <1>16, NotifierTyped DEF Register, Proceed, Goto, Now, NotifierOf, wakeVars, threadVars, taskVars
<1>17. ASSUME NEW c \in Tasks, Recheck(c) PROVE Answered(d)'
  <2>1. /\ UNCHANGED <<releasing, generation, thread, seen, answer, noted>>
        /\ d # c => stage'[d] = stage[d] /\ future'[d] = future[d]
        /\ stage'[c] \in {"await", "read"}
        /\ stage'[c] = "await" => ~News(c) /\ future'[c] = future[c] /\ stage[c] = "check"
    BY <1>17 DEF Recheck, Proceed, wakeVars, threadVars, taskVars
  <2>2. CASE d # c
    BY <2>1, <2>2
  <2>3. CASE d = c /\ stage'[c] = "await"
    <3>1. generation <= noted[d].generation /\ NotifierOf(d) \in Notifiers
      BY <2>1, <2>3, NotifierTyped DEF News, Counters
    <3>2. /\ noted[d].generation \in Nat /\ generation \in Nat
          /\ seen[NotifierOf(d)].generation \in Nat
          /\ answer[NotifierOf(d)].at.generation \in Nat
          /\ future[d] \in Wakes => future[d].at.generation \in Nat
      BY <3>1 DEF Wakes, Counters
    <3>3. /\ seen[NotifierOf(d)].generation <= noted[d].generation
          /\ thread[NotifierOf(d)] = "resolve" =>
                 answer[NotifierOf(d)].at.generation <= noted[d].generation
      BY <3>1, <3>2
    <3>4. releasing = "no" /\ future[d] # Pending =>
             future[d] # Released /\ future[d].at.generation <= noted[d].generation
      <4>1. future[d] # NoFuture
        BY <2>1, <2>3
      <4> QED
        BY <2>1, <2>3, <3>1, <3>2, <4>1
    <3> QED
      BY <2>1, <2>3, <3>3, <3>4
  <2>4. CASE d = c /\ stage'[c] = "read"
    BY <2>1, <2>4
  <2> QED
    BY <2>1, <2>2, <2>3, <2>4
<1>18. ASSUME NEW c \in Tasks, ReadCached(c) PROVE Answered(d)'
  BY <1>18, NotifierTyped DEF ReadCached, Take, Proceed, wakeVars, threadVars, taskVars
<1>19. ASSUME NEW c \in Tasks, Wake(c) PROVE Answered(d)'
  BY <1>19, NotifierTyped DEF Wake, Take, Proceed, wakeVars, threadVars, taskVars
<1>20. ASSUME NEW c \in Tasks, GiveUp(c) PROVE Answered(d)'
  BY <1>20, NotifierTyped DEF GiveUp, Proceed, wakeVars, threadVars, taskVars
<1>21. CASE UNCHANGED vars
  BY <1>21 DEF vars, wakeVars, threadVars, taskVars
<1> HIDE DEF NewsInv, NotifyInv, TypeOK, Standing, Report, Listed, Placed, Current,
         Answered
<1> QED
  BY <1>1, <1>2, <1>3, <1>4, <1>5, <1>6, <1>7, <1>8, <1>9, <1>10, <1>11, <1>12,
     <1>13, <1>14, <1>15, <1>16, <1>17, <1>18, <1>19, <1>20, <1>21
  DEF Next, Install, Release, Run, Follow

LEMMA NewsInvariant == Spec => []NewsInv
<1>1. Init => NewsInv
  BY NotifyInit, TaskAssumption
     DEF Init, NewsInv, Placed, Current, Answered
<1>2. NewsInv /\ [Next]_vars => NewsInv'
  <2> SUFFICES ASSUME NewsInv, [Next]_vars PROVE NewsInv'
    OBVIOUS
  <2>1. NotifyInv /\ Placed
    BY DEF NewsInv
  <2>2. NotifyInv'
    BY <2>1, TypeStep, LockStep, ReportStep, ListedStep DEF NotifyInv
  <2>3. Placed'
    BY <2>1, PlacedStep
  <2> QED
    BY <2>2, <2>3, CurrentStep, AnsweredStep DEF NewsInv
<1> QED
  BY <1>1, <1>2, PTL DEF Spec

\* A task that takes a wake which is neither a release nor news without a model
\* goes on, if it is a stream.
LEMMA TakeGoesOn ==
  ASSUME TypeOK, NEW c \in Followers \cup Auditors, NEW w, Take(c, w), w # Released,
         ~(w.at.generation > noted[c].generation /\ w.model = 0)
  PROVE  stage'[c] = "register"
<1>1. c \in Tasks /\ c \notin Singles
  BY TaskAssumption DEF Tasks
<1> QED
  BY <1>1 DEF Take, Proceed, TypeOK

\* A changes() or an events() that has been given a model ends by a release and
\* by nothing else, in any build.
THEOREM EndsOnlyByReleaseThm == Spec => EndsOnlyByRelease
<1> DEFINE Ends == \A c \in Followers \cup Auditors :
                      stage[c] # "ended" /\ stage'[c] = "ended" /\ cached # 0
                          => releasing # "no"
<1>1. ASSUME NewsInv, [Next]_vars, NEW d \in Followers \cup Auditors,
             stage[d] # "ended", stage'[d] = "ended", cached # 0
      PROVE  releasing # "no"
  <2> SUFFICES ASSUME releasing = "no" PROVE FALSE
    OBVIOUS
  <2>t. /\ d \in Tasks /\ TypeOK /\ Listed(d) /\ Answered(d)
        /\ \A k \in Notifiers : Report(k)
    BY <1>1 DEF NewsInv, NotifyInv, Tasks
  <2>1. PICK c \in Tasks : Begin(c) \/ Register(c) \/ Recheck(c) \/ ReadCached(c)
                             \/ Wake(c) \/ GiveUp(c)
    BY <1>1 DEF Next, Install, Release, Run, Follow, WriteCache, Announce, PublishHook,
       Refuse, EmptyCache, Close, NotifyClosed, KeepWaiting, Sleep, StopWaiting,
       ReadCache, ResolveAll, EndIdle, Die, vars, taskVars
  <2>2. c = d
    BY <1>1, <2>1, <2>t DEF Begin, Register, Recheck, ReadCached, Wake, GiveUp, Take,
       Proceed, TypeOK
  <2>3. CASE ReadCached(d)
    <3>1. future[d] \in Wakes
      BY <2>3, <2>t DEF ReadCached, Listed
    <3>2. [future[d] EXCEPT !.model = cached].model = cached
      BY <3>1 DEF Wakes
    <3>3. [future[d] EXCEPT !.model = cached] # Released
      BY <1>1, <3>2 DEF Released
    <3> QED
      BY <1>1, <2>3, <2>t, <3>2, <3>3, TakeGoesOn DEF ReadCached
  <2>4. CASE Wake(d)
    <3>1. /\ future[d] # Released /\ future[d] \in Wakes
          /\ future[d].model = 0 => future[d].at.generation <= noted[d].generation
      BY <2>4, <2>t DEF Wake, Answered, Listed, TypeOK
    <3>2. future[d].at.generation \in Nat /\ noted[d].generation \in Nat
      BY <2>t, <3>1 DEF Wakes, TypeOK, Counters
    <3>3. ~(future[d].at.generation > noted[d].generation /\ future[d].model = 0)
      BY <3>1, <3>2
    <3> QED
      BY <1>1, <2>4, <2>t, <3>1, <3>3, TakeGoesOn DEF Wake
  <2>5. CASE Begin(d) \/ Register(d) \/ Recheck(d) \/ GiveUp(d)
    BY <1>1, <2>5, <2>t DEF Begin, Register, Recheck, GiveUp, Proceed, TypeOK
  <2> QED
    BY <2>1, <2>2, <2>3, <2>4, <2>5
<1>2. NewsInv /\ [Next]_vars => [Ends]_vars
  BY <1>1
<1>3. EndsOnlyByRelease <=> [][Ends]_vars
  BY PTL DEF EndsOnlyByRelease
<1> HIDE DEF Ends
<1> QED
  BY NewsInvariant, <1>2, <1>3, PTL DEF Spec

=============================================================================
