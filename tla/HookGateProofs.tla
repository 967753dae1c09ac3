--------------------------- MODULE HookGateProofs ---------------------------
(***************************************************************************)
(* Proofs about HookGate, for any number of installs and of overlapping    *)
(* hook rounds, whether calls die or not; and about the list of hooks the  *)
(* rounds are started from (Hooks), for any models, filters and number of  *)
(* installs.                                                               *)
(***************************************************************************)
EXTENDS HookGate, Hooks, TLAPS

LEMMA TypeInit == Init => TypeOK
<1> SUFFICES ASSUME Init PROVE TypeOK
  OBVIOUS
<1>1. queue \in Seq(Installs) /\ call \in [Installs -> Stages]
  BY DEF Init, Stages
<1>2. inbox \in Seq(Installs)
  BY DEF Init
<1>3. submitted \in Seq(Installs)
  BY DEF Init
<1>4. begun \in Seq(Installs)
  BY DEF Init
<1> QED BY <1>1, <1>2, <1>3, <1>4 DEF Init, TypeOK

\* Every step of the gate, of a call or of the loop keeps the types.
LEMMA TypeStep == TypeOK /\ [Next]_vars => TypeOK'
<1> SUFFICES ASSUME TypeOK, [Next]_vars PROVE TypeOK'
  OBVIOUS
<1> USE DEF TypeOK, Stages, Goto, gateVars, loopVars, history
<1>1. ASSUME NEW n \in Installs, Install(n) PROVE TypeOK'
  BY <1>1 DEF Install
<1>2. ASSUME NEW n \in Installs, Post(n) PROVE TypeOK'
  BY <1>2 DEF Post
<1>3. ASSUME NEW n \in Installs, Arrives(n)
      PROVE submitted' \in Seq(Installs) /\ inbox' \in Seq(Installs)
  <2>1. submitted' \in Seq(Installs)
    BY <1>3 DEF Arrives
  <2>2. CASE UNCHANGED inbox
    BY <2>1, <2>2
  <2>3. CASE inbox # <<>> /\ inbox' = Tail(inbox)
    <3>1. inbox' \in Seq(Installs)
      BY <2>3
    <3> QED BY <2>1, <3>1
  <2> QED BY <1>3, <2>2, <2>3 DEF Arrives
<1>4. ASSUME NEW n \in Installs, Admit(n)
      PROVE /\ call' \in [Installs -> Stages]
            /\ task' \in Installs \cup {0}
            /\ begun' \in Seq(Installs)
  <2>1. call' \in [Installs -> Stages] /\ task' \in Installs \cup {0}
    BY <1>4 DEF Admit
  <2>2. CASE begun' = begun
    BY <2>1, <2>2
  <2>3. CASE begun' = Append(begun, n)
    <3>1. begun' \in Seq(Installs)
      BY <2>3
    <3> QED BY <2>1, <3>1
  <2> QED BY <1>4, <2>2, <2>3 DEF Admit
<1>5. ASSUME NEW n \in Installs, SubmitEvery(n) PROVE TypeOK'
  BY <1>3, <1>4, <1>5 DEF SubmitEvery
<1>6. ASSUME NEW n \in Installs, SubmitIdle(n) PROVE TypeOK'
  BY <1>3, <1>4, <1>6 DEF SubmitIdle
<1>7. ASSUME NEW n \in Installs, SubmitLatest(n) PROVE TypeOK'
  <2>1. call' \in [Installs -> Stages]
    BY <1>7 DEF SubmitLatest
  <2> QED BY <1>3, <1>7, <2>1 DEF SubmitLatest
<1>8. ASSUME NEW n \in Installs, SubmitSerial(n) PROVE TypeOK'
  BY <1>3, <1>8 DEF SubmitSerial
<1>9. ASSUME NEW n \in Installs, SubmitCancelling(n) PROVE TypeOK'
  <2>1. cancelled' \subseteq Installs
    BY <1>9 DEF SubmitCancelling
  <2> QED BY <1>3, <1>4, <1>9, <2>1 DEF SubmitCancelling
<1>10. ASSUME NEW n \in Installs, Start(n) PROVE TypeOK'
  BY <1>10 DEF Start
<1>11. ASSUME NEW n \in Installs, StartFails(n) PROVE TypeOK'
  BY <1>11 DEF StartFails
<1>12. ASSUME NEW n \in Installs, Return(n) PROVE TypeOK'
  BY <1>12 DEF Return
<1>13. ASSUME NEW n \in Installs, Die(n) PROVE TypeOK'
  BY <1>13 DEF Die
<1>14. ASSUME NEW n \in Installs, Cancelled(n) PROVE TypeOK'
  BY <1>14 DEF Cancelled
<1>15. ASSUME NEW n \in Installs, FinishIdle(n) PROVE TypeOK'
  BY <1>15 DEF FinishIdle
<1>16. ASSUME NEW n \in Installs, FinishNext(n) PROVE TypeOK'
  <2>1. Head(queue) \in Installs /\ Tail(queue) \in Seq(Installs)
    BY <1>16 DEF FinishNext
  <2>2. CASE dispatch = "executor"
    BY <1>16, <2>1, <2>2 DEF FinishNext
  <2>3. CASE dispatch # "executor"
    <3>1. /\ task' \in Installs
          /\ call' \in [Installs -> Stages]
      BY <1>16, <2>1, <2>3 DEF FinishNext
    <3>2. begun' = Append(begun, Head(queue))
      BY <1>16, <2>3 DEF FinishNext
    <3>3. begun' \in Seq(Installs)
      BY <2>1, <3>2
    <3> QED BY <1>16, <2>1, <3>1, <3>3 DEF FinishNext
  <2> QED BY <2>2, <2>3
<1>17. CASE UNCHANGED vars
  BY <1>17 DEF vars
<1> QED
  BY <1>1, <1>2, <1>5, <1>6, <1>7, <1>8, <1>9, <1>10, <1>11, <1>12, <1>13, <1>14,
     <1>15, <1>16, <1>17 DEF Next, Progress, Submit, Finish

\* The hook's bookkeeping has its types.
THEOREM HookTypes == Spec => []TypeOK
BY TypeInit, TypeStep, PTL DEF Spec

-----------------------------------------------------------------------------
\* Where the calls in the two queues are, each of them once.
Listed ==
    /\ \A i \in 1..Len(inbox) : call[inbox[i]] = "scheduled"
    /\ \A i, j \in 1..Len(inbox) : inbox[i] = inbox[j] => i = j
    /\ \A i \in 1..Len(queue) : call[queue[i]] = "queued"
    /\ \A i, j \in 1..Len(queue) : queue[i] = queue[j] => i = j

\* The gate's policies, one call at a time, behind a flag that is up.
Guarded ==
    policy \in OneByOne =>
        /\ OneAtATime
        /\ \A n \in Installs : Active(n) => running
        /\ queue # <<>> => running
        /\ running => \E n \in Installs : Active(n) \/ Dead(n)

\* cancel_previous runs on a loop, past the gate.
Past ==
    /\ dispatch = "asyncio" =>
           \A n \in Installs : call[n] \notin {"starting", "restarting", "ended"}
    /\ policy = "cancel_previous" => dispatch = "asyncio" /\ queue = <<>>
    /\ SupersededAreCancelled

GateInv == TypeOK /\ Listed /\ Guarded /\ Past

LEMMA GateInit == Init => GateInv
<1> SUFFICES ASSUME Init PROVE GateInv
  OBVIOUS
<1>1. TypeOK
  BY TypeInit
<1>2. Listed
  BY DEF Init, Listed
<1>3. Guarded
  BY DEF Init, Guarded, OneAtATime, Active
<1>4. Past
  BY DEF Init, Past, SupersededAreCancelled
<1> QED BY <1>1, <1>2, <1>3, <1>4 DEF GateInv

\* A call that arrives was in neither queue, and leaves the inbox.
LEMMA Arriving ==
    ASSUME GateInv, NEW n \in Installs, Arrives(n)
    PROVE  /\ call[n] \in {"posted", "scheduled"}
           /\ \A i \in 1..Len(inbox') :
                  /\ inbox'[i] # n
                  /\ call[inbox'[i]] = "scheduled"
           /\ \A i, j \in 1..Len(inbox') : inbox'[i] = inbox'[j] => i = j
<1> USE DEF GateInv, TypeOK, Listed
<1>1. CASE dispatch = "executor" /\ call[n] = "posted" /\ UNCHANGED inbox
  BY <1>1
<1>2. CASE dispatch = "asyncio" /\ inbox # <<>> /\ n = Head(inbox) /\ inbox' = Tail(inbox)
  <2>1. /\ inbox[1] = n /\ call[n] = "scheduled"
        /\ Len(inbox') = Len(inbox) - 1
        /\ 1 \in 1..Len(inbox)
        /\ \A i \in 1..Len(inbox') : /\ i + 1 \in 1..Len(inbox) /\ i + 1 # 1
                                     /\ inbox'[i] = inbox[i + 1]
    BY <1>2
  <2>2. ASSUME NEW i \in 1..Len(inbox')
        PROVE  inbox'[i] # n /\ call[inbox'[i]] = "scheduled"
    BY <2>1, ZenonT(40)
  <2>3. ASSUME NEW i \in 1..Len(inbox'), NEW j \in 1..Len(inbox'), inbox'[i] = inbox'[j]
        PROVE  i = j
    BY <2>1, <2>3
  <2> QED BY <2>1, <2>2, <2>3
<1> QED BY <1>1, <1>2 DEF Arrives


\* A call changes place only at its own step, at the head of the queue or, under
\* latest, in the slot that is overwritten.
LEMMA ListedStep == GateInv /\ [Next]_vars => Listed'
<1> SUFFICES ASSUME GateInv, [Next]_vars PROVE Listed'
  OBVIOUS
<1> USE DEF GateInv, TypeOK, Listed, Goto, gateVars, loopVars, history
<1>1. ASSUME NEW n \in Installs, call[n] \notin {"queued", "scheduled"},
             UNCHANGED <<inbox, queue>>,
             \A m \in Installs \ {n} : call'[m] = call[m]
      PROVE  Listed'
  BY <1>1
<1>2. ASSUME NEW n \in Installs, Install(n) PROVE Listed'
  BY <1>1, <1>2 DEF Install
<1>3. ASSUME NEW n \in Installs, Post(n) PROVE Listed'
  <2>1. /\ Len(inbox') = Len(inbox) + 1
        /\ \A i \in 1..Len(inbox) : inbox'[i] = inbox[i] /\ inbox[i] # n
        /\ inbox'[Len(inbox')] = n
    BY <1>3 DEF Post
  <2>2. \A i \in 1..Len(queue) : queue[i] # n
    BY <1>3 DEF Post
  <2>3. call' = [call EXCEPT ![n] = "scheduled"] /\ UNCHANGED queue
    BY <1>3 DEF Post
  <2>4. \A i \in 1..Len(inbox') : call'[inbox'[i]] = "scheduled"
    BY <2>1, <2>3
  <2>5. \A i, j \in 1..Len(inbox') : inbox'[i] = inbox'[j] => i = j
    BY <2>1
  <2>6. \A i \in 1..Len(queue') : call'[queue'[i]] = "queued"
    BY <2>2, <2>3
  <2> QED BY <2>3, <2>4, <2>5, <2>6
<1>4. ASSUME NEW n \in Installs, Arrives(n), UNCHANGED queue,
             \A m \in Installs \ {n} : call'[m] = call[m]
      PROVE  Listed'
  <2>1. call[n] # "queued"
    BY <1>4, Arriving
  <2>2. \A i \in 1..Len(queue) : queue[i] # n
    BY <2>1
  <2>3. inbox' \in Seq(Installs)
    BY TypeStep
  <2> QED BY <1>4, <2>2, <2>3, Arriving
<1>5. ASSUME NEW n \in Installs, SubmitEvery(n) PROVE Listed'
  BY <1>4, <1>5 DEF SubmitEvery, Admit
<1>6. ASSUME NEW n \in Installs, SubmitIdle(n) PROVE Listed'
  BY <1>4, <1>6 DEF SubmitIdle, Admit
<1>7. ASSUME NEW n \in Installs, SubmitLatest(n) PROVE Listed'
  <2>1. Arrives(n) /\ queue' = <<n>> /\ call'[n] = "queued"
    BY <1>7 DEF SubmitLatest
  <2>2. \A m \in Installs : call[m] = "scheduled" /\ m # n => call'[m] = "scheduled"
    <3>1. ASSUME NEW m \in Installs, call[m] = "scheduled" PROVE m \notin Range(queue)
      BY <3>1 DEF Range
    <3> QED BY <1>7, <3>1 DEF SubmitLatest
  <2>3. inbox' \in Seq(Installs)
    BY TypeStep
  <2>4. \A i \in 1..Len(inbox') : inbox'[i] \in Installs
    BY <2>3
  <2>5. \A i \in 1..Len(inbox') : call'[inbox'[i]] = "scheduled"
    BY <2>1, <2>2, <2>4, Arriving
  <2>6. \A i, j \in 1..Len(inbox') : inbox'[i] = inbox'[j] => i = j
    BY <2>1, Arriving
  <2> QED BY <2>1, <2>5, <2>6
<1>8. ASSUME NEW n \in Installs, SubmitSerial(n) PROVE Listed'
  <2>1. Arrives(n) /\ call' = [call EXCEPT ![n] = "queued"]
    BY <1>8 DEF SubmitSerial
  <2>2. \A i \in 1..Len(queue) : queue[i] # n
    BY <2>1, Arriving
  <2>3. /\ Len(queue') = Len(queue) + 1
        /\ \A i \in 1..Len(queue) : queue'[i] = queue[i]
        /\ queue'[Len(queue')] = n
    BY <1>8 DEF SubmitSerial
  <2>4. inbox' \in Seq(Installs)
    BY TypeStep
  <2>5. \A i \in 1..Len(inbox') : inbox'[i] \in Installs
    BY <2>4
  <2>6. /\ \A i \in 1..Len(inbox') : call'[inbox'[i]] = "scheduled"
        /\ \A i, j \in 1..Len(inbox') : inbox'[i] = inbox'[j] => i = j
    BY <2>1, <2>5, Arriving
  <2>7. \A i \in 1..Len(queue') : call'[queue'[i]] = "queued"
    BY <2>1, <2>2, <2>3, SMTT(30)
  <2>8. ASSUME NEW i \in 1..Len(queue'), NEW j \in 1..Len(queue'), queue'[i] = queue'[j]
        PROVE  i = j
    <3>1. CASE i \in 1..Len(queue) /\ j \in 1..Len(queue)
      BY <2>3, <2>8, <3>1
    <3>2. CASE i = Len(queue') /\ j \in 1..Len(queue)
      BY <2>2, <2>3, <2>8, <3>2
    <3>3. CASE i \in 1..Len(queue) /\ j = Len(queue')
      BY <2>2, <2>3, <2>8, <3>3
    <3>4. CASE i = Len(queue') /\ j = Len(queue')
      BY <3>4
    <3>5. Len(queue) \in Nat
      OBVIOUS
    <3> HIDE DEF TypeOK
    <3> QED BY <2>3, <3>1, <3>2, <3>3, <3>4, <3>5
  <2> QED BY <2>6, <2>7, <2>8
<1>9. ASSUME NEW n \in Installs, SubmitCancelling(n) PROVE Listed'
  BY <1>4, <1>9 DEF SubmitCancelling, Admit
<1>10. ASSUME NEW n \in Installs, Start(n) PROVE Listed'
  BY <1>1, <1>10 DEF Start
<1>11. ASSUME NEW n \in Installs, StartFails(n) PROVE Listed'
  BY <1>1, <1>11 DEF StartFails
<1>12. ASSUME NEW n \in Installs, Return(n) PROVE Listed'
  BY <1>1, <1>12 DEF Return
<1>13. ASSUME NEW n \in Installs, Die(n) PROVE Listed'
  BY <1>1, <1>13 DEF Die
<1>14. ASSUME NEW n \in Installs, Cancelled(n) PROVE Listed'
  BY <1>1, <1>14 DEF Cancelled
<1>15. ASSUME NEW n \in Installs, FinishIdle(n) PROVE Listed'
  BY <1>1, <1>15 DEF FinishIdle, Ending
<1>16. ASSUME NEW n \in Installs, FinishNext(n) PROVE Listed'
  <2>1. /\ queue[1] = Head(queue) /\ Head(queue) \in Installs
        /\ 1 \in 1..Len(queue)
        /\ Len(queue') = Len(queue) - 1
        /\ \A i \in 1..Len(queue') : /\ i + 1 \in 1..Len(queue) /\ i + 1 # 1
                                     /\ queue'[i] = queue[i + 1]
    BY <1>16 DEF FinishNext
  <2>2. call[n] \notin {"queued", "scheduled"} /\ call[Head(queue)] = "queued"
    BY <1>16, <2>1 DEF FinishNext, Ending
  <2>3. \A m \in Installs \ {n, Head(queue)} : call'[m] = call[m]
    BY <1>16, <2>1 DEF FinishNext
  <2>4. \A i \in 1..Len(queue') : queue'[i] \in Installs \ {n, Head(queue)}
    BY <2>1, <2>2
  <2>5. \A i, j \in 1..Len(queue') : queue'[i] = queue'[j] => i = j
    BY <2>1, SMTT(30)
  <2>6. UNCHANGED inbox
    BY <1>16 DEF FinishNext
  <2>7. \A i \in 1..Len(inbox) : inbox[i] \in Installs \ {n, Head(queue)}
    BY <2>2
  <2>8. ASSUME NEW i \in 1..Len(queue') PROVE call'[queue'[i]] = "queued"
    <3>1. queue'[i] = queue[i + 1] /\ call[queue[i + 1]] = "queued"
      BY <2>1
    <3> QED BY <2>3, <2>4, <3>1
  <2>9. \A i \in 1..Len(inbox') : call'[inbox'[i]] = "scheduled"
    BY <2>3, <2>6, <2>7
  <2> QED BY <2>5, <2>6, <2>8, <2>9
<1>17. CASE UNCHANGED vars
  BY <1>17 DEF vars
<1> QED
  BY <1>2, <1>3, <1>5, <1>6, <1>7, <1>8, <1>9, <1>10, <1>11, <1>12, <1>13, <1>14,
     <1>15, <1>16, <1>17 DEF Next, Progress, Submit, Finish

\* Under latest and serial the gate lets a call through only while its flag is
\* down, and takes the flag down only when nothing waits.
LEMMA GuardedStep == GateInv /\ [Next]_vars => Guarded'
<1> SUFFICES ASSUME GateInv, [Next]_vars, policy' \in OneByOne PROVE
                 /\ OneAtATime'
                 /\ \A n \in Installs : Active(n)' => running'
                 /\ queue' # <<>> => running'
                 /\ running' => \E n \in Installs : Active(n)' \/ Dead(n)'
  BY DEF Guarded
<1> DEFINE Goal == /\ OneAtATime'
                   /\ \A n \in Installs : Active(n)' => running'
                   /\ queue' # <<>> => running'
                   /\ running' => \E n \in Installs : Active(n)' \/ Dead(n)'
<1>a. policy' = policy
  BY DEF Next, Progress, Submit, Finish, Install, Post, SubmitEvery, SubmitIdle,
     SubmitLatest, SubmitSerial, SubmitCancelling, Start, StartFails, Return, Die,
     Cancelled, FinishIdle, FinishNext, vars
<1>b. /\ \A m, n \in Installs : Active(m) /\ Active(n) => m = n
      /\ \A n \in Installs : Active(n) => running
      /\ queue # <<>> => running
      /\ running => \E n \in Installs : Active(n) \/ Dead(n)
  BY <1>a DEF GateInv, Guarded, OneAtATime
<1>c. call \in [Installs -> Stages] /\ queue \in Seq(Installs)
  BY DEF GateInv, TypeOK
<1> USE <1>a, <1>b, <1>c DEF Goto, gateVars, loopVars, history, Active, Dead, OneAtATime
\* A step of one call that keeps it let through, or not, or ends it dead.
<1>1. ASSUME NEW n \in Installs, UNCHANGED <<running, queue>>,
             \A m \in Installs \ {n} : call'[m] = call[m],
             \/ ~Active(n) /\ ~Active(n)' /\ ~Dead(n)
             \/ Active(n) /\ (Active(n)' \/ Dead(n)')
      PROVE  Goal
  BY <1>1
<1>2. ASSUME NEW n \in Installs, Install(n) PROVE Goal
  BY <1>1, <1>2 DEF Install
<1>3. ASSUME NEW n \in Installs, Post(n) PROVE Goal
  BY <1>1, <1>3 DEF Post
<1>4. ASSUME NEW n \in Installs, SubmitEvery(n) PROVE Goal
  BY <1>4 DEF SubmitEvery, OneByOne
<1>5. ASSUME NEW n \in Installs, SubmitIdle(n) PROVE Goal
  <2>1. ~running /\ running' /\ queue' = queue
    BY <1>5 DEF SubmitIdle
  <2>2. /\ \A m \in Installs \ {n} : call'[m] = call[m]
        /\ call'[n] \in {"starting", "live"}
    BY <1>5 DEF SubmitIdle, Admit
  <2> QED BY <2>1, <2>2
<1>6. ASSUME NEW n \in Installs, SubmitLatest(n) PROVE Goal
  <2>1. Arrives(n) /\ running /\ running'
    BY <1>6 DEF SubmitLatest
  <2>2. call[n] \in {"posted", "scheduled"}
    BY <2>1, Arriving
  <2>3. ASSUME NEW m \in Installs, m \in Range(queue) PROVE call[m] = "queued"
    BY <2>3 DEF GateInv, Listed, Range
  <2>4. \A m \in Installs : Active(m)' <=> Active(m)
    BY <1>6, <2>2, <2>3 DEF SubmitLatest
  <2>5. \A m \in Installs : Dead(m)' <=> Dead(m)
    BY <1>6, <2>2, <2>3 DEF SubmitLatest
  <2> QED BY <2>1, <2>4, <2>5
<1>7. ASSUME NEW n \in Installs, SubmitSerial(n) PROVE Goal
  <2>1. Arrives(n) /\ running /\ running' /\ call' = [call EXCEPT ![n] = "queued"]
    BY <1>7 DEF SubmitSerial
  <2>2. call[n] \in {"posted", "scheduled"}
    BY <2>1, Arriving
  <2> QED BY <2>1, <2>2
<1>8. ASSUME NEW n \in Installs, SubmitCancelling(n) PROVE Goal
  BY <1>8 DEF SubmitCancelling, OneByOne
<1>9. ASSUME NEW n \in Installs, Start(n) PROVE Goal
  BY <1>1, <1>9 DEF Start
<1>10. ASSUME NEW n \in Installs, StartFails(n) PROVE Goal
  BY <1>1, <1>10 DEF StartFails
<1>11. ASSUME NEW n \in Installs, Return(n) PROVE Goal
  BY <1>1, <1>11 DEF Return
<1>12. ASSUME NEW n \in Installs, Die(n) PROVE Goal
  BY <1>1, <1>12 DEF Die
<1>13. ASSUME NEW n \in Installs, Cancelled(n) PROVE Goal
  BY <1>1, <1>13 DEF Cancelled
<1>14. ASSUME NEW n \in Installs, FinishIdle(n) PROVE Goal
  <2>1. queue' = <<>> /\ ~running' /\ call' = [call EXCEPT ![n] = "done"]
    BY <1>14 DEF FinishIdle
  <2>2. Active(n)
    BY <1>14 DEF FinishIdle, Ending
  <2> QED BY <2>1, <2>2
<1>15. ASSUME NEW n \in Installs, FinishNext(n) PROVE Goal
  <2>1. Active(n) /\ Head(queue) \in Installs
    BY <1>15 DEF FinishNext, Ending
  <2>2. /\ \A m \in Installs \ {n, Head(queue)} : call'[m] = call[m]
        /\ call'[Head(queue)] \in {"restarting", "live"}
        /\ n # Head(queue) => call'[n] = "done"
    BY <1>15, <2>1 DEF FinishNext
  <2>3. running /\ running'
    BY <1>15, <2>1 DEF FinishNext
  <2>4. \A m \in Installs : Active(m)' <=> m = Head(queue)
    BY <2>1, <2>2
  <2> QED BY <2>1, <2>3, <2>4
<1>16. CASE UNCHANGED vars
  BY <1>16 DEF vars
<1> QED
  BY <1>2, <1>3, <1>4, <1>5, <1>6, <1>7, <1>8, <1>9, <1>10, <1>11, <1>12, <1>13,
     <1>14, <1>15, <1>16 DEF Next, Progress, Submit, Finish

\* On a loop a call goes from the queue straight to its task, and the task that
\* a newer call finds is cancelled.
LEMMA PastStep == GateInv /\ [Next]_vars => Past'
<1> SUFFICES ASSUME GateInv, [Next]_vars PROVE Past'
  OBVIOUS
<1>a. call \in [Installs -> Stages] /\ queue \in Seq(Installs) /\ task \in Installs \cup {0}
  BY DEF GateInv, TypeOK
<1>b. /\ dispatch = "asyncio" =>
             \A n \in Installs : call[n] \notin {"starting", "restarting", "ended"}
      /\ policy = "cancel_previous" => dispatch = "asyncio" /\ queue = <<>>
      /\ policy = "cancel_previous" =>
             \A n \in Installs : call[n] = "live" => n = task \/ n \in cancelled
  BY DEF GateInv, Past, SupersededAreCancelled
<1> USE <1>a, <1>b DEF Past, SupersededAreCancelled, Goto, gateVars, loopVars, history
\* A step of one call that does not start it.
<1>1. ASSUME NEW n \in Installs,
             UNCHANGED <<dispatch, policy, queue, task, cancelled>>,
             \A m \in Installs \ {n} : call'[m] = call[m],
             dispatch = "asyncio" => call'[n] \notin {"starting", "restarting", "ended", "live"}
      PROVE  Past'
  BY <1>1
<1>2. ASSUME NEW n \in Installs, Install(n) PROVE Past'
  BY <1>1, <1>2 DEF Install
<1>3. ASSUME NEW n \in Installs, Post(n) PROVE Past'
  BY <1>1, <1>3 DEF Post
<1>4. ASSUME NEW n \in Installs, SubmitEvery(n) PROVE Past'
  BY <1>4 DEF SubmitEvery, Admit
<1>5. ASSUME NEW n \in Installs, SubmitIdle(n) PROVE Past'
  BY <1>5 DEF SubmitIdle, Admit, OneByOne
<1>6. ASSUME NEW n \in Installs, SubmitLatest(n) PROVE Past'
  BY <1>6 DEF SubmitLatest
<1>7. ASSUME NEW n \in Installs, SubmitSerial(n) PROVE Past'
  BY <1>7 DEF SubmitSerial
<1>8. ASSUME NEW n \in Installs, SubmitCancelling(n) PROVE Past'
  <2>1. /\ dispatch = "asyncio" /\ dispatch' = dispatch /\ policy' = policy
        /\ queue' = <<>> /\ call' = [call EXCEPT ![n] = "live"] /\ task' = n
    BY <1>8 DEF SubmitCancelling, Admit
  <2>2. cancelled' = cancelled \cup {m \in {task} \ {0} : call[m] = "live"}
    BY <1>8 DEF SubmitCancelling
  <2>3. ASSUME NEW m \in Installs, call'[m] = "live" PROVE m = task' \/ m \in cancelled'
    <3>1. CASE m = n
      BY <2>1, <3>1
    <3>2. CASE m # n
      <4>1. call[m] = "live" /\ m # 0
        BY <2>1, <2>3, <3>2 DEF Installs
      <4>2. m = task \/ m \in cancelled
        BY <1>8, <4>1 DEF SubmitCancelling
      <4> QED BY <2>2, <4>1, <4>2
    <3> QED BY <3>1, <3>2
  <2> QED BY <2>1, <2>3
<1>9. ASSUME NEW n \in Installs, Start(n) PROVE Past'
  BY <1>9 DEF Start
<1>10. ASSUME NEW n \in Installs, StartFails(n) PROVE Past'
  BY <1>1, <1>10 DEF StartFails
<1>11. ASSUME NEW n \in Installs, Return(n) PROVE Past'
  BY <1>1, <1>11 DEF Return
<1>12. ASSUME NEW n \in Installs, Die(n) PROVE Past'
  BY <1>1, <1>12 DEF Die
<1>13. ASSUME NEW n \in Installs, Cancelled(n) PROVE Past'
  BY <1>1, <1>13 DEF Cancelled
<1>14. ASSUME NEW n \in Installs, FinishIdle(n) PROVE Past'
  BY <1>1, <1>14 DEF FinishIdle
<1>15. ASSUME NEW n \in Installs, FinishNext(n) PROVE Past'
  <2>1. Head(queue) \in Installs
    BY <1>15 DEF FinishNext
  <2> QED BY <1>15, <2>1 DEF FinishNext
<1>16. CASE UNCHANGED vars
  BY <1>16 DEF vars
<1> QED
  BY <1>2, <1>3, <1>4, <1>5, <1>6, <1>7, <1>8, <1>9, <1>10, <1>11, <1>12, <1>13,
     <1>14, <1>15, <1>16 DEF Next, Progress, Submit, Finish

\* The inductive invariant of the gate.
THEOREM GateInvariant == Spec => []GateInv
<1>1. GateInv /\ [Next]_vars => GateInv'
  BY TypeStep, ListedStep, GuardedStep, PastStep DEF GateInv
<1> QED BY GateInit, <1>1, PTL DEF Spec

\* latest and serial let one call through at a time, however many hook rounds
\* reach the gate at once and whatever becomes of the calls.
THEOREM OneAtATimeThm == Spec => []OneAtATime
<1>1. GateInv => OneAtATime
  BY DEF GateInv, Guarded, OneAtATime
<1> QED BY GateInvariant, <1>1, PTL

\* Until a call dies the gate's flag says whether a call is let through, and
\* nothing waits behind a flag that is down.
THEOREM FlagIsTrueThm == Spec => []FlagIsTrue
<1>1. GateInv => FlagIsTrue
  BY DEF GateInv, Guarded, FlagIsTrue
<1> QED BY GateInvariant, <1>1, PTL

\* Under cancel_previous every task but the newest has been cancelled.
THEOREM SupersededThm == Spec => []SupersededAreCancelled
<1>1. GateInv => SupersededAreCancelled
  BY DEF GateInv, Past
<1> QED BY GateInvariant, <1>1, PTL

-----------------------------------------------------------------------------
(* The order of the calls.  StartedInOrder says nothing of the calls that   *)
(* are yet to start; what carries it is that the calls begun, the one about *)
(* to start and those queued stand in the order in which the gate saw them. *)

Before(a, b) ==
    \A k, l \in 1..Len(submitted) : submitted[k] = a /\ submitted[l] = b => k < l

Unseen == {"none", "posted", "scheduled"}

\* The history holds calls the gate has seen.
Seen ==
    /\ \A k \in 1..Len(submitted) : call[submitted[k]] \notin Unseen
    /\ \A i \in 1..Len(begun) : call[begun[i]] \notin Unseen

InTurn ==
    policy \in OneByOne =>
        /\ \A i, j \in 1..Len(begun) : i < j => Before(begun[i], begun[j])
        /\ \A i \in 1..Len(begun), q \in 1..Len(queue) : Before(begun[i], queue[q])
        /\ \A q, r \in 1..Len(queue) : q < r => Before(queue[q], queue[r])
        /\ \A n \in Installs : call[n] \in {"starting", "restarting"} =>
               /\ \A i \in 1..Len(begun) : Before(begun[i], n)
               /\ \A q \in 1..Len(queue) : Before(n, queue[q])

OrderInv == Seen /\ InTurn

\* A call that arrives comes after everything else, and changes no order.
LEMMA ArrivesLast ==
    ASSUME TypeOK, Seen, NEW n \in Installs, call[n] \in Unseen,
           submitted' = Append(submitted, n)
    PROVE  /\ \A a \in Installs \ {n} : Before(a, n)'
           /\ \A a, b \in Installs \ {n} : Before(a, b) => Before(a, b)'
<1>1. /\ Len(submitted) \in Nat
      /\ Len(submitted') = Len(submitted) + 1
      /\ submitted'[Len(submitted) + 1] = n
      /\ \A k \in 1..Len(submitted) : submitted'[k] = submitted[k] /\ submitted[k] # n
  BY DEF TypeOK, Seen
<1>2. ASSUME NEW a \in Installs \ {n},
             NEW k \in 1..Len(submitted'), NEW l \in 1..Len(submitted'),
             submitted'[k] = a, submitted'[l] = n
      PROVE  k < l
  BY <1>1, <1>2
<1>3. ASSUME NEW a \in Installs \ {n}, NEW b \in Installs \ {n}, Before(a, b),
             NEW k \in 1..Len(submitted'), NEW l \in 1..Len(submitted'),
             submitted'[k] = a, submitted'[l] = b
      PROVE  k < l
  <2>1. k \in 1..Len(submitted) /\ l \in 1..Len(submitted)
    BY <1>1, <1>3
  <2> QED BY <1>1, <1>3, <2>1 DEF Before
<1> QED BY <1>2, <1>3 DEF Before

LEMMA Appended ==
    ASSUME NEW S, NEW s \in Seq(S), NEW n \in S, NEW t, t = s \/ t = Append(s, n)
    PROVE  \A i \in 1..Len(t) : \/ t = Append(s, n) /\ i = Len(s) + 1 /\ t[i] = n
                                \/ i \in 1..Len(s) /\ t[i] = s[i]
<1>1. CASE t = s
  BY <1>1
<1>2. CASE t = Append(s, n)
  BY <1>2
<1> QED BY <1>1, <1>2

\* What the gate has seen it has seen for good.
LEMMA SeenStep == GateInv /\ Seen /\ [Next]_vars => Seen'
<1> SUFFICES ASSUME GateInv, Seen, [Next]_vars PROVE Seen'
  OBVIOUS
<1> USE DEF Unseen, Goto, gateVars, loopVars, history
<1>t. TypeOK
  BY DEF GateInv
\* Every step but Install and Post leaves a call it moves with the gate.
<1>1. ASSUME NEW n \in Installs, call'[n] \notin Unseen \/ call[n] \in Unseen,
             \A m \in Installs \ {n} : call[m] \notin Unseen => call'[m] \notin Unseen,
             \/ UNCHANGED history
             \/ /\ call'[n] \notin Unseen
                /\ submitted' \in {submitted, Append(submitted, n)}
                /\ begun' \in {begun, Append(begun, n)}
      PROVE  Seen'
  <2>1. ASSUME NEW m \in Installs, call[m] \notin Unseen PROVE call'[m] \notin Unseen
    BY <1>1, <2>1
  <2>2. ASSUME NEW k \in 1..Len(submitted') PROVE call'[submitted'[k]] \notin Unseen
    <3>1. \/ submitted'[k] = n /\ call'[n] \notin Unseen
          \/ k \in 1..Len(submitted) /\ submitted'[k] = submitted[k]
      BY <1>1, <1>t, Appended DEF TypeOK
    <3> QED BY <1>t, <2>1, <3>1 DEF Seen, TypeOK
  <2>3. ASSUME NEW i \in 1..Len(begun') PROVE call'[begun'[i]] \notin Unseen
    <3>1. \/ begun'[i] = n /\ call'[n] \notin Unseen
          \/ i \in 1..Len(begun) /\ begun'[i] = begun[i]
      BY <1>1, <1>t, Appended, SMTT(30) DEF TypeOK
    <3> QED BY <1>t, <2>1, <3>1 DEF Seen, TypeOK
  <2> QED BY <2>2, <2>3 DEF Seen
<1>2. ASSUME NEW n \in Installs, Install(n) PROVE Seen'
  BY <1>1, <1>2, <1>t DEF Install, TypeOK
<1>3. ASSUME NEW n \in Installs, Post(n) PROVE Seen'
  BY <1>1, <1>3, <1>t DEF Post, TypeOK
<1>4. ASSUME NEW n \in Installs, SubmitEvery(n) \/ SubmitIdle(n) \/ SubmitSerial(n)
                                     \/ SubmitCancelling(n)
      PROVE  Seen'
  BY <1>1, <1>4, <1>t
     DEF SubmitEvery, SubmitIdle, SubmitSerial, SubmitCancelling, Arrives, Admit, TypeOK
<1>5. ASSUME NEW n \in Installs, SubmitLatest(n) PROVE Seen'
  <2>1. /\ call'[n] = "queued"
        /\ \A m \in Installs \ {n} : call'[m] \in {call[m], "superseded"}
    BY <1>5, <1>t DEF SubmitLatest, TypeOK
  <2>2. submitted' = Append(submitted, n) /\ begun' = begun
    BY <1>5 DEF SubmitLatest, Arrives
  <2> QED BY <1>1, <2>1, <2>2
<1>6. ASSUME NEW n \in Installs, Start(n) PROVE Seen'
  BY <1>1, <1>6, <1>t DEF Start, TypeOK
<1>7. ASSUME NEW n \in Installs, StartFails(n) \/ Return(n) \/ Die(n) \/ Cancelled(n)
                                     \/ FinishIdle(n)
      PROVE  Seen'
  BY <1>1, <1>7, <1>t DEF StartFails, Return, Die, Cancelled, FinishIdle, TypeOK
<1>8. ASSUME NEW n \in Installs, FinishNext(n) PROVE Seen'
  <2>1. Head(queue) \in Installs
    BY <1>8, <1>t DEF FinishNext, TypeOK
  <2>2. /\ \A m \in Installs : call'[m] \in {call[m], "done", "restarting", "live"}
        /\ call'[Head(queue)] \in {"done", "restarting", "live"}
        /\ submitted' = submitted
        /\ begun' \in {begun, Append(begun, Head(queue))}
    BY <1>8, <1>t, <2>1 DEF FinishNext, TypeOK
  <2> QED BY <1>1, <2>1, <2>2
<1>9. CASE UNCHANGED vars
  BY <1>9 DEF vars, Seen
<1> QED
  BY <1>2, <1>3, <1>4, <1>5, <1>6, <1>7, <1>8, <1>9 DEF Next, Progress, Submit, Finish

\* A call joins the line at its end, and it starts from the front.
LEMMA InTurnStep == GateInv /\ OrderInv /\ [Next]_vars => InTurn'
<1> SUFFICES ASSUME GateInv, OrderInv, [Next]_vars, policy' \in OneByOne PROVE InTurn'
  BY DEF InTurn
<1> DEFINE Pending(m) == call[m] \in {"starting", "restarting"}
<1>a. policy' = policy
  BY DEF Next, Progress, Submit, Finish, Install, Post, SubmitEvery, SubmitIdle,
     SubmitLatest, SubmitSerial, SubmitCancelling, Start, StartFails, Return, Die,
     Cancelled, FinishIdle, FinishNext, vars
<1>b. /\ \A i, j \in 1..Len(begun) : i < j => Before(begun[i], begun[j])
      /\ \A i \in 1..Len(begun), q \in 1..Len(queue) : Before(begun[i], queue[q])
      /\ \A q, r \in 1..Len(queue) : q < r => Before(queue[q], queue[r])
      /\ \A m \in Installs : Pending(m) =>
             /\ \A i \in 1..Len(begun) : Before(begun[i], m)
             /\ \A q \in 1..Len(queue) : Before(m, queue[q])
  BY <1>a DEF OrderInv, InTurn
<1>c. /\ \A m, n \in Installs : Active(m) /\ Active(n) => m = n
      /\ \A n \in Installs : Active(n) => running
      /\ queue # <<>> => running
  BY <1>a DEF GateInv, Guarded, OneAtATime
<1>t. /\ TypeOK /\ TypeOK' /\ Seen
      /\ \A i \in 1..Len(begun) : begun[i] \in Installs
      /\ \A i \in 1..Len(queue) : queue[i] \in Installs
  BY TypeStep DEF GateInv, TypeOK, OrderInv
<1> HIDE DEF Pending
\* Nobody joins the line and nobody starts.
<1>1. ASSUME UNCHANGED <<submitted, begun, queue>>,
             \A m \in Installs : Pending(m)' => Pending(m)
      PROVE  InTurn'
  BY <1>1, <1>b DEF InTurn, Before, Pending
<1>2. ASSUME NEW n \in Installs,
             \/ Install(n) \/ Post(n) \/ StartFails(n) \/ Return(n) \/ Die(n)
             \/ Cancelled(n) \/ FinishIdle(n)
      PROVE  InTurn'
  BY <1>1, <1>2, <1>t DEF Install, Post, StartFails, Return, Die, Cancelled, FinishIdle,
     Goto, gateVars, loopVars, history, TypeOK, Pending
\* One arrives: it stands behind everybody.
<1>3. ASSUME NEW n \in Installs, Arrives(n)
      PROVE  /\ call[n] \in Unseen
             /\ \A i \in 1..Len(begun) : begun[i] \in Installs \ {n}
             /\ \A q \in 1..Len(queue) : queue[q] \in Installs \ {n}
             /\ \A a \in Installs \ {n} : Before(a, n)'
             /\ \A a, b \in Installs \ {n} : Before(a, b) => Before(a, b)'
  <2>1. call[n] \in Unseen
    BY <1>3, Arriving DEF Unseen
  <2>2. \A i \in 1..Len(begun) : begun[i] # n
    BY <1>t, <2>1 DEF Seen
  <2>3. \A q \in 1..Len(queue) : queue[q] # n
    BY <2>1 DEF GateInv, Listed, Unseen
  <2>4. submitted' = Append(submitted, n)
    BY <1>3 DEF Arrives
  <2> QED BY <1>t, <2>1, <2>2, <2>3, <2>4, ArrivesLast
<1>4. ASSUME NEW n \in Installs, SubmitEvery(n) \/ SubmitCancelling(n) PROVE InTurn'
  BY <1>4, <1>a DEF SubmitEvery, SubmitCancelling, OneByOne
<1>5. ASSUME NEW n \in Installs, SubmitIdle(n) PROVE InTurn'
  <2>1. Arrives(n) /\ Admit(n) /\ queue' = queue /\ queue = <<>> /\ Len(queue) = 0
    BY <1>5, <1>c DEF SubmitIdle
  <2>2. \A m \in Installs : ~Pending(m)
    BY <1>5, <1>c DEF SubmitIdle, Active, Pending
  <2>3. CASE dispatch = "executor"
    <3>1. begun' = begun /\ \A m \in Installs : Pending(m)' => m = n
      BY <2>1, <2>2, <2>3, <1>t DEF Admit, Goto, TypeOK, Pending
    <3>2. \A i \in 1..Len(begun') : Before(begun[i], n)'
      BY <1>3, <2>1, <3>1
    <3>3. \A i, j \in 1..Len(begun') : i < j => Before(begun[i], begun[j])'
      BY <1>3, <1>b, <2>1, <3>1
    <3> QED BY <2>1, <3>1, <3>2, <3>3 DEF InTurn, Pending
  <2>4. CASE dispatch # "executor"
    <3>1. begun' = Append(begun, n) /\ \A m \in Installs : ~Pending(m)'
      BY <2>1, <2>2, <2>4, <1>t DEF Admit, Goto, TypeOK, Pending
    <3>2. ASSUME NEW i \in 1..Len(begun'), NEW j \in 1..Len(begun'), i < j
          PROVE  Before(begun[i], begun[j])'
      <4>1. i \in 1..Len(begun) /\ begun'[i] = begun[i]
        BY <3>1, <3>2, <1>t DEF TypeOK
      <4>2. \/ j = Len(begun) + 1 /\ begun'[j] = n
            \/ j \in 1..Len(begun) /\ begun'[j] = begun[j]
        BY <3>1, <1>t, Appended DEF TypeOK
      <4>3. CASE begun'[j] = n
        BY <1>3, <2>1, <4>1, <4>3 DEF Before
      <4>4. CASE j \in 1..Len(begun) /\ begun'[j] = begun[j]
        <5>1. Before(begun[i], begun[j]) /\ begun[i] \in Installs \ {n} /\ begun[j] \in Installs \ {n}
          BY <1>3, <1>b, <2>1, <3>2, <4>1, <4>4
        <5>2. \A a, b \in Installs \ {n} : Before(a, b) => Before(a, b)'
          BY <1>3, <2>1
        <5> QED BY <4>1, <4>4, <5>1, <5>2 DEF Before
      <4> QED BY <4>2, <4>3, <4>4
    <3> QED BY <2>1, <3>1, <3>2 DEF InTurn, Pending
  <2> QED BY <2>3, <2>4
<1>6. ASSUME NEW n \in Installs, SubmitLatest(n) PROVE InTurn'
  <2>1. Arrives(n) /\ queue' = <<n>> /\ begun' = begun
    BY <1>6 DEF SubmitLatest
  <2>2. /\ Len(queue') = 1 /\ \A q \in 1..Len(queue') : queue'[q] = n
        /\ \A q, r \in 1..Len(queue') : ~(q < r)
    BY <2>1
  <2>3. \A m \in Installs : Pending(m)' => Pending(m) /\ m # n
    BY <1>6, <1>t DEF SubmitLatest, TypeOK, Pending
  <2>4. \A i, j \in 1..Len(begun') : i < j => Before(begun[i], begun[j])'
    BY <1>3, <1>b, <2>1
  <2>5. \A i \in 1..Len(begun'), q \in 1..Len(queue') : Before(begun[i], queue[q])'
    BY <1>3, <2>1, <2>2 DEF Before
  <2>6. ASSUME NEW m \in Installs, Pending(m)'
        PROVE  /\ \A i \in 1..Len(begun') : Before(begun[i], m)'
               /\ \A q \in 1..Len(queue') : Before(m, queue[q])'
    <3>1. Before(m, n)'
      BY <1>3, <2>1, <2>3, <2>6
    <3>2. \A i \in 1..Len(begun) : Before(begun[i], m)'
      BY <1>3, <1>b, <2>1, <2>3, <2>6
    <3> QED BY <2>1, <2>2, <3>1, <3>2 DEF Before
  <2> QED BY <2>2, <2>4, <2>5, <2>6 DEF InTurn, Pending
<1>7. ASSUME NEW n \in Installs, SubmitSerial(n) PROVE InTurn'
  <2>1. Arrives(n) /\ queue' = Append(queue, n) /\ begun' = begun
    BY <1>7 DEF SubmitSerial
  <2>2. \A q \in 1..Len(queue') : \/ q = Len(queue) + 1 /\ queue'[q] = n
                                  \/ q \in 1..Len(queue) /\ queue'[q] = queue[q]
    <3>1. queue \in Seq(Installs)
      BY <1>t DEF TypeOK
    <3> QED BY <2>1, <3>1, Appended
  <2>3. \A m \in Installs : Pending(m)' => Pending(m) /\ m # n
    BY <1>7, <1>t DEF SubmitSerial, Goto, TypeOK, Pending
  <2>4. \A i, j \in 1..Len(begun') : i < j => Before(begun[i], begun[j])'
    BY <1>3, <1>b, <2>1
  <2>5. ASSUME NEW a \in Installs \ {n}, \A q \in 1..Len(queue) : Before(a, queue[q]),
               NEW q \in 1..Len(queue')
        PROVE  Before(a, queue[q])'
    <3>1. Before(a, n)' /\ \A b \in Installs \ {n} : Before(a, b) => Before(a, b)'
      BY <1>3, <2>1
    <3>2. CASE queue'[q] = n
      BY <3>1, <3>2 DEF Before
    <3>3. CASE q \in 1..Len(queue) /\ queue'[q] = queue[q]
      <4>1. Before(a, queue[q]) /\ queue[q] \in Installs \ {n}
        BY <1>3, <2>1, <2>5, <3>3
      <4> QED BY <3>1, <3>3, <4>1 DEF Before
    <3> QED BY <2>2, <3>2, <3>3
  <2>6. \A i \in 1..Len(begun'), q \in 1..Len(queue') : Before(begun[i], queue[q])'
    BY <1>3, <1>b, <2>1, <2>5
  <2>7. ASSUME NEW q \in 1..Len(queue'), NEW r \in 1..Len(queue'), q < r
        PROVE  Before(queue[q], queue[r])'
    <3>1. q \in 1..Len(queue) /\ queue'[q] = queue[q] /\ queue[q] \in Installs \ {n}
      BY <1>3, <1>t, <2>1, <2>7 DEF TypeOK
    <3>2. CASE queue'[r] = n
      BY <1>3, <2>1, <3>1, <3>2 DEF Before
    <3>3. CASE r \in 1..Len(queue) /\ queue'[r] = queue[r]
      <4>1. Before(queue[q], queue[r]) /\ queue[r] \in Installs \ {n}
        BY <1>3, <1>b, <2>1, <2>7, <3>1, <3>3
      <4>2. \A a, b \in Installs \ {n} : Before(a, b) => Before(a, b)'
        BY <1>3, <2>1
      <4> QED BY <3>1, <3>3, <4>1, <4>2 DEF Before
    <3> QED BY <2>2, <3>2, <3>3
  <2>8. ASSUME NEW m \in Installs, Pending(m)'
        PROVE  /\ \A i \in 1..Len(begun') : Before(begun[i], m)'
               /\ \A q \in 1..Len(queue') : Before(m, queue[q])'
    <3>1. \A i \in 1..Len(begun) : Before(begun[i], m)'
      BY <1>3, <1>b, <2>1, <2>3, <2>8
    <3> QED BY <1>b, <2>1, <2>3, <2>5, <2>8, <3>1 DEF Before
  <2> QED BY <2>4, <2>6, <2>7, <2>8 DEF InTurn, Pending
\* The one pending starts: it is the only one.
<1>8. ASSUME NEW n \in Installs, Start(n) PROVE InTurn'
  <2>1. Pending(n) /\ begun' = Append(begun, n) /\ UNCHANGED <<queue, submitted>>
    BY <1>8 DEF Start, gateVars, Pending
  <2>2. \A m \in Installs : ~Pending(m)'
    BY <1>8, <1>c, <1>t DEF Start, Goto, TypeOK, Active, Pending
  <2>3. \A i \in 1..Len(begun') : \/ i = Len(begun) + 1 /\ begun'[i] = n
                                  \/ i \in 1..Len(begun) /\ begun'[i] = begun[i]
    BY <2>1, <1>t, Appended DEF TypeOK
  <2>4. ASSUME NEW i \in 1..Len(begun'), NEW j \in 1..Len(begun'), i < j
        PROVE  Before(begun[i], begun[j])'
    BY <1>b, <1>t, <2>1, <2>3, <2>4 DEF Before, TypeOK
  <2>5. \A i \in 1..Len(begun'), q \in 1..Len(queue') : Before(begun[i], queue[q])'
    BY <1>b, <2>1, <2>3 DEF Before
  <2> QED BY <1>b, <2>1, <2>2, <2>4, <2>5 DEF InTurn, Pending, Before
\* A call has ended: the head of the queue is pending, or starts.
<1>9. ASSUME NEW n \in Installs, FinishNext(n) PROVE InTurn'
  <2> DEFINE h == Head(queue)
  <2>1. /\ h = queue[1] /\ h \in Installs /\ 1 \in 1..Len(queue)
        /\ Len(queue') = Len(queue) - 1
        /\ \A q \in 1..Len(queue') : /\ q + 1 \in 1..Len(queue) /\ 1 < q + 1
                                     /\ queue'[q] = queue[q + 1]
        /\ submitted' = submitted
    BY <1>9, <1>t DEF FinishNext, TypeOK
  <2>2. Active(n) /\ ~Pending(n)
    BY <1>9 DEF FinishNext, Ending, Active, Pending
  <2>3. \A m \in Installs : ~Pending(m)
    BY <1>c, <2>2 DEF Active, Pending
  <2>4. ASSUME NEW q \in 1..Len(queue'), NEW r \in 1..Len(queue'), q < r
        PROVE  Before(queue[q], queue[r])'
    <3>1. Before(queue[q + 1], queue[r + 1])
      <4>1. q + 1 < r + 1
        BY <2>4
      <4> QED BY <1>b, <2>1, <4>1
    <3> QED BY <2>1, <3>1 DEF Before
  <2>5. ASSUME NEW q \in 1..Len(queue') PROVE Before(h, queue'[q])
    <3>1. 1 \in 1..Len(queue) /\ q + 1 \in 1..Len(queue) /\ 1 < q + 1
      BY <2>1
    <3>2. Before(queue[1], queue[q + 1])
      BY <1>b, <3>1
    <3> QED BY <2>1, <3>2
  <2>6. \A i \in 1..Len(begun) : Before(begun[i], h)
    BY <1>b, <2>1
  <2> HIDE DEF h
  <2>7. CASE dispatch = "executor"
    <3>1. begun' = begun /\ \A m \in Installs : Pending(m)' => m = h
      BY <1>9, <1>t, <2>1, <2>3, <2>7 DEF FinishNext, TypeOK, Pending, h
    <3>2. \A i, j \in 1..Len(begun') : i < j => Before(begun[i], begun[j])'
      BY <1>b, <2>1, <3>1 DEF Before
    <3>3. \A i \in 1..Len(begun'), q \in 1..Len(queue') : Before(begun[i], queue[q])'
      BY <1>b, <2>1, <3>1, SMTT(30) DEF Before
    <3>4. ASSUME NEW m \in Installs, Pending(m)'
          PROVE  /\ \A i \in 1..Len(begun') : Before(begun[i], m)'
                 /\ \A q \in 1..Len(queue') : Before(m, queue[q])'
      <4>1. m = h
        BY <3>1, <3>4
      <4>2. \A i \in 1..Len(begun') : Before(begun[i], m)'
        <5>1. ASSUME NEW i \in 1..Len(begun) PROVE Before(begun[i], m)
          BY <2>6, <4>1
        <5> QED BY <2>1, <3>1, <5>1 DEF Before
      <4>3. \A q \in 1..Len(queue') : Before(m, queue[q])'
        <5>1. ASSUME NEW q \in 1..Len(queue') PROVE Before(m, queue'[q])
          BY <2>5, <4>1
        <5> QED BY <2>1, <5>1 DEF Before
      <4> QED BY <4>2, <4>3
    <3> QED BY <2>4, <3>2, <3>3, <3>4 DEF InTurn, Pending
  <2>8. CASE dispatch # "executor"
    <3>1. begun' = Append(begun, h) /\ \A m \in Installs : ~Pending(m)'
      BY <1>9, <1>t, <2>1, <2>3, <2>8 DEF FinishNext, TypeOK, Pending, h
    <3>2. \A i \in 1..Len(begun') : \/ i = Len(begun) + 1 /\ begun'[i] = h
                                    \/ i \in 1..Len(begun) /\ begun'[i] = begun[i]
      BY <2>1, <3>1, <1>t, Appended DEF TypeOK
    <3>3. ASSUME NEW i \in 1..Len(begun'), NEW j \in 1..Len(begun'), i < j
          PROVE  Before(begun[i], begun[j])'
      BY <1>b, <1>t, <2>1, <2>6, <3>1, <3>2, <3>3 DEF Before, TypeOK
    <3>4. \A i \in 1..Len(begun'), q \in 1..Len(queue') : Before(begun[i], queue[q])'
      BY <1>b, <2>1, <2>5, <3>2 DEF Before
    <3> QED BY <2>4, <3>1, <3>3, <3>4 DEF InTurn, Pending
  <2> QED BY <2>7, <2>8
<1>10. CASE UNCHANGED vars
  BY <1>1, <1>10 DEF vars, gateVars, history, Pending
<1> QED
  BY <1>2, <1>4, <1>5, <1>6, <1>7, <1>8, <1>9, <1>10 DEF Next, Progress, Submit, Finish

\* latest and serial start calls in the order in which the gate saw them,
\* whatever the policy drops and whatever dies.
THEOREM StartedInOrderThm == Spec => []StartedInOrder
<1>1. Init => OrderInv
  BY DEF Init, OrderInv, Seen, InTurn
<1>2. GateInv /\ OrderInv /\ [Next]_vars => OrderInv'
  BY SeenStep, InTurnStep DEF OrderInv
<1>3. OrderInv => StartedInOrder
  BY DEF OrderInv, InTurn, Before, StartedInOrder
<1> QED BY GateInvariant, <1>1, <1>2, <1>3, PTL DEF Spec

-----------------------------------------------------------------------------
(* The list of hooks and its rounds (Hooks).                               *)

\* What is registered, what is under way, and the history they refer to.
HistoryInv ==
    /\ model \in Models \cup {NoModel}
    /\ past \in Seq(Models \cup {NoModel})
    /\ past = <<>> => hooks = {} /\ rounds = {}
    /\ \A n \in 2..Len(past) : past[n] \in Models

HooksInv ==
    /\ hooks \subseteq [id : HookIds, wanted : Wanted \cup {Everything}, since : Nat,
                        called : SUBSET Nat]
    /\ \A h \in hooks : h.since \in 1..Len(past)
    /\ \A g, h \in hooks : g.id = h.id => g = h

\* One round for an install.
RoundsInv ==
    /\ rounds \subseteq [install : Nat, copied : BOOLEAN, todo : SUBSET HookIds]
    /\ \A round \in rounds : round.install \in 2..Len(past)
    /\ \A round, other \in rounds : round.install = other.install => round = other

ListInv == HistoryInv /\ HooksInv /\ RoundsInv

LEMMA RememberedIs ==
  ASSUME ListInv
  PROVE  /\ Remembered \in Seq(Models \cup {NoModel}) /\ Len(Remembered) \in Nat \ {0}
         /\ Len(Remembered) >= Len(past)
         /\ \A n \in 2..Len(Remembered) : Remembered[n] \in Models
         /\ past # <<>> => Remembered = past
<1>1. CASE past = <<>>
  BY <1>1 DEF Remembered, ListInv, HistoryInv
<1>2. CASE past # <<>>
  BY <1>2 DEF Remembered, ListInv, HistoryInv
<1> QED BY <1>1, <1>2

LEMMA ListInit == HooksInit => ListInv
  BY DEF HooksInit, ListInv, HistoryInv, HooksInv, RoundsInv

LEMMA ListStep == ListInv /\ [HooksNext]_hookVars => ListInv'
<1> SUFFICES ASSUME ListInv, [HooksNext]_hookVars PROVE ListInv'
  OBVIOUS
<1>1. ASSUME NEW m \in Models, Write(m) PROVE ListInv'
  <2> DEFINE before == Remembered
             new == [install |-> Len(before) + 1, copied |-> FALSE, todo |-> {}]
  <2>1. past' = Append(before, m) /\ rounds' = rounds \cup {new} /\ model' = m /\ hooks' = hooks
    BY <1>1 DEF Write
  <2>2. /\ past' \in Seq(Models \cup {NoModel})
        /\ Len(past') = Len(before) + 1
        /\ Len(past') \in Nat /\ Len(past') >= 2 /\ Len(past') > Len(past)
        /\ past'[Len(past')] = m
        /\ \A n \in 1..Len(before) : past'[n] = before[n]
    BY <2>1, RememberedIs DEF ListInv, HistoryInv
  <2>3. HistoryInv'
    <3>1. past' # <<>>
      BY <2>2
    <3>2. ASSUME NEW n \in 2..Len(past') PROVE past'[n] \in Models
      BY <2>2, RememberedIs
    <3> QED BY <2>1, <2>2, <3>1, <3>2 DEF HistoryInv
  <2>4. HooksInv'
    BY <2>1, <2>2 DEF ListInv, HooksInv, HistoryInv
  <2>5. RoundsInv'
    <3>1. new \in [install : Nat, copied : BOOLEAN, todo : SUBSET HookIds]
      BY <2>2
    <3>2. \A round \in rounds : round.install # new.install /\ round.install \in 2..Len(past')
      BY <2>2 DEF ListInv, RoundsInv, HistoryInv
    <3> HIDE DEF new
    <3>3. new.install \in 2..Len(past')
      BY <2>2 DEF new
    <3> QED BY <2>1, <3>1, <3>2, <3>3 DEF ListInv, RoundsInv
  <2> QED BY <2>3, <2>4, <2>5 DEF ListInv
<1>2. ASSUME NEW round \in rounds, Copy(round) PROVE ListInv'
  <2> DEFINE new == [round EXCEPT !.copied = TRUE, !.todo = {h.id : h \in hooks}]
  <2>1. /\ new \in [install : Nat, copied : BOOLEAN, todo : SUBSET HookIds]
        /\ new.install = round.install
    <3>1. {h.id : h \in hooks} \in SUBSET HookIds
      BY DEF ListInv, HooksInv
    <3>2. round \in [install : Nat, copied : BOOLEAN, todo : SUBSET HookIds]
      BY DEF ListInv, RoundsInv
    <3> QED BY <3>1, <3>2
  <2> HIDE DEF new
  <2>2. rounds' = (rounds \ {round}) \cup {new} /\ UNCHANGED <<model, hooks, past>>
    BY <1>2 DEF Copy, new
  <2>3. RoundsInv'
    BY <2>1, <2>2 DEF ListInv, RoundsInv
  <2> QED BY <2>2, <2>3 DEF ListInv, HistoryInv, HooksInv
<1>3. ASSUME NEW round \in rounds, EndRound(round) PROVE ListInv'
  <2>1. rounds' = rounds \ {round} /\ UNCHANGED <<model, hooks>>
        /\ (past' = past \/ (past' = <<>> /\ hooks' = {} /\ rounds' = {}))
    BY <1>3 DEF EndRound, Forgetting
  <2>2. CASE past' = past
    <3>1. HistoryInv' /\ HooksInv'
      BY <2>1, <2>2 DEF ListInv, HistoryInv, HooksInv
    <3>2. RoundsInv'
      BY <2>1, <2>2 DEF ListInv, RoundsInv
    <3> QED BY <3>1, <3>2 DEF ListInv
  <2>3. CASE past' = <<>> /\ hooks' = {} /\ rounds' = {}
    BY <2>1, <2>3 DEF ListInv, HistoryInv, HooksInv, RoundsInv
  <2> QED BY <2>1, <2>2, <2>3
<1>4. ASSUME NEW round \in rounds, NEW id \in HookIds, Turn(round, id) PROVE ListInv'
  <2> DEFINE new == [round EXCEPT !.todo = @ \ {id}]
             Heard(h) == IF h.id = id /\ Hears(h.wanted, past[round.install - 1], past[round.install])
                         THEN [h EXCEPT !.called = @ \cup {round.install}] ELSE h
  <2>1. /\ new \in [install : Nat, copied : BOOLEAN, todo : SUBSET HookIds]
        /\ new.install = round.install
        /\ round.install \in Nat
    BY DEF ListInv, RoundsInv
  <2>2. ASSUME NEW h \in hooks
        PROVE  /\ Heard(h) \in [id : HookIds, wanted : Wanted \cup {Everything}, since : Nat,
                                called : SUBSET Nat]
               /\ Heard(h).id = h.id /\ Heard(h).since = h.since
    BY <2>1 DEF ListInv, HooksInv
  <2> HIDE DEF new, Heard
  <2>3. rounds' = (rounds \ {round}) \cup {new} /\ hooks' = {Heard(h) : h \in hooks}
        /\ UNCHANGED <<model, past>>
    BY <1>4 DEF Turn, new, Heard
  <2>4. RoundsInv'
    BY <2>1, <2>3 DEF ListInv, RoundsInv
  <2>5. HooksInv'
    <3>1. \A h \in hooks' : \E g \in hooks : h = Heard(g)
      BY <2>3
    <3>2. \A h \in hooks' : h.since \in 1..Len(past')
      BY <2>2, <2>3, <3>1 DEF ListInv, HooksInv
    <3>3. \A g, h \in hooks' : g.id = h.id => g = h
      BY <2>2, <3>1 DEF ListInv, HooksInv
    <3>4. hooks' \subseteq [id : HookIds, wanted : Wanted \cup {Everything}, since : Nat,
                            called : SUBSET Nat]
      BY <2>2, <3>1
    <3> QED BY <3>2, <3>3, <3>4 DEF HooksInv
  <2>6. HistoryInv'
    BY <2>3 DEF ListInv, HistoryInv
  <2> QED BY <2>4, <2>5, <2>6 DEF ListInv
<1>5. ASSUME NEW id \in HookIds, NEW wanted \in Wanted \cup {Everything}, Register(id, wanted)
      PROVE  ListInv'
  <2> DEFINE new == [id |-> id, wanted |-> wanted, since |-> Len(Remembered), called |-> {}]
  <2>1. past' = Remembered /\ hooks' = hooks \cup {new} /\ UNCHANGED <<model, rounds>>
        /\ \A h \in hooks : h.id # id
    BY <1>5 DEF Register
  <2>2. /\ new \in [id : HookIds, wanted : Wanted \cup {Everything}, since : Nat, called : SUBSET Nat]
        /\ new.id = id /\ new.since = Len(past') /\ Len(past') \in Nat \ {0}
    BY <2>1, RememberedIs
  <2> HIDE DEF new
  <2>3. Len(past') >= Len(past) /\ Len(past) \in Nat /\ past' # <<>>
    BY <2>1, <2>2, RememberedIs DEF ListInv, HistoryInv
  <2>4. HistoryInv'
    BY <2>1, <2>3, RememberedIs DEF ListInv, HistoryInv
  <2>5. HooksInv'
    BY <2>1, <2>2, <2>3 DEF ListInv, HooksInv
  <2>6. RoundsInv'
    BY <2>1, <2>2, <2>3 DEF ListInv, RoundsInv
  <2> QED BY <2>4, <2>5, <2>6 DEF ListInv
<1>6. ASSUME NEW id \in HookIds, Close(id) PROVE ListInv'
  <2>1. hooks' \subseteq hooks /\ UNCHANGED <<model, rounds>>
        /\ (past' = past \/ (past' = <<>> /\ hooks' = {} /\ rounds' = {}))
    BY <1>6 DEF Close, Forgetting
  <2>2. CASE past' = past
    BY <2>1, <2>2 DEF ListInv, HistoryInv, HooksInv, RoundsInv
  <2>3. CASE past' = <<>> /\ hooks' = {} /\ rounds' = {}
    BY <2>1, <2>3 DEF ListInv, HistoryInv, HooksInv, RoundsInv
  <2> QED BY <2>1, <2>2, <2>3
<1>7. CASE UNCHANGED hookVars
  BY <1>7 DEF hookVars, ListInv, HistoryInv, HooksInv, RoundsInv
<1> QED BY <1>1, <1>2, <1>3, <1>4, <1>5, <1>6, <1>7 DEF HooksNext, RoundsNext, OnReload, OnChange

LEMMA MovesInit == HooksInit => HooksHearMoves
  BY DEF HooksInit, HooksHearMoves

\* When no hook hears more and no round owes less, a gap in the history that is
\* silent was silent before.
LEMMA QuietSteps ==
  ASSUME ListInv, HooksHearMoves, past' = past, hooks' \subseteq hooks,
         \A h \in hooks', n \in 1..Len(past) : Owed(h, n) => Owed(h, n)'
  PROVE  HooksHearMoves'
<1> SUFFICES ASSUME NEW h \in hooks', NEW i \in h.since..Len(past'), NEW j \in h.since..Len(past'),
                    i < j, Silent(h, i, j)'
             PROVE  /\ h.wanted # Everything /\ past[i] # NoModel
                    /\ (\A n \in i..j : Converts(past[n])) =>
                          \A path \in h.wanted : Value(past[i], path) = Value(past[j], path)
  BY DEF HooksHearMoves
<1>1. h \in hooks /\ h.since \in 1..Len(past) /\ Len(past) \in Nat
  BY DEF ListInv, HooksInv, HistoryInv
<1>2. Silent(h, i, j)
  BY <1>1 DEF Silent
<1> QED BY <1>1, <1>2 DEF HooksHearMoves

LEMMA MovesStep == ListInv /\ HooksHearMoves /\ [HooksNext]_hookVars => HooksHearMoves'
<1> SUFFICES ASSUME ListInv, HooksHearMoves, [HooksNext]_hookVars PROVE HooksHearMoves'
  OBVIOUS
<1>0. ListInv'
  BY ListStep
<1>1. ASSUME NEW m \in Models, Write(m) PROVE HooksHearMoves'
  <2> DEFINE new == [install |-> Len(Remembered) + 1, copied |-> FALSE, todo |-> {}]
  <2>1. CASE hooks = {}
    BY <1>1, <2>1 DEF Write, HooksHearMoves
  <2>2. CASE hooks # {}
    <3>1. Remembered = past /\ past \in Seq(Models \cup {NoModel}) /\ Len(past) \in Nat
      BY <2>2, RememberedIs DEF ListInv, HistoryInv
    <3>a. PICK last : last = Len(past) + 1
      OBVIOUS
    <3>2. hooks' = hooks /\ past' = Append(past, m) /\ rounds' = rounds \cup {new}
          /\ new.install = last /\ ~new.copied
      BY <1>1, <3>1, <3>a DEF Write
    <3> HIDE DEF new
    <3>3. Len(past') = last /\ \A n \in 1..Len(past) : past'[n] = past[n]
      BY <3>1, <3>2, <3>a
    \* The round of the new install owes its news to all.
    <3>4. \A h \in hooks : Owed(h, last)'
      BY <3>2 DEF Owed
    <3> SUFFICES ASSUME NEW h \in hooks, NEW i \in h.since..last, NEW j \in h.since..last,
                        i < j, Silent(h, i, j)'
                 PROVE  /\ h.wanted # Everything /\ past'[i] # NoModel
                        /\ (\A n \in i..j : Converts(past'[n])) =>
                              \A path \in h.wanted : Value(past'[i], path) = Value(past'[j], path)
      <4>1. hooks' = hooks /\ Len(past') = last
        BY <3>2, <3>3
      <4> QED BY <4>1 DEF HooksHearMoves
    <3>5. h.since \in 1..Len(past)
      BY DEF ListInv, HooksInv
    <3>6. j # last
      BY <3>1, <3>a, <3>4, <3>5 DEF Silent
    <3>7. i \in 1..Len(past) /\ j \in 1..Len(past)
      BY <3>1, <3>a, <3>5, <3>6
    <3>8. Silent(h, i, j)
      BY <3>2 DEF Silent, Owed
    <3>9. \A n \in i..j : past'[n] = past[n]
      BY <3>1, <3>3, <3>7
    <3> QED BY <3>1, <3>3, <3>5, <3>7, <3>8, <3>9 DEF HooksHearMoves
  <2> QED BY <2>1, <2>2
<1>2. ASSUME NEW round \in rounds, Copy(round) PROVE HooksHearMoves'
  <2> DEFINE new == [round EXCEPT !.copied = TRUE, !.todo = {h.id : h \in hooks}]
  <2>1. rounds' = (rounds \ {round}) \cup {new} /\ UNCHANGED <<hooks, past>>
    BY <1>2 DEF Copy
  <2>2. new.install = round.install /\ \A h \in hooks : h.id \in new.todo
    BY DEF ListInv, RoundsInv
  <2> HIDE DEF new
  <2>3. ASSUME NEW h \in hooks, NEW n \in 1..Len(past), Owed(h, n) PROVE Owed(h, n)'
    BY <2>1, <2>2, <2>3 DEF Owed
  <2> QED BY <2>1, <2>3, QuietSteps
<1>3. ASSUME NEW round \in rounds, EndRound(round) PROVE HooksHearMoves'
  <2>1. rounds' = rounds \ {round} /\ round.copied /\ round.todo = {} /\ hooks' = hooks
        /\ (past' = past \/ hooks' = {})
    BY <1>3 DEF EndRound, Forgetting
  <2>2. ASSUME NEW h \in hooks, NEW n \in 1..Len(past), Owed(h, n) PROVE Owed(h, n)'
    BY <2>1, <2>2 DEF Owed
  <2>3. CASE past' = past
    BY <2>1, <2>2, <2>3, QuietSteps
  <2>4. CASE hooks' = {}
    BY <2>4 DEF HooksHearMoves
  <2> QED BY <2>1, <2>3, <2>4
<1>4. ASSUME NEW round \in rounds, NEW id \in HookIds, Turn(round, id) PROVE HooksHearMoves'
  <2> DEFINE n == round.install
             heard(h) == h.id = id /\ Hears(h.wanted, past[n - 1], past[n])
             Heard(h) == IF heard(h) THEN [h EXCEPT !.called = @ \cup {n}] ELSE h
             new == [round EXCEPT !.todo = @ \ {id}]
  <2>1. rounds' = (rounds \ {round}) \cup {new} /\ hooks' = {Heard(h) : h \in hooks}
        /\ past' = past /\ round.copied
    BY <1>4 DEF Turn
  <2>2. /\ new.install = n /\ new.copied = round.copied /\ new.todo = round.todo \ {id}
        /\ n \in 2..Len(past) /\ Len(past) \in Nat
    BY DEF ListInv, RoundsInv, HistoryInv
  <2> HIDE DEF new
  <2> SUFFICES ASSUME NEW g \in hooks',
                      NEW i \in g.since..Len(past), NEW j \in g.since..Len(past),
                      i < j, Silent(g, i, j)'
               PROVE  /\ g.wanted # Everything /\ past[i] # NoModel
                      /\ (\A k \in i..j : Converts(past[k])) =>
                            \A path \in g.wanted : Value(past[i], path) = Value(past[j], path)
    BY <2>1 DEF HooksHearMoves
  <2>a. PICK h \in hooks : g = Heard(h)
    BY <2>1
  <2>3. h \in [id : HookIds, wanted : Wanted \cup {Everything}, since : Nat, called : SUBSET Nat]
        /\ h.since \in 1..Len(past)
    BY DEF ListInv, HooksInv
  <2>4. g.id = h.id /\ g.since = h.since /\ g.wanted = h.wanted /\ h.called \subseteq g.called
        /\ (heard(h) => n \in g.called)
    BY <2>3, <2>a
  <2> HIDE DEF Heard
  \* Nothing but this install of this hook is settled by the step.
  <2>5. ASSUME NEW k \in Nat, k # n, Owed(h, k) PROVE Owed(g, k)'
    BY <2>1, <2>2, <2>4, <2>5 DEF Owed
  <2>6. ASSUME NEW a \in i..j, NEW b \in i..j, n \notin (a + 1)..b PROVE Silent(h, a, b)
    <3> SUFFICES ASSUME NEW k \in (a + 1)..b PROVE k \notin h.called /\ ~Owed(h, k)
      BY DEF Silent
    <3>1. k \in (i + 1)..j /\ k \in Nat /\ k # n
      BY <2>3, <2>4, <2>6
    <3> QED BY <2>4, <2>5, <3>1 DEF Silent
  \* What is known of the gaps that are silent before the step.
  <2>b. \A a, b \in h.since..Len(past) : a < b /\ Silent(h, a, b) =>
           /\ h.wanted # Everything /\ past[a] # NoModel
           /\ (\A k \in a..b : Converts(past[k])) =>
                 \A path \in h.wanted : Value(past[a], path) = Value(past[b], path)
    BY DEF HooksHearMoves
  <2>7. CASE n \notin (i + 1)..j
    <3>1. Silent(h, i, j)
      BY <2>3, <2>4, <2>6, <2>7
    <3> QED BY <2>4, <2>b, <3>1
  <2>8. CASE n \in (i + 1)..j
    <3>1. n \notin g.called /\ ~Owed(g, n)'
      BY <2>8 DEF Silent
    \* The round owed it, and it was the hook's turn.
    <3>2. CASE h.id # id
      <4>1. Owed(g, n)' \/ h.id \notin round.todo
        BY <2>1, <2>2, <2>4, <3>2 DEF Owed
      <4>2. ~Owed(h, n)
        <5>1. \A other \in rounds : other.install = n => other = round
          BY DEF ListInv, RoundsInv
        <5> QED BY <2>1, <3>1, <4>1, <5>1 DEF Owed
      <4>3. Silent(h, i, j)
        <5> SUFFICES ASSUME NEW k \in (i + 1)..j PROVE k \notin h.called /\ ~Owed(h, k)
          BY DEF Silent
        <5>1. k \in Nat
          BY <2>3, <2>4
        <5> QED BY <2>4, <2>5, <4>2, <5>1 DEF Silent
      <4> QED BY <2>3, <2>4, <2>b, <4>3
    <3>3. CASE h.id = id
      <4>1. ~Hears(h.wanted, past[n - 1], past[n])
        BY <2>4, <3>1, <3>3
      <4>2. h.wanted # Everything /\ past[n - 1] # NoModel
            /\ ~(Converts(past[n - 1]) /\ Converts(past[n])
                   /\ Touches(h.wanted, Moved(past[n - 1], past[n])))
        BY <4>1 DEF Hears
      <4>3. n - 1 \in i..j /\ n \in i..j /\ n - 1 \in h.since..Len(past) /\ n \in h.since..Len(past)
            /\ n - 1 \in 1..Len(past)
        BY <2>2, <2>3, <2>4, <2>8
      <4>4. Silent(h, i, n - 1) /\ Silent(h, n, j)
        <5>1. n \notin (i + 1)..(n - 1) /\ n \notin (n + 1)..j /\ i \in i..j /\ j \in i..j
          BY <2>2, <2>3, <2>4
        <5> QED BY <2>6, <4>3, <5>1
      <4>5. past[n - 1] \in Models /\ past[n] \in Models
        BY <2>2, <4>2, <4>3 DEF ListInv, HistoryInv
      <4>6. past[i] # NoModel
        BY <2>2, <2>3, <2>4, <2>b, <4>2, <4>3, <4>4
      <4>7. ASSUME \A k \in i..j : Converts(past[k]), NEW path \in h.wanted
            PROVE  Value(past[i], path) = Value(past[j], path)
        <5>1. path \in UNION Wanted
          BY <2>3, <4>2
        <5>2. Value(past[n - 1], path) = Value(past[n], path)
          <6>1. Converts(past[n - 1]) /\ Converts(past[n])
            BY <4>3, <4>7
          <6>2. \A change \in Moved(past[n - 1], past[n]) : ~IsPrefix(path, change)
            BY <4>2, <4>7, <6>1 DEF Touches
          <6> QED BY <4>5, <5>1, <6>1, <6>2, ComparisonAssumption
        <5>3. Value(past[i], path) = Value(past[n - 1], path)
          <6>1. CASE i = n - 1
            BY <6>1
          <6>2. CASE i < n - 1
            <7>1. \A k \in i..(n - 1) : Converts(past[k])
              BY <2>2, <2>3, <2>4, <2>8, <4>7
            <7> QED BY <2>4, <2>b, <4>3, <4>4, <4>7, <6>2, <7>1
          <6> QED BY <2>2, <2>3, <2>8, <6>1, <6>2
        <5>4. Value(past[n], path) = Value(past[j], path)
          <6>1. CASE n = j
            BY <6>1
          <6>2. CASE n < j
            <7>1. \A k \in n..j : Converts(past[k])
              BY <2>2, <2>3, <2>4, <2>8, <4>7
            <7> QED BY <2>4, <2>b, <4>3, <4>4, <4>7, <6>2, <7>1
          <6> QED BY <2>2, <2>3, <2>8, <6>1, <6>2
        <5> QED BY <5>2, <5>3, <5>4
      <4> QED BY <2>4, <4>2, <4>6, <4>7
    <3> QED BY <3>2, <3>3
  <2> QED BY <2>7, <2>8
<1>5. ASSUME NEW id \in HookIds, NEW wanted \in Wanted \cup {Everything}, Register(id, wanted)
      PROVE  HooksHearMoves'
  <2> DEFINE new == [id |-> id, wanted |-> wanted, since |-> Len(Remembered), called |-> {}]
  <2>1. past' = Remembered /\ hooks' = hooks \cup {new} /\ rounds' = rounds
        /\ new.since = Len(past') /\ Len(past') \in Nat
    BY <1>5, RememberedIs DEF Register
  <2> HIDE DEF new
  <2> SUFFICES ASSUME NEW h \in hooks \cup {new}, NEW i \in h.since..Len(past'),
                      NEW j \in h.since..Len(past'), i < j, Silent(h, i, j)'
               PROVE  /\ h.wanted # Everything /\ past'[i] # NoModel
                      /\ (\A n \in i..j : Converts(past'[n])) =>
                            \A path \in h.wanted : Value(past'[i], path) = Value(past'[j], path)
    BY <2>1 DEF HooksHearMoves
  <2>2. h # new
    BY <2>1
  <2>3. past' = past
    BY <2>1, <2>2, RememberedIs DEF ListInv, HistoryInv
  <2>4. Silent(h, i, j)
    BY <2>1 DEF Silent, Owed
  <2> QED BY <2>2, <2>3, <2>4 DEF HooksHearMoves
<1>6. ASSUME NEW id \in HookIds, Close(id) PROVE HooksHearMoves'
  <2>1. hooks' \subseteq hooks /\ rounds' = rounds /\ (past' = past \/ hooks' = {})
    BY <1>6 DEF Close, Forgetting
  <2>2. CASE past' = past
    <3>1. \A h \in hooks', n \in 1..Len(past) : Owed(h, n) => Owed(h, n)'
      BY <2>1 DEF Owed
    <3> QED BY <2>1, <2>2, <3>1, QuietSteps
  <2>3. CASE hooks' = {}
    BY <2>3 DEF HooksHearMoves
  <2> QED BY <2>1, <2>2, <2>3
<1>7. CASE UNCHANGED hookVars
  <2>1. \A h \in hooks', n \in 1..Len(past) : Owed(h, n) => Owed(h, n)'
    BY <1>7 DEF hookVars, Owed
  <2> QED BY <1>7, <2>1, QuietSteps DEF hookVars
<1> QED BY <1>1, <1>2, <1>3, <1>4, <1>5, <1>6, <1>7 DEF HooksNext, RoundsNext, OnReload, OnChange

\* Whatever is registered, installed and under way, the tokens tell the hooks
\* apart, each install has one round at most, and hooks and rounds refer to
\* installs that happened (on_reload, remove_hook, run_hooks).
THEOREM ListInvariant == HooksSpec => []ListInv
<1> QED BY ListInit, ListStep, PTL DEF HooksSpec

\* No hook misses a move of what it watches, however many installs, hooks and
\* overlapping rounds there are, and whatever their filters (on_change's filter,
\* run_hooks).
THEOREM HooksHearMovesThm == HooksSpec => []HooksHearMoves
<1>1. HooksInit => ListInv /\ HooksHearMoves
  BY ListInit, MovesInit
<1>2. ListInv /\ HooksHearMoves /\ [HooksNext]_hookVars => ListInv' /\ HooksHearMoves'
  BY ListStep, MovesStep
<1> QED BY <1>1, <1>2, PTL DEF HooksSpec

=============================================================================
