------------------------------ MODULE FacadeProofs ------------------------------
(***************************************************************************)
(* What the parts of the facade promise, for any paths, values, tasks,     *)
(* pools, threads, channels and families of classes, and however deep      *)
(* blocks nest.                                                            *)
(*                                                                         *)
(* overrides(): the mirror says what the layer holds except between the    *)
(* two writes of one call, so what a block remembers of the mirror is what *)
(* the layer held; and while a block puts back what it remembers, each path *)
(* is either back or still to be written.                                  *)
(*                                                                         *)
(* executor(): as long as no two blocks crossed, the open blocks are one   *)
(* stack across all tasks (Stack), no block shuts down or replaces what an *)
(* older one puts back (Apart), so what is put back is still live (InUse); *)
(* and every live pool that was built here is owned, about to be shut      *)
(* down, adopted by a caller, or kept by an open block (Accounts).         *)
(*                                                                         *)
(* configure_logging(): a line an emitter still holds is in no count       *)
(* (Fresh), so a drop adds one line to one count, and a forwarder takes a  *)
(* count over only when it holds none (Tallied); until something is        *)
(* stopped the bridge is the one that was installed (Located).  With a GIL *)
(* one call runs at a time, and each of its steps finds the slot, the sink *)
(* and the flag as the step before left them (InForce).                    *)
(*                                                                         *)
(* @dynamic_config: the plain classes decorated are exactly those with     *)
(* readers of their own (ReadersInv).                                      *)
(***************************************************************************)
EXTENDS Facade, Decorator, SequenceTheorems, FiniteSetTheorems, WellFoundedInduction, TLAPS

USE LayersAssumption

\* The layer and its mirror, between the writes of a call and in their midst.
Mirrored ==
    /\ mode \in {"body", "entering", "exiting", "leaving"} =>
          half = Unset /\ overrides = mirror
    /\ mode \in {"clearing", "emptying"} => half = Unset /\ overrides = NoPins
    /\ Writing =>
          IF half = Unset THEN overrides = mirror
          ELSE todo[half] # Unset /\ overrides = [mirror EXCEPT ![half] = todo[half]]

\* What a block remembers is what it found.
Remembered ==
    /\ entry.previous = entry.found
    /\ \A i \in 1 .. Len(frames) : frames[i].previous = frames[i].found

\* How far a block is in putting it back.
PuttingBack ==
    /\ mode \in {"entering", "exiting", "emptying", "restoring", "leaving"} => frames # <<>>
    /\ mode = "restoring" =>
        \A p \in Paths :
            IF todo[p] = Unset THEN mirror[p] = Last(frames).previous[p]
            ELSE todo[p] = Last(frames).previous[p] /\ mirror[p] = Unset
    /\ mode = "leaving" => mirror = Last(frames).previous

LayersInv == TypeOK /\ Mirrored /\ Remembered /\ PuttingBack

LEMMA NoPinsIsPins == NoPins \in Pins /\ \A p \in Paths : NoPins[p] = Unset
  BY DEF NoPins, Pins

LEMMA InitLayers == Init => LayersInv
  BY NoPinsIsPins DEF Init, LayersInv, TypeOK, Mirrored, Remembered, PuttingBack, Frame,
                      Writing, Origins, NoPins

LEMMA ResolvedIsTyped ==
  ASSUME NEW pinned \in Pins
  PROVE  Resolved(pinned) \in [Paths -> Origins]
<1>1. \A p \in Paths : Origin(p, pinned) \in Origins
  BY DEF Origin, Origins, Pins
<1>. QED  BY <1>1 DEF Resolved

\* The last element of a sequence that is not empty, and what is before it.
LEMMA LastAndFront ==
  ASSUME NEW S, NEW s \in Seq(S), s # <<>>
  PROVE  /\ Len(s) \in Nat \ {0}
         /\ Last(s) = s[Len(s)] /\ Last(s) \in S
         /\ Front(s) \in Seq(S) /\ Len(Front(s)) = Len(s) - 1
         /\ \A i \in 1 .. Len(Front(s)) : Front(s)[i] = s[i]
<1>1. Len(s) \in Nat \ {0}
  OBVIOUS
<1>2. Last(s) = s[Len(s)] /\ Last(s) \in S
  BY <1>1 DEF Last
<1>3. /\ Front(s) \in Seq(S) /\ Len(Front(s)) = Len(s) - 1
      /\ \A i \in 1 .. Len(Front(s)) : Front(s)[i] = s[i]
  <2> DEFINE n == Len(s) - 1
  <2>1. n \in Nat /\ 1 \in Int /\ n \in Int
    BY <1>1
  <2>2. \A i \in 1 .. n : s[i] \in S
    BY <1>1
  <2>3. /\ SubSeq(s, 1, n) \in Seq(S)
        /\ Len(SubSeq(s, 1, n)) = IF 1 <= n THEN n - 1 + 1 ELSE 0
        /\ \A i \in 1 .. n - 1 + 1 : SubSeq(s, 1, n)[i] = s[1 + i - 1]
    <3> HIDE DEF n
    <3>. QED  BY <2>1, <2>2, SubSeqProperties
  <2>4. Front(s) = SubSeq(s, 1, n)
    BY DEF Front
  <2>. HIDE DEF n
  <2>5. Len(Front(s)) = n /\ \A i \in 1 .. n : Front(s)[i] = s[i]
    BY <2>1, <2>3, <2>4
  <2>. QED  BY <2>1, <2>3, <2>4, <2>5 DEF n
<1>. QED  BY <1>1, <1>2, <1>3

LEMMA AppendFrame ==
  ASSUME NEW s \in Seq(Frame), NEW e \in Frame
  PROVE  /\ Append(s, e) \in Seq(Frame) /\ Append(s, e) # <<>>
         /\ Len(Append(s, e)) = Len(s) + 1
         /\ \A i \in 1 .. Len(s) : Append(s, e)[i] = s[i]
         /\ Append(s, e)[Len(s) + 1] = e
  OBVIOUS

-----------------------------------------------------------------------------
(* One step.                                                               *)

\* The calls that leave the pins and the blocks alone.
Elsewhere ==
    \/ ListSource \/ Ask \/ FilesChange \/ Reload \/ WatcherReload
    \/ \E p \in Paths : SetDefault(p) \/ SetAssignments(p) \/ BindEnv(p)
    \/ ClearDefaults \/ ClearAssignments

LEMMA ElsewhereKeeps ==
  ASSUME LayersInv, Elsewhere
  PROVE  LayersInv' /\ UNCHANGED <<pins, mode, entry, frames>>
<1>1. UNCHANGED <<pins, mode, entry, frames>>
  BY DEF Elsewhere, ListSource, Ask, FilesChange, Reload, WatcherReload, SetDefault,
         SetAssignments, BindEnv, ClearDefaults, ClearAssignments
<1>2. Mirrored' /\ Remembered' /\ PuttingBack'
  BY <1>1 DEF LayersInv, Mirrored, Remembered, PuttingBack, Writing, pins
<1>3. overrides \in Pins
  BY DEF LayersInv, TypeOK
<1>4. ASSUME Reload \/ WatcherReload PROVE TypeOK'
  BY <1>1, <1>3, <1>4, ResolvedIsTyped
  DEF LayersInv, TypeOK, Reload, WatcherReload, Loads, Calls, layers, pins
<1>5. ASSUME ListSource \/ Ask \/ FilesChange PROVE TypeOK'
  BY <1>1, <1>5 DEF LayersInv, TypeOK, ListSource, Ask, FilesChange, Calls, layers, pins
<1>6. ASSUME \/ ClearDefaults \/ ClearAssignments
             \/ \E p \in Paths : SetDefault(p) \/ SetAssignments(p) \/ BindEnv(p)
      PROVE  TypeOK'
  BY <1>1, <1>6 DEF LayersInv, TypeOK, ClearDefaults, ClearAssignments, SetDefault,
                    SetAssignments, BindEnv, Calls, pins
<1>. QED  BY <1>1, <1>2, <1>4, <1>5, <1>6 DEF Elsewhere, LayersInv

\* The writes of one call, and those of a block that is entered.
LEMMA WritesKeep ==
  ASSUME LayersInv,
         \/ SetOverride \/ Mirror \/ PinRefused \/ Set \/ ClearOverrides \/ Cleared
         \/ \E p \in Paths : Layer(p)
  PROVE  LayersInv' /\ UNCHANGED frames
<1>. USE DEF LayersInv
<1>0. UNCHANGED <<frames, entry>>
  BY DEF SetOverride, Mirror, PinRefused, Set, ClearOverrides, Cleared, Layer
<1>1. Remembered'
  BY <1>0 DEF Remembered
<1>2. TypeOK'
  <2>1. CASE SetOverride
    BY <2>1, NoPinsIsPins DEF TypeOK, SetOverride, Calls, Becomes, layers, Pins
  <2>2. CASE Mirror \/ PinRefused \/ Set
    BY <2>2, NoPinsIsPins DEF TypeOK, Mirror, PinRefused, Set, Becomes, layers, pins, Pins
  <2>3. CASE ClearOverrides \/ Cleared
    BY <2>3, NoPinsIsPins DEF TypeOK, ClearOverrides, Cleared, Calls, Becomes, layers
  <2>4. CASE \E p \in Paths : Layer(p)
    BY <2>4 DEF TypeOK, Layer, Becomes, layers, Pins
  <2>. QED  BY <2>1, <2>2, <2>3, <2>4
<1>3. Mirrored' /\ PuttingBack'
  <2>1. CASE SetOverride
    BY <2>1 DEF Mirrored, PuttingBack, SetOverride, Calls, Becomes, Writing
  <2>2. CASE Mirror
    <3>1. half \in Paths /\ Writing /\ mode' = mode /\ half' = Unset
      BY <2>2 DEF Mirror, Becomes, TypeOK, Mirrored, Writing
    <3>2. overrides' = mirror'
      BY <2>2, <3>1 DEF Mirror, Mirrored
    <3>3. ASSUME mode = "restoring", NEW p \in Paths
          PROVE  IF todo'[p] = Unset THEN mirror'[p] = Last(frames).previous[p]
                 ELSE todo'[p] = Last(frames).previous[p] /\ mirror'[p] = Unset
      <4>1. CASE p = half
        BY <2>2, <3>1, <3>3, <4>1 DEF Mirror, PuttingBack, Mirrored, TypeOK, Pins
      <4>2. CASE p # half
        BY <2>2, <3>1, <3>3, <4>2 DEF Mirror, PuttingBack, TypeOK, Pins
      <4>. QED  BY <4>1, <4>2
    <3>. QED  BY <3>1, <3>2, <3>3, <1>0 DEF Mirrored, PuttingBack, Writing
  <2>3. CASE PinRefused \/ Set
    <3>1. half = Unset /\ Writing /\ mode \in {"setting", "pinning"}
      BY <2>3, NoPinsIsPins DEF PinRefused, Set, Mirrored, Writing, TypeOK
    <3>. QED  BY <2>3, <3>1 DEF PinRefused, Set, Becomes, Mirrored, PuttingBack, Writing, pins
  <2>4. CASE ClearOverrides \/ Cleared
    BY <2>4 DEF ClearOverrides, Cleared, Calls, Becomes, Mirrored, PuttingBack, Writing
  <2>5. CASE \E p \in Paths : Layer(p)
    BY <2>5 DEF Layer, Becomes, Mirrored, PuttingBack, Writing
  <2>. QED  BY <2>1, <2>2, <2>3, <2>4, <2>5
<1>. QED  BY <1>0, <1>1, <1>2, <1>3

\* A block: entered, left, and its values put back.
LEMMA BlocksKeep ==
  ASSUME LayersInv,
         \/ Overrides \/ Pinned \/ Enter \/ Exit
         \/ EmptyLayer \/ EmptyMirror \/ Restored
  PROVE  LayersInv' /\ Len(frames') >= Len(frames)
<1>. USE DEF LayersInv
<1>1. CASE Overrides
  <2>1. TypeOK'
    BY <1>1 DEF TypeOK, Overrides, Calls, Becomes, Frame, layers
  <2>2. Mirrored' /\ PuttingBack'
    BY <1>1 DEF Overrides, Calls, Becomes, Mirrored, PuttingBack, Writing
  <2>3. Remembered'
    BY <1>1 DEF Overrides, Calls, Remembered, Mirrored
  <2>4. frames' = frames
    BY <1>1 DEF Overrides
  <2>. QED  BY <2>1, <2>2, <2>3, <2>4 DEF TypeOK
<1>2. CASE Pinned
  <2>1. half = Unset /\ overrides = mirror
    BY <1>2, NoPinsIsPins DEF Pinned, Mirrored, Writing, TypeOK
  <2>2. /\ frames' \in Seq(Frame) /\ frames' # <<>> /\ Len(frames') = Len(frames) + 1
        /\ \A i \in 1 .. Len(frames) : frames'[i] = frames[i]
        /\ frames'[Len(frames) + 1] = entry
    BY <1>2, AppendFrame DEF Pinned, TypeOK
  <2>3. TypeOK'
    BY <1>2, <2>2 DEF Pinned, Becomes, TypeOK, layers, pins
  <2>4. Mirrored' /\ PuttingBack'
    BY <1>2, <2>1, <2>2 DEF Pinned, Becomes, Mirrored, PuttingBack, Writing, pins
  <2>5. Len(frames) \in Nat
    BY DEF TypeOK
  <2>6. Remembered'
    <3>1. entry' = entry
      BY <1>2 DEF Pinned
    <3>2. ASSUME NEW i \in 1 .. Len(frames') PROVE frames'[i].previous = frames'[i].found
      <4>1. i \in 1 .. Len(frames) \/ i = Len(frames) + 1
        BY <2>2, <2>5
      <4>. QED  BY <4>1, <2>2 DEF Remembered
    <3>. QED  BY <3>1, <3>2 DEF Remembered
  <2>. QED  BY <2>2, <2>3, <2>4, <2>5, <2>6
<1>3. CASE Enter \/ Exit \/ EmptyLayer \/ EmptyMirror \/ Restored
  <2>0. frames' = frames /\ entry' = entry
    BY <1>3 DEF Enter, Exit, EmptyLayer, EmptyMirror, Restored
  <2>1. Remembered'
    BY <2>0 DEF Remembered
  <2>2. TypeOK' /\ Mirrored' /\ PuttingBack'
    <3>1. CASE Enter
      <4>1. Resolved(overrides) \in [Paths -> Origins]
        BY ResolvedIsTyped DEF TypeOK
      <4>. QED  BY <3>1, <4>1 DEF Enter, TypeOK, Mirrored, PuttingBack, Writing, layers, pins
    <3>2. CASE Exit
      BY <3>2 DEF Exit, Becomes, TypeOK, Mirrored, PuttingBack, Writing, layers, pins
    <3>3. CASE EmptyLayer
      BY <3>3, NoPinsIsPins DEF EmptyLayer, Becomes, TypeOK, Mirrored, PuttingBack, Writing,
                                layers
    <3>4. CASE EmptyMirror
      <4>1. frames # <<>> /\ Last(frames) \in Frame
        BY <3>4, LastAndFront DEF EmptyMirror, PuttingBack, TypeOK
      <4>2. Last(frames).previous \in Pins
        BY <4>1 DEF Frame
      <4>3. TypeOK'
        BY <3>4, <4>2, NoPinsIsPins DEF EmptyMirror, Becomes, TypeOK, layers
      <4>4. Mirrored' /\ PuttingBack'
        BY <3>4, <4>1, NoPinsIsPins
        DEF EmptyMirror, Becomes, Mirrored, PuttingBack, Writing
      <4>. QED  BY <4>3, <4>4
    <3>5. CASE Restored
      <4>1. half = Unset /\ overrides = mirror
        BY <3>5, NoPinsIsPins DEF Restored, Mirrored, Writing, TypeOK
      <4>2. frames # <<>> /\ Last(frames) \in Frame
        BY <3>5, LastAndFront DEF Restored, PuttingBack, TypeOK
      <4>3. mirror = Last(frames).previous
        <5>1. Last(frames).previous \in Pins /\ mirror \in Pins
          BY <4>2 DEF Frame, TypeOK
        <5>2. \A p \in Paths : mirror[p] = Last(frames).previous[p]
          BY <3>5, NoPinsIsPins DEF Restored, PuttingBack
        <5>. QED  BY <5>1, <5>2 DEF Pins
      <4>. QED  BY <3>5, <4>1, <4>2, <4>3
                DEF Restored, Becomes, TypeOK, Mirrored, PuttingBack, Writing, layers, pins
    <3>. QED  BY <1>3, <3>1, <3>2, <3>3, <3>4, <3>5
  <2>. QED  BY <2>0, <2>1, <2>2 DEF TypeOK
<1>. QED  BY <1>1, <1>2, <1>3

\* The way out of a block.
LEMMA LeaveKeeps ==
  ASSUME LayersInv, Leave
  PROVE  /\ LayersInv'
         /\ overrides' = Last(frames).found /\ mirror' = Last(frames).found
         /\ installed' \in {installed, Resolved(Last(frames).found)}
<1>. USE DEF LayersInv
<1>1. frames # <<>>
  BY DEF Leave, PuttingBack
<1>2. /\ Len(frames) \in Nat \ {0} /\ Last(frames) = frames[Len(frames)]
      /\ frames' \in Seq(Frame) /\ Len(frames') = Len(frames) - 1
      /\ \A i \in 1 .. Len(frames') : frames'[i] = frames[i]
  BY <1>1, LastAndFront DEF Leave, TypeOK
<1>3. Last(frames).previous = Last(frames).found
  BY <1>2 DEF Remembered
<1>4. overrides = Last(frames).found /\ mirror = Last(frames).found /\ half = Unset
  BY <1>3 DEF Leave, Mirrored, PuttingBack
<1>5. UNCHANGED <<pins, entry>> /\ mode' = "body"
  BY DEF Leave, Becomes
<1>6. TypeOK'
  BY <1>2, <1>5, ResolvedIsTyped DEF Leave, Becomes, Loads, TypeOK, layers, pins
<1>7. Mirrored' /\ PuttingBack'
  BY <1>4, <1>5 DEF Mirrored, PuttingBack, Writing, pins
<1>8. Remembered'
  <2>1. \A i \in 1 .. Len(frames') : i \in 1 .. Len(frames)
    BY <1>2
  <2>. QED  BY <1>2, <1>5, <2>1 DEF Remembered
<1>. QED  BY <1>4, <1>5, <1>6, <1>7, <1>8 DEF Leave, Loads, pins

LEMMA NextKeeps == LayersInv /\ [Next]_vars => LayersInv'
<1>. SUFFICES ASSUME LayersInv, [Next]_vars PROVE LayersInv'
  OBVIOUS
<1>1. CASE UNCHANGED vars
  BY <1>1 DEF vars, layers, pins, LayersInv, TypeOK, Mirrored, Remembered, PuttingBack,
              Writing
<1>2. CASE Next
  BY <1>2, ElsewhereKeeps, WritesKeep, BlocksKeep, LeaveKeeps DEF Next, Elsewhere
<1>. QED  BY <1>1, <1>2

\* The mirror of the facade agrees with the engine's layer but for the middle of a
\* write, and every open block remembers what it found (set_override, overrides).
THEOREM LayersInvariant == Spec => []LayersInv
<1>1. Init => LayersInv
  BY InitLayers
<1>2. LayersInv /\ [Next]_vars => LayersInv'
  BY NextKeeps
<1>. QED  BY <1>1, <1>2, PTL DEF Spec

\* overrides() leaves the layer, its mirror and what it reloads as it found them,
\* however deep blocks nest and whatever is written inside (overrides).
THEOREM BlocksLeaveNoTraceThm == Spec => BlocksLeaveNoTrace
<1>. DEFINE Trace ==
       Len(frames') < Len(frames) =>
          /\ overrides' = Last(frames).found
          /\ mirror' = Last(frames).found
          /\ installed' \in {installed, Resolved(Last(frames).found)}
<1>1. LayersInv /\ [Next]_vars => [Trace]_vars
  <2>. SUFFICES ASSUME LayersInv, Next PROVE Trace
    OBVIOUS
  <2>1. Len(frames) \in Nat
    BY DEF LayersInv, TypeOK
  <2>2. CASE Leave
    BY <2>2, LeaveKeeps
  <2>3. CASE \/ Overrides \/ Pinned \/ Enter \/ Exit \/ EmptyLayer \/ EmptyMirror
             \/ Restored
    <3>1. Len(frames') >= Len(frames) /\ LayersInv'
      BY <2>3, BlocksKeep
    <3>2. Len(frames') \in Nat
      BY <3>1 DEF LayersInv, TypeOK
    <3>. QED  BY <2>1, <3>1, <3>2
  <2>4. CASE Elsewhere
    BY <2>1, <2>4, ElsewhereKeeps
  <2>5. CASE \/ SetOverride \/ Mirror \/ PinRefused \/ Set \/ ClearOverrides \/ Cleared
             \/ \E p \in Paths : Layer(p)
    BY <2>1, <2>5, WritesKeep
  <2>. QED  BY <2>2, <2>3, <2>4, <2>5 DEF Next, Elsewhere
<1>2. Spec => []LayersInv
  BY LayersInvariant
<1>. QED  BY <1>1, <1>2, PTL DEF Spec, BlocksLeaveNoTrace

-----------------------------------------------------------------------------
(* Executors.                                                              *)

USE FacadeAssumption DEF E!PoolAssumption, E!Built

(* What the steps that read a block do, in the operators of this module.   *)

LatestOf(t) == order # <<>> /\ Last(order).task = t

LEMMA PinIs ==
  ASSUME NEW t \in Tasks, E!Pin(t)
  PROVE  /\ pc[t] = "entering" /\ pc' = [pc EXCEPT ![t] = "running"]
         /\ default' = Last(blocks[t]).chosen
         /\ owned' = IF Last(blocks[t]).ours THEN Last(blocks[t]).chosen ELSE None
         /\ crossed' = (crossed \/ E!Entering # {t})
         /\ UNCHANGED <<pools, live, blocks, victim, poolCalls, exited, order, replaced,
                        adopted>>
  BY DEF E!Pin, E!Goto, E!Last, Last

LEMMA LeaveIs ==
  ASSUME NEW t \in Tasks, E!Leave(t)
  PROVE  /\ pc[t] = "running" /\ blocks[t] # <<>>
         /\ blocks' = [blocks EXCEPT ![t] = Front(blocks[t])]
         /\ order' = IF LatestOf(t) THEN Front(order) ELSE <<>>
         /\ default' = Last(blocks[t]).saved /\ owned' = Last(blocks[t]).owner
         /\ E!ShutsDown(t, IF Last(blocks[t]).ours THEN Last(blocks[t]).chosen ELSE None)
         /\ crossed' = (crossed \/ ~ LatestOf(t) \/ E!Entering # {})
         /\ UNCHANGED <<pools, live, poolCalls, exited, replaced, adopted>>
<1>1. E!Last(blocks[t]) = Last(blocks[t]) /\ E!Front(blocks[t]) = Front(blocks[t])
  BY DEF E!Last, Last, E!Front, Front
<1>2. E!Latest(t) = LatestOf(t) /\ E!Front(order) = Front(order)
  BY DEF E!Latest, LatestOf, E!Last, Last, E!Front, Front
<1>. QED  BY <1>1, <1>2 DEF E!Leave, E!Left, E!Running

\* The task pushes a block that remembers the globals.
EnterIs(t, b) ==
    /\ ~ exited
    /\ pc[t] = "running" /\ pc' = [pc EXCEPT ![t] = "entering"]
    /\ b = [saved |-> default, owner |-> owned, ours |-> b.ours, chosen |-> b.chosen]
    /\ blocks' = [blocks EXCEPT ![t] = Append(blocks[t], b)]
    /\ order' = Append(order, [task |-> t, depth |-> Len(blocks[t]) + 1])
    /\ IF b.ours
       THEN b.chosen = pools + 1 /\ pools' = pools + 1 /\ live' = live \cup {pools + 1}
       ELSE /\ b.chosen \in Theirs \cup ({default} \ {None})
            /\ pools' = pools /\ live' = live
    /\ UNCHANGED <<default, owned, victim, exited, crossed, replaced, adopted>>

LEMMA EnterGives ==
  ASSUME NEW t \in Tasks, E!Enter(t)
  PROVE  \E b : EnterIs(t, b) /\ b.ours \in BOOLEAN
<1>1. PICK pool \in E!Given :
        /\ pool = None => pools < MaxPools
        /\ pools' = IF pool = None THEN pools + 1 ELSE pools
        /\ live' = IF pool = None THEN live \cup {pools'} ELSE live
        /\ blocks' = [blocks EXCEPT ![t] = Append(@,
               [saved |-> default, owner |-> owned, ours |-> pool = None,
                chosen |-> IF pool = None THEN pools' ELSE pool])]
  BY DEF E!Enter
<1>. DEFINE b == [saved |-> default, owner |-> owned, ours |-> pool = None,
                  chosen |-> IF pool = None THEN pools' ELSE pool]
<1>2. EnterIs(t, b)
  BY <1>1 DEF E!Enter, EnterIs, E!Calls, E!Running, E!Goto, E!Given, E!globals
<1>3. b.ours \in BOOLEAN
  OBVIOUS
<1>. HIDE DEF b
<1>. QED  BY <1>2, <1>3

\* The pools there are, and those built here.
Known == Theirs \cup 1 .. pools
Own == (1 .. pools) \cup {None}

\* What a block remembers and runs on.
Sound(b) ==
    /\ b.saved \in Known \cup {None}
    /\ b.owner \in Own /\ b.owner \in {None, b.saved}
    /\ b.chosen \in Known /\ (b.ours => b.chosen \in Own)

\* Only a pool built here is ever owned or shut down, and it is the one in force.
Owning ==
    /\ Theirs \subseteq live /\ live \subseteq Known
    /\ default \in Known \cup {None}
    /\ owned \in Own /\ owned \in {None, default}
    /\ \A t \in Tasks :
        /\ victim[t] \in Own
        /\ pc[t] = "shutting" <=> victim[t] # None
        /\ pc[t] = "entering" => blocks[t] # <<>>
        /\ \A k \in 1 .. Len(blocks[t]) : Sound(blocks[t][k])
    /\ exited => owned = None /\ E!Open = {}

OwningInv == E!TypeOK /\ Owning

LEMMA OwningInit == E!Init => OwningInv
<1>. SUFFICES ASSUME E!Init PROVE OwningInv
  OBVIOUS
<1>1. E!TypeOK
  <2>1. pools = 0 /\ poolCalls = 0 /\ 0 \in 0 .. MaxPools /\ 0 \in 0 .. MaxCalls
    BY LayersAssumption DEF E!Init
  <2>2. /\ blocks \in [Tasks -> Seq(E!Block)]
        /\ order \in Seq(E!Began)
    BY DEF E!Init
  <2>. QED  BY <2>1, <2>2 DEF E!Init, E!TypeOK, E!PoolsOrNone, E!Pools, E!Built
<1>2. Owning
  BY DEF E!Init, Owning, Known, Own, E!Open
<1>. QED  BY <1>1, <1>2 DEF OwningInv

LEMMA TypeStep == OwningInv /\ [E!Next]_(E!vars) => E!TypeOK'
<1>. SUFFICES ASSUME OwningInv, [E!Next]_(E!vars) PROVE E!TypeOK'
  OBVIOUS
<1>. USE DEF OwningInv, E!TypeOK, E!PoolsOrNone, E!Pools, E!Built
<1>1. CASE UNCHANGED E!vars
  BY <1>1 DEF E!vars, E!globals, E!history
<1>2. CASE E!Exit
  BY <1>2 DEF E!Exit, E!history
<1>3. ASSUME NEW t \in Tasks, E!SetExecutor(t) PROVE E!TypeOK'
  BY <1>3 DEF E!SetExecutor, E!Calls, E!ShutsDown, E!Goto, E!Given
<1>4. ASSUME NEW t \in Tasks, E!ConfigureExecutor(t) PROVE E!TypeOK'
  <2>1. pools' \in 0 .. MaxPools /\ pools' \in 1 .. MaxPools
    BY <1>4 DEF E!ConfigureExecutor
  <2>. QED  BY <1>4, <2>1 DEF E!ConfigureExecutor, E!Calls, E!ShutsDown, E!Goto
<1>5. ASSUME NEW t \in Tasks, E!Enter(t) PROVE E!TypeOK'
  <2>1. PICK pool \in E!Given :
          /\ pool = None => pools < MaxPools
          /\ pools' = IF pool = None THEN pools + 1 ELSE pools
          /\ live' = IF pool = None THEN live \cup {pools'} ELSE live
          /\ blocks' = [blocks EXCEPT ![t] = Append(@,
                 [saved |-> default, owner |-> owned, ours |-> pool = None,
                  chosen |-> IF pool = None THEN pools' ELSE pool])]
    BY <1>5 DEF E!Enter
  <2>2. /\ pool \in E!PoolsOrNone
        /\ pools' \in 0 .. MaxPools /\ (pool = None => pools' \in 1 .. MaxPools)
    BY <2>1 DEF E!Given
  <2>3. live' \subseteq E!Pools
    BY <2>1, <2>2
  <2>4. blocks' \in [Tasks -> Seq(E!Block)]
    <3>. DEFINE b == [saved |-> default, owner |-> owned, ours |-> pool = None,
                      chosen |-> IF pool = None THEN pools' ELSE pool]
    <3>1. b \in E!Block
      BY <2>2 DEF E!Block
    <3>2. Append(blocks[t], b) \in Seq(E!Block)
      BY <3>1, AppendProperties
    <3>3. blocks' = [blocks EXCEPT ![t] = Append(blocks[t], b)]
      BY <2>1
    <3>. HIDE DEF b
    <3>. QED  BY <3>2, <3>3
  <2>5. order' \in Seq(E!Began)
    <3>1. Len(blocks[t]) + 1 \in Nat
      BY LenProperties
    <3>2. [task |-> t, depth |-> Len(blocks[t]) + 1] \in E!Began
      BY <3>1 DEF E!Began
    <3>. QED  BY <1>5, <3>2, AppendProperties DEF E!Enter
  <2>6. pc' \in [Tasks -> {"running", "entering", "shutting"}] /\ poolCalls' \in 0 .. MaxCalls
    BY <1>5, LayersAssumption DEF E!Enter, E!Calls, E!Goto
  <2>7. UNCHANGED <<default, owned, victim, exited, crossed, replaced, adopted>>
    BY <1>5 DEF E!Enter, E!Calls, E!globals
  <2>. QED  BY <2>2, <2>3, <2>4, <2>5, <2>6, <2>7
<1>6. ASSUME NEW t \in Tasks, E!Pin(t) PROVE E!TypeOK'
  <2>1. Last(blocks[t]) \in E!Block
    <3>1. blocks[t] \in Seq(E!Block)
      OBVIOUS
    <3>2. blocks[t] # <<>>
      BY <1>6, PinIs DEF Owning
    <3>. QED  BY <3>1, <3>2, LastAndFront
  <2>2. /\ default' \in E!PoolsOrNone /\ owned' \in E!PoolsOrNone
        /\ pc' \in [Tasks -> {"running", "entering", "shutting"}]
    BY <1>6, <2>1, PinIs, ZenonT(40) DEF E!Block
  <2>3. /\ UNCHANGED <<pools, live, blocks, victim, poolCalls, exited, order, replaced, adopted>>
        /\ crossed' \in BOOLEAN
    BY <1>6, PinIs
  <2>. QED  BY <2>2, <2>3
<1>7. ASSUME NEW t \in Tasks, E!Leave(t) PROVE E!TypeOK'
  <2>. DEFINE b == Last(blocks[t])
  <2>1. /\ blocks[t] # <<>>
        /\ blocks' = [blocks EXCEPT ![t] = Front(blocks[t])]
        /\ order' = IF LatestOf(t) THEN Front(order) ELSE <<>>
        /\ default' = b.saved /\ owned' = b.owner
        /\ E!ShutsDown(t, IF b.ours THEN b.chosen ELSE None)
        /\ crossed' = (crossed \/ ~ LatestOf(t) \/ E!Entering # {})
        /\ UNCHANGED <<pools, live, poolCalls, exited, replaced, adopted>>
    BY <1>7, LeaveIs
  <2>2. b \in E!Block /\ Front(blocks[t]) \in Seq(E!Block)
    <3>1. blocks[t] \in Seq(E!Block)
      OBVIOUS
    <3>. QED  BY <2>1, <3>1, LastAndFront
  <2>. HIDE DEF b
  <2>3. blocks' \in [Tasks -> Seq(E!Block)]
    BY <2>1, <2>2
  <2>4. order' \in Seq(E!Began)
    <3>1. CASE LatestOf(t)
      <4>1. Front(order) \in Seq(E!Began)
        BY <3>1, LastAndFront DEF LatestOf
      <4>. QED  BY <2>1, <3>1, <4>1
    <3>. QED  BY <2>1, <3>1
  <2>5. /\ default' \in E!PoolsOrNone /\ owned' \in E!PoolsOrNone
        /\ victim' \in [Tasks -> E!PoolsOrNone]
        /\ pc' \in [Tasks -> {"running", "entering", "shutting"}]
    BY <2>1, <2>2 DEF E!ShutsDown, E!Goto, E!Block
  <2>. QED  BY <2>1, <2>3, <2>4, <2>5
<1>8. ASSUME NEW t \in Tasks, E!Shutdown(t) PROVE E!TypeOK'
  BY <1>8 DEF E!Shutdown, E!Goto, E!globals, E!history
<1>. QED  BY <1>1, <1>2, <1>3, <1>4, <1>5, <1>6, <1>7, <1>8 DEF E!Next
-----------------------------------------------------------------------------
LEMMA OursIsOurs ==
  ASSUME OwningInv
  PROVE  /\ pools \in Nat /\ 1 .. pools \subseteq 1 .. MaxPools
         /\ Own \cap Theirs = {} /\ None \notin Known /\ pools + 1 \notin 1 .. pools
         /\ (pools + 1 \in 1 .. MaxPools => pools + 1 \notin Known)
<1>1. pools \in Nat /\ pools <= MaxPools
  BY DEF OwningInv, E!TypeOK
<1>2. 1 .. pools \subseteq 1 .. MaxPools
  BY <1>1
<1>3. Own \cap Theirs = {} /\ None \notin Known
  BY <1>2 DEF Own, Known
<1>4. pools + 1 \notin 1 .. pools
  BY <1>1
<1>5. pools + 1 \in 1 .. MaxPools => pools + 1 \notin Known
  BY <1>4 DEF Known
<1>. QED  BY <1>1, <1>2, <1>3, <1>4, <1>5

LEMMA OwningStep == OwningInv /\ [E!Next]_(E!vars) => OwningInv'
<1>. SUFFICES ASSUME OwningInv, [E!Next]_(E!vars) PROVE OwningInv'
  OBVIOUS
<1>0. E!TypeOK'
  BY TypeStep
<1>. SUFFICES Owning'
  BY <1>0 DEF OwningInv
<1>. USE DEF OwningInv, Owning, Known, Own
<1>1. CASE UNCHANGED E!vars
  BY <1>1 DEF E!vars, E!globals, E!history, E!Open, Sound
<1>2. CASE E!Exit
  <2>1. /\ UNCHANGED <<default, pools, blocks, pc, victim>> /\ owned' = None
        /\ live' = live \ {owned} /\ E!Open = {}
    BY <1>2 DEF E!Exit
  <2>2. owned \notin Theirs
    BY OursIsOurs
  <2>3. \A u \in Tasks : \A k \in 1 .. Len(blocks'[u]) : Sound(blocks[u][k])'
    BY <2>1 DEF Sound
  <2>. QED  BY <2>1, <2>2, <2>3 DEF E!Open
<1>3. ASSUME NEW t \in Tasks, E!SetExecutor(t) PROVE Owning'
  <2>1. PICK pool \in Theirs \cup {default, None} :
          /\ default' = pool /\ owned' = None
          /\ E!ShutsDown(t, IF owned = pool THEN None ELSE owned)
          /\ UNCHANGED <<pools, live, blocks, exited>> /\ ~ exited /\ pc[t] = "running"
    BY <1>3 DEF E!SetExecutor, E!Calls, E!Running, E!Given
  <2>2. \A u \in Tasks : \A k \in 1 .. Len(blocks'[u]) : Sound(blocks[u][k])'
    BY <2>1 DEF Sound
  <2>3. \A u \in Tasks : /\ victim'[u] \in Own'
                         /\ pc'[u] = "shutting" <=> victim'[u] # None
                         /\ pc'[u] = "entering" => blocks'[u] # <<>>
    BY <2>1 DEF E!TypeOK, E!ShutsDown, E!Goto
  <2>4. Known' = Known /\ Own' = Own /\ default \in Known \cup {None}
    BY <2>1
  <2>5. default' \in Known' \cup {None} /\ owned' \in Own' /\ owned' \in {None, default'}
    BY <2>1, <2>4
  <2>6. Theirs \subseteq live' /\ live' \subseteq Known'
    BY <2>1, <2>4
  <2>. QED  BY <2>1, <2>2, <2>3, <2>5, <2>6
<1>4. ASSUME NEW t \in Tasks, E!ConfigureExecutor(t) PROVE Owning'
  <2>1. /\ pools \in Nat /\ pools' = pools + 1 /\ live' = live \cup {pools'}
        /\ default' = pools' /\ owned' = pools'
        /\ ~ exited /\ UNCHANGED <<exited, blocks>>
        /\ pc[t] = "running" /\ victim' = [victim EXCEPT ![t] = owned]
        /\ pc' = [pc EXCEPT ![t] = IF owned = None THEN "running" ELSE "shutting"]
    BY <1>4 DEF E!ConfigureExecutor, E!Calls, E!Running, E!ShutsDown, E!Goto, E!TypeOK
  <2>2. 1 .. pools \subseteq 1 .. pools' /\ pools' \in 1 .. pools'
    BY <2>1
  <2>3. \A u \in Tasks : \A k \in 1 .. Len(blocks'[u]) : Sound(blocks[u][k])'
    BY <2>1, <2>2 DEF Sound
  <2>4. \A u \in Tasks : /\ victim'[u] \in Own'
                         /\ pc'[u] = "shutting" <=> victim'[u] # None
                         /\ pc'[u] = "entering" => blocks'[u] # <<>>
    BY <2>1, <2>2 DEF E!TypeOK
  <2>. QED  BY <2>1, <2>2, <2>3, <2>4
<1>5. ASSUME NEW t \in Tasks, E!Enter(t) PROVE Owning'
  <2>1. PICK b : EnterIs(t, b) /\ b.ours \in BOOLEAN
    BY <1>5, EnterGives
  <2>2. pools \in Nat /\ pools' \in Nat /\ 1 .. pools \subseteq 1 .. pools'
    BY <2>1 DEF EnterIs, E!TypeOK
  <2>3. Sound(b)'
    BY <2>1, <2>2 DEF EnterIs, Sound
  <2>4. \A u \in Tasks : \A k \in 1 .. Len(blocks[u]) : Sound(blocks[u][k])'
    BY <2>1, <2>2, SMTT(30) DEF EnterIs, Sound
  <2>5. \A u \in Tasks : \A k \in 1 .. Len(blocks'[u]) : Sound(blocks[u][k])'
    <3>1. blocks \in [Tasks -> Seq(E!Block)]
      BY DEF E!TypeOK
    <3>. QED  BY <2>1, <2>3, <2>4, <3>1 DEF EnterIs, Sound
  <2>6. \A u \in Tasks : pc'[u] = "entering" => blocks'[u] # <<>>
    <3>1. blocks \in [Tasks -> Seq(E!Block)] /\ pc \in [Tasks -> {"running", "entering", "shutting"}]
      BY DEF E!TypeOK
    <3>2. Append(blocks[t], b) # <<>>
      <4>1. Len(Append(blocks[t], b)) = Len(blocks[t]) + 1 /\ Len(blocks[t]) \in Nat
        <5>1. blocks[t] \in Seq(E!Block) /\ Len(blocks[t]) \in Nat
          BY <3>1
        <5>. QED  BY <5>1
      <4>2. Append(blocks[t], b) = <<>> => Len(Append(blocks[t], b)) = 0
        OBVIOUS
      <4>. HIDE DEF Owning, OwningInv, Known, Own
      <4>. QED  BY <4>1, <4>2
    <3>. QED  BY <2>1, <3>1, <3>2 DEF EnterIs
  <2>7. \A u \in Tasks : /\ victim'[u] \in Own'
                         /\ pc'[u] = "shutting" <=> victim'[u] # None
    BY <2>1, <2>2 DEF EnterIs, E!TypeOK
  <2>. QED  BY <2>1, <2>2, <2>5, <2>6, <2>7 DEF EnterIs
<1>6. ASSUME NEW t \in Tasks, E!Pin(t) PROVE Owning'
  <2>1. Sound(Last(blocks[t])) /\ Last(blocks[t]).ours \in BOOLEAN
    <3>1. blocks[t] \in Seq(E!Block) /\ blocks[t] # <<>>
      BY <1>6, PinIs DEF E!TypeOK
    <3>2. Last(blocks[t]) = blocks[t][Len(blocks[t])]
      BY <3>1, LastAndFront
    <3>3. Last(blocks[t]) \in E!Block
      BY <3>1, LastAndFront
    <3>4. Len(blocks[t]) \in 1 .. Len(blocks[t])
      BY <3>1, LastAndFront
    <3>. QED  BY <3>2, <3>3, <3>4 DEF E!Block
  <2>2. /\ default' \in Known \cup {None} /\ owned' \in Own /\ owned' \in {None, default'}
    BY <1>6, <2>1, PinIs DEF Sound
  <2>3. /\ UNCHANGED <<pools, live, blocks, victim, exited>>
        /\ pc[t] = "entering" /\ pc' = [pc EXCEPT ![t] = "running"]
    BY <1>6, PinIs
  <2>4. ~ exited
    BY <2>3 DEF E!Open
  <2>5. \A u \in Tasks : \A k \in 1 .. Len(blocks'[u]) : Sound(blocks[u][k])'
    BY <2>3 DEF Sound
  <2>6. \A u \in Tasks : /\ victim'[u] \in Own'
                         /\ pc'[u] = "shutting" <=> victim'[u] # None
                         /\ pc'[u] = "entering" => blocks'[u] # <<>>
    BY <2>3 DEF E!TypeOK
  <2>. QED  BY <2>2, <2>3, <2>4, <2>5, <2>6
<1>7. ASSUME NEW t \in Tasks, E!Leave(t) PROVE Owning'
  <2>. DEFINE b == Last(blocks[t])
             pool == IF b.ours THEN b.chosen ELSE None
  <2>0. blocks[t] \in Seq(E!Block) /\ blocks[t] # <<>>
    BY <1>7, LeaveIs DEF E!TypeOK
  <2>1. b \in E!Block
    BY <2>0, LastAndFront
  <2>7. b = blocks[t][Len(blocks[t])]
    BY <2>0, LastAndFront
  <2>8. Len(blocks[t]) \in 1 .. Len(blocks[t])
    BY <2>0, LastAndFront
  <2>2. Sound(b) /\ pool \in Own
    BY <2>1, <2>7, <2>8 DEF E!Block, Sound
  <2>3. /\ UNCHANGED <<pools, live, exited>> /\ default' = b.saved /\ owned' = b.owner
        /\ victim' = [victim EXCEPT ![t] = pool]
        /\ pc[t] = "running" /\ pc' = [pc EXCEPT ![t] = IF pool = None THEN "running" ELSE "shutting"]
        /\ blocks' = [blocks EXCEPT ![t] = Front(blocks[t])]
    BY <1>7, LeaveIs DEF E!ShutsDown, E!Goto
  <2>4. ~ exited
    BY <2>0 DEF E!Open
  <2>. HIDE DEF b, pool
  <2>5. \A u \in Tasks : \A k \in 1 .. Len(blocks'[u]) : Sound(blocks[u][k])'
    <3>1. Len(blocks[t]) \in Nat /\ Len(Front(blocks[t])) = Len(blocks[t]) - 1
      BY <2>0, LastAndFront
    <3>2. blocks'[t] = Front(blocks[t]) /\ \A u \in Tasks \ {t} : blocks'[u] = blocks[u]
      BY <2>3 DEF E!TypeOK
    <3>3. \A k \in 1 .. Len(Front(blocks[t])) : k \in 1 .. Len(blocks[t])
      BY <3>1
    <3>4. \A k \in 1 .. Len(Front(blocks[t])) : Front(blocks[t])[k] = blocks[t][k]
      BY <2>0, LastAndFront, SMTT(20)
    <3>5. \A u \in Tasks : \A k \in 1 .. Len(blocks'[u]) :
             k \in 1 .. Len(blocks[u]) /\ blocks'[u][k] = blocks[u][k]
      BY <3>2, <3>3, <3>4
    <3>. QED  BY <2>3, <3>5 DEF Sound
  <2>6. \A u \in Tasks : /\ victim'[u] \in Own'
                         /\ pc'[u] = "shutting" <=> victim'[u] # None
                         /\ pc'[u] = "entering" => blocks'[u] # <<>>
    BY <2>2, <2>3 DEF E!TypeOK
  <2>. QED  BY <2>2, <2>3, <2>4, <2>5, <2>6 DEF Sound
<1>8. ASSUME NEW t \in Tasks, E!Shutdown(t) PROVE Owning'
  <2>1. /\ UNCHANGED <<default, owned, pools, blocks, exited>>
        /\ live' = live \ {victim[t]} /\ victim' = [victim EXCEPT ![t] = None]
        /\ pc[t] = "shutting" /\ pc' = [pc EXCEPT ![t] = "running"]
    BY <1>8 DEF E!Shutdown, E!Goto, E!globals
  <2>2. victim[t] \notin Theirs
    BY OursIsOurs
  <2>3. \A u \in Tasks : \A k \in 1 .. Len(blocks'[u]) : Sound(blocks[u][k])'
    BY <2>1 DEF Sound
  <2>4. \A u \in Tasks : /\ victim'[u] \in Own'
                         /\ pc'[u] = "shutting" <=> victim'[u] # None
                         /\ pc'[u] = "entering" => blocks'[u] # <<>>
    BY <2>1 DEF E!TypeOK
  <2>. QED  BY <2>1, <2>2, <2>3, <2>4 DEF E!Open
<1>. QED  BY <1>1, <1>2, <1>3, <1>4, <1>5, <1>6, <1>7, <1>8 DEF E!Next

-----------------------------------------------------------------------------
(* The open blocks of all tasks as one stack, in the order they began.     *)

BlockAt(i) == blocks[order[i].task][order[i].depth]

\* Until two blocks cross, order lists every open block once, each task's by depth.
Stack == ~ crossed =>
    /\ \A i \in 1 .. Len(order) :
          order[i].depth \in 1 .. Len(blocks[order[i].task])
    /\ \A i, j \in 1 .. Len(order) :
          i < j /\ order[i].task = order[j].task => order[i].depth < order[j].depth
    /\ \A t \in Tasks : \A k \in 1 .. Len(blocks[t]) :
          \E i \in 1 .. Len(order) : order[i].task = t /\ order[i].depth = k

LEMMA StackTypes ==
  ASSUME OwningInv
  PROVE  /\ Len(order) \in Nat
         /\ \A i \in 1 .. Len(order) : order[i].task \in Tasks /\ order[i].depth \in Nat
         /\ \A t \in Tasks : blocks[t] \in Seq(E!Block) /\ Len(blocks[t]) \in Nat
         /\ blocks \in [Tasks -> Seq(E!Block)] /\ order \in Seq(E!Began)
<1>1. blocks \in [Tasks -> Seq(E!Block)] /\ order \in Seq(E!Began)
  BY DEF OwningInv, E!TypeOK
<1>2. \A i \in 1 .. Len(order) : order[i] \in E!Began
  BY <1>1
<1>. QED  BY <1>1, <1>2 DEF E!Began

LEMMA EnterOnTop ==
  ASSUME OwningInv, Stack, NEW t \in Tasks, NEW b, EnterIs(t, b), ~ crossed
  PROVE  /\ Len(order') = Len(order) + 1
         /\ \A i \in 1 .. Len(order) : order'[i] = order[i] /\ BlockAt(i)' = BlockAt(i)
         /\ order'[Len(order) + 1].task = t
         /\ \A i \in Nat : i = Len(order) + 1 => BlockAt(i)' = b
         /\ Stack'
<1>. DEFINE n == Len(order)
            d == Len(blocks[t]) + 1
<1>1. /\ blocks' = [blocks EXCEPT ![t] = Append(blocks[t], b)]
      /\ order' = Append(order, [task |-> t, depth |-> d])
  BY DEF EnterIs
<1>2. /\ Len(order') = n + 1 /\ \A i \in 1 .. n : order'[i] = order[i]
      /\ order'[n + 1].task = t /\ order'[n + 1].depth = d
  BY <1>1, StackTypes
<1>3. /\ Len(blocks'[t]) = d /\ blocks'[t][d] = b
      /\ \A k \in 1 .. Len(blocks[t]) : blocks'[t][k] = blocks[t][k]
      /\ \A u \in Tasks \ {t} : blocks'[u] = blocks[u]
  BY <1>1, StackTypes
<1>4. \A i \in 1 .. n : BlockAt(i)' = BlockAt(i)
  <2>. SUFFICES ASSUME NEW i \in 1 .. n PROVE BlockAt(i)' = BlockAt(i)
    OBVIOUS
  <2>1. /\ order'[i] = order[i] /\ order[i].task \in Tasks
        /\ order[i].depth \in 1 .. Len(blocks[order[i].task])
    BY <1>2, StackTypes DEF Stack
  <2>2. blocks'[order[i].task][order[i].depth] = blocks[order[i].task][order[i].depth]
    BY <1>3, <2>1
  <2>. QED  BY <2>1, <2>2 DEF BlockAt
<1>5. \A i \in Nat : i = n + 1 => BlockAt(i)' = b
  BY <1>2, <1>3 DEF BlockAt
<1>6. \A i \in 1 .. n + 1 : order'[i].depth \in 1 .. Len(blocks'[order'[i].task])
  <2>1. \A i \in 1 .. n : order'[i].depth \in 1 .. Len(blocks'[order'[i].task])
    <3>. SUFFICES ASSUME NEW i \in 1 .. n
                  PROVE  order'[i].depth \in 1 .. Len(blocks'[order'[i].task])
      OBVIOUS
    <3>1. order[i].task \in Tasks /\ order[i].depth \in 1 .. Len(blocks[order[i].task])
      BY StackTypes DEF Stack
    <3>2. order'[i] = order[i]
      BY <1>2
    <3>3. CASE order[i].task = t
      BY <1>3, <3>1, <3>2, <3>3, StackTypes
    <3>4. CASE order[i].task # t
      BY <1>3, <3>1, <3>2, <3>4
    <3>. QED  BY <3>3, <3>4
  <2>2. order'[n + 1].depth \in 1 .. Len(blocks'[order'[n + 1].task])
    BY <1>2, <1>3, StackTypes
  <2>3. \A i \in 1 .. n + 1 : i \in 1 .. n \/ i = n + 1
    BY StackTypes
  <2>. HIDE DEF n
  <2>. QED  BY <2>1, <2>2, <2>3
<1>7. \A i, j \in 1 .. n + 1 :
         i < j /\ order'[i].task = order'[j].task => order'[i].depth < order'[j].depth
  <2>. SUFFICES ASSUME NEW i \in 1 .. n + 1, NEW j \in 1 .. n + 1, i < j,
                       order'[i].task = order'[j].task
                PROVE  order'[i].depth < order'[j].depth
    OBVIOUS
  <2>1. i \in 1 .. n
    BY StackTypes
  <2>2. CASE j \in 1 .. n
    BY <1>2, <2>1, <2>2 DEF Stack
  <2>3. CASE j = n + 1
    <3>1. /\ order'[j].task = t /\ order'[j].depth = d /\ order'[i] = order[i]
          /\ order[i].task \in Tasks /\ order[i].depth \in Nat
      BY <1>2, <2>1, <2>3, StackTypes
    <3>2. order[i].depth \in 1 .. Len(blocks[t]) /\ Len(blocks[t]) \in Nat
      BY <2>1, <3>1, StackTypes DEF Stack
    <3>. QED  BY <3>1, <3>2
  <2>4. j \in 1 .. n \/ j = n + 1
    BY StackTypes
  <2>. QED  BY <2>2, <2>3, <2>4
<1>8. \A u \in Tasks : \A k \in 1 .. Len(blocks'[u]) :
         \E i \in 1 .. n + 1 : order'[i].task = u /\ order'[i].depth = k
  <2>. SUFFICES ASSUME NEW u \in Tasks, NEW k \in 1 .. Len(blocks'[u])
                PROVE  \E i \in 1 .. n + 1 : order'[i].task = u /\ order'[i].depth = k
    OBVIOUS
  <2>1. CASE u = t /\ k = d
    BY <1>2, <2>1, StackTypes
  <2>2. CASE ~ (u = t /\ k = d)
    <3>1. k \in 1 .. Len(blocks[u])
      BY <1>3, <2>2, StackTypes
    <3>2. PICK i \in 1 .. n : order[i].task = u /\ order[i].depth = k
      BY <3>1 DEF Stack
    <3>. QED  BY <1>2, <3>2, StackTypes
  <2>. QED  BY <2>1, <2>2
<1>. QED  BY <1>2, <1>4, <1>5, <1>6, <1>7, <1>8 DEF Stack

LEMMA TopOfStack ==
  ASSUME OwningInv, Stack, ~ crossed, NEW t \in Tasks, LatestOf(t), blocks[t] # <<>>
  PROVE  /\ Len(order) \in Nat \ {0}
         /\ order[Len(order)].task = t /\ order[Len(order)].depth = Len(blocks[t])
         /\ BlockAt(Len(order)) = Last(blocks[t])
<1>1. order # <<>> /\ order \in Seq(E!Began) /\ Last(order).task = t
  BY StackTypes DEF LatestOf
<1>2. Len(order) \in Nat \ {0} /\ Last(order) = order[Len(order)]
  BY <1>1, LastAndFront
<1>3. Len(blocks[t]) \in Nat \ {0}
  BY StackTypes
<1>4. PICK i \in 1 .. Len(order) : order[i].task = t /\ order[i].depth = Len(blocks[t])
  BY <1>3 DEF Stack
<1>5. i = Len(order)
  <2>1. PICK n : n = Len(order)
    OBVIOUS
  <2>2. n \in 1 .. n /\ i \in 1 .. n /\ order[n].task = t
    BY <1>1, <1>2, <2>1
  <2>3. order[n].depth \in 1 .. Len(blocks[t])
    BY <2>1, <2>2 DEF Stack
  <2>4. i < n => order[i].depth < order[n].depth
    BY <1>4, <2>1, <2>2 DEF Stack
  <2>. QED  BY <1>3, <1>4, <2>1, <2>2, <2>3, <2>4
<1>6. Last(blocks[t]) = blocks[t][Len(blocks[t])]
  BY DEF Last
<1>. QED  BY <1>1, <1>2, <1>4, <1>5, <1>6 DEF BlockAt

LEMMA LeaveFromTop ==
  ASSUME OwningInv, Stack, NEW t \in Tasks, E!Leave(t), ~ crossed'
  PROVE  /\ ~ crossed /\ E!Entering = {} /\ blocks[t] # <<>>
         /\ Len(order) \in Nat \ {0} /\ Len(order') = Len(order) - 1
         /\ BlockAt(Len(order)) = Last(blocks[t])
         /\ \A i \in 1 .. Len(order') : order'[i] = order[i] /\ BlockAt(i)' = BlockAt(i)
         /\ Stack'
<1>. DEFINE n == Len(order)
            d == Len(blocks[t])
<1>1. /\ ~ crossed /\ E!Entering = {} /\ LatestOf(t) /\ blocks[t] # <<>>
      /\ blocks' = [blocks EXCEPT ![t] = Front(blocks[t])]
      /\ order' = Front(order)
  BY LeaveIs
<1>2. /\ n \in Nat \ {0} /\ order[n].task = t /\ order[n].depth = d
      /\ BlockAt(n) = Last(blocks[t])
  BY <1>1, TopOfStack
<1>3. /\ Len(order') = n - 1 /\ \A i \in 1 .. n - 1 : order'[i] = order[i]
  BY <1>1, LastAndFront, StackTypes DEF LatestOf
<1>4. /\ d \in Nat \ {0} /\ Len(Front(blocks[t])) = d - 1
      /\ \A k \in 1 .. d - 1 : Front(blocks[t])[k] = blocks[t][k]
  BY <1>1, LastAndFront, StackTypes
<1>5. /\ Len(blocks'[t]) = d - 1
      /\ \A k \in 1 .. d - 1 : blocks'[t][k] = blocks[t][k]
      /\ \A u \in Tasks \ {t} : blocks'[u] = blocks[u]
  BY <1>1, <1>4, StackTypes
<1>6. \A i \in 1 .. n - 1 :
         order[i].depth \in 1 .. Len(blocks[order[i].task])
         /\ (order[i].task = t => order[i].depth \in 1 .. d - 1)
  <2>. SUFFICES ASSUME NEW i \in 1 .. n - 1
                PROVE  /\ order[i].depth \in 1 .. Len(blocks[order[i].task])
                       /\ order[i].task = t => order[i].depth \in 1 .. d - 1
    OBVIOUS
  <2>1. i \in 1 .. n /\ n \in 1 .. n /\ i < n
    BY <1>2
  <2>2. order[i].depth \in 1 .. Len(blocks[order[i].task])
    BY <1>1, <2>1 DEF Stack
  <2>8. \A j, k \in 1 .. n :
          j < k /\ order[j].task = order[k].task => order[j].depth < order[k].depth
    BY <1>1 DEF Stack
  <2>3. order[i].task = t => order[i].depth < d
    BY <1>2, <2>1, <2>8
  <2>4. d \in Nat
    BY <1>4
  <2>5. order[i].depth \in Nat
    BY <2>1, StackTypes
  <2>6. order[i].depth >= 1
    BY <2>2, <2>5
  <2>7. order[i].depth < d => order[i].depth \in 1 .. d - 1
    BY <2>4, <2>5, <2>6
  <2>. QED  BY <2>2, <2>3, <2>7
<1>7. \A i \in 1 .. n - 1 : BlockAt(i)' = BlockAt(i)
  <2>. SUFFICES ASSUME NEW i \in 1 .. n - 1 PROVE BlockAt(i)' = BlockAt(i)
    OBVIOUS
  <2>1. order[i].task \in Tasks
    BY <1>2, StackTypes
  <2>. QED  BY <1>3, <1>5, <1>6, <2>1, ZenonT(40) DEF BlockAt
<1>8. \A i \in 1 .. n - 1 : order'[i].depth \in 1 .. Len(blocks'[order'[i].task])
  <2>. SUFFICES ASSUME NEW i \in 1 .. n - 1
                PROVE  order'[i].depth \in 1 .. Len(blocks'[order'[i].task])
    OBVIOUS
  <2>1. order[i].task \in Tasks
    BY <1>2, StackTypes
  <2>. QED  BY <1>3, <1>5, <1>6, <2>1
<1>9. \A i, j \in 1 .. n - 1 :
         i < j /\ order'[i].task = order'[j].task => order'[i].depth < order'[j].depth
  <2>1. \A i \in 1 .. n - 1 : i \in 1 .. n
    BY <1>2
  <2>. QED  BY <1>1, <1>3, <2>1 DEF Stack
<1>10. \A u \in Tasks : \A k \in 1 .. Len(blocks'[u]) :
          \E i \in 1 .. n - 1 : order'[i].task = u /\ order'[i].depth = k
  <2>. SUFFICES ASSUME NEW u \in Tasks, NEW k \in 1 .. Len(blocks'[u])
                PROVE  \E i \in 1 .. n - 1 : order'[i].task = u /\ order'[i].depth = k
    OBVIOUS
  <2>1. k \in 1 .. Len(blocks[u]) /\ (u = t => k # d)
    BY <1>4, <1>5
  <2>2. PICK i \in 1 .. n : order[i].task = u /\ order[i].depth = k
    BY <1>1, <2>1 DEF Stack
  <2>3. i # n
    BY <1>2, <2>1, <2>2
  <2>. QED  BY <1>2, <1>3, <2>2, <2>3
<1>. QED  BY <1>1, <1>2, <1>3, <1>7, <1>8, <1>9, <1>10 DEF Stack

-----------------------------------------------------------------------------
(* Which pools are live, and who still has to shut one down.               *)

\* Not shut down, and nobody is about to.
Usable(p) == p = None \/ (p \in live /\ \A t \in Tasks : victim[t] # p)

\* The pool in force, and each pool a block puts back or pins, can be used.
InUse == ~ crossed /\ ~ exited =>
    /\ Usable(default)
    /\ \A i \in 1 .. Len(order) : Usable(BlockAt(i).saved)
    /\ \A t \in Tasks : pc[t] = "entering" => Usable(Last(blocks[t]).chosen)

\* No entry is under way; at most one is, and nothing changed around it.
Quiet == \A t \in Tasks : pc[t] # "entering"
Calm == ~ crossed /\ \A t, u \in Tasks : pc[t] = "entering" /\ pc[u] = "entering" => t = u

\* A block shuts down or puts in charge no pool an older one puts back.
Apart == Calm =>
    /\ \A i, j \in 1 .. Len(order) :
          /\ i <= j /\ BlockAt(j).ours => BlockAt(j).chosen # BlockAt(i).saved
          /\ i < j /\ BlockAt(j).owner # None => BlockAt(j).owner # BlockAt(i).saved
    /\ Quiet => \A i \in 1 .. Len(order) : owned # None => owned # BlockAt(i).saved
    /\ \A t \in Tasks : pc[t] = "entering" =>
          /\ order # <<>> /\ BlockAt(Len(order)) = Last(blocks[t])
          /\ Last(blocks[t]).saved = default /\ Last(blocks[t]).owner = owned

\* The block keeps the pool; the pool in charge is the block's own or none.
Held(b, p) == b.owner = p \/ (b.ours /\ b.chosen = p)
Passed(o, b) == o = None \/ (b.ours /\ o = b.chosen)

\* Who answers for each live pool that was built here.
Accounts == Calm /\ ~ replaced =>
    /\ \A p \in live \ Theirs :
          \/ p \in adopted \/ p = owned
          \/ \E t \in Tasks : victim[t] = p
          \/ \E i \in 1 .. Len(order) : Held(BlockAt(i), p)
    /\ Quiet => \A i \in 1 .. Len(order) : i = Len(order) => Passed(owned, BlockAt(i))
    /\ \A i, j \in 1 .. Len(order) :
          j = i + 1 => Passed(BlockAt(j).owner, BlockAt(i))

PoolInv == OwningInv /\ Stack /\ InUse /\ Apart /\ Accounts

LEMMA QuietIs == E!Entering = {} <=> Quiet
  BY DEF E!Entering, Quiet

LEMMA EmptyStack ==
  ASSUME OwningInv, Stack, ~ crossed, E!Open = {}
  PROVE  Len(order) = 0
<1>1. \A i \in 1 .. Len(order) : order[i].depth \in 1 .. Len(blocks[order[i].task])
  BY DEF Stack
<1>2. \A t \in Tasks : Len(blocks[t]) = 0
  BY DEF E!Open
<1>. QED  BY <1>1, <1>2, StackTypes

LEMMA SameStack ==
  ASSUME Stack, UNCHANGED <<blocks, order>>, crossed => crossed'
  PROVE  Stack'
  BY DEF Stack

LEMMA SetKeeps ==
  ASSUME PoolInv, NEW t \in Tasks, E!SetExecutor(t)
  PROVE  Stack' /\ InUse' /\ Apart' /\ Accounts'
<1>. USE DEF PoolInv
<1>1. PICK pool \in Theirs \cup {default, None} :
        /\ default' = pool /\ owned' = None
        /\ victim' = [victim EXCEPT ![t] = IF owned = pool THEN None ELSE owned]
        /\ \A u \in Tasks \ {t} : pc'[u] = pc[u]
        /\ pc[t] = "running" /\ pc'[t] # "entering"
        /\ adopted' = adopted \cup ({pool} \ {None})
        /\ crossed' = (crossed \/ ~ Quiet)
        /\ UNCHANGED <<pools, live, blocks, exited, order, replaced>> /\ ~ exited
  BY QuietIs
  DEF E!SetExecutor, E!Calls, E!Running, E!Given, E!ShutsDown, E!Goto, OwningInv, E!TypeOK
<1>2. \A i : BlockAt(i)' = BlockAt(i)
  BY <1>1 DEF BlockAt
<1>3. Stack'
  BY <1>1, SameStack
<1>. SUFFICES ASSUME ~ crossed' PROVE InUse' /\ Apart' /\ Accounts'
  BY <1>3 DEF InUse, Apart, Accounts, Calm
<1>4. ~ crossed /\ Quiet /\ Quiet' /\ Calm /\ victim[t] = None
  BY <1>1 DEF Quiet, Calm, OwningInv, Owning
<1>5. InUse'
  <2>1. \A p : Usable(p) /\ (p # owned \/ owned = pool \/ owned = None) => Usable(p)'
    BY <1>1, <1>4 DEF Usable, OwningInv, E!TypeOK
  <2>2. Usable(pool)
    BY <1>1, <1>4, OursIsOurs DEF InUse, Usable, OwningInv, Owning
  <2>3. Usable(pool)'
    BY <2>1, <2>2
  <2>4. \A i \in 1 .. Len(order) : Usable(BlockAt(i).saved)'
    BY <1>1, <1>2, <1>4, <2>1 DEF InUse, Apart
  <2>. QED  BY <1>1, <1>2, <1>4, <2>3, <2>4 DEF InUse, Quiet
<1>6. Apart'
  BY <1>1, <1>2, <1>4 DEF Apart, Quiet
<1>7. Accounts'
  <2>1. ASSUME NEW p \in live, p \notin Theirs, ~ replaced
        PROVE  \/ p \in adopted' \/ \E u \in Tasks : victim'[u] = p
               \/ \E i \in 1 .. Len(order) : Held(BlockAt(i), p)
    BY <1>1, <1>4, <2>1 DEF Accounts, OwningInv, Owning, E!TypeOK, Known
  <2>. QED  BY <1>1, <1>2, <1>4, <2>1 DEF Accounts, Held, Passed
<1>. QED  BY <1>5, <1>6, <1>7

LEMMA ConfigureKeeps ==
  ASSUME PoolInv, NEW t \in Tasks, E!ConfigureExecutor(t)
  PROVE  Stack' /\ InUse' /\ Apart' /\ Accounts'
<1>. USE DEF PoolInv
<1>1. /\ pools' = pools + 1 /\ default' = pools + 1 /\ owned' = pools + 1
      /\ pools + 1 \in 1 .. MaxPools
      /\ live' = live \cup {pools + 1}
      /\ victim' = [victim EXCEPT ![t] = owned]
      /\ \A u \in Tasks \ {t} : pc'[u] = pc[u]
      /\ pc[t] = "running" /\ pc'[t] # "entering"
      /\ crossed' = (crossed \/ ~ Quiet)
      /\ replaced' = (replaced \/ E!Open # {})
      /\ UNCHANGED <<blocks, exited, order, adopted>> /\ ~ exited
  BY QuietIs
  DEF E!ConfigureExecutor, E!Calls, E!Running, E!ShutsDown, E!Goto, OwningInv, E!TypeOK
<1>2. \A i : BlockAt(i)' = BlockAt(i)
  BY <1>1 DEF BlockAt
<1>3. Stack'
  BY <1>1, SameStack
<1>. SUFFICES ASSUME ~ crossed' PROVE InUse' /\ Apart' /\ Accounts'
  BY <1>3 DEF InUse, Apart, Accounts, Calm
<1>4. ~ crossed /\ Quiet /\ Quiet' /\ Calm /\ victim[t] = None
  BY <1>1 DEF Quiet, Calm, OwningInv, Owning
<1>8. pools + 1 \notin Known /\ pools + 1 \notin Own
  BY <1>1, OursIsOurs DEF Known, Own
<1>9. \A i \in 1 .. Len(order) : BlockAt(i).saved \in Known \cup {None}
  BY <1>4, StackTypes DEF BlockAt, Stack, OwningInv, Owning, Sound
<1>5. InUse'
  <2>1. \A p : Usable(p) /\ (p # owned \/ owned = None) => Usable(p)'
    BY <1>1, <1>4 DEF Usable, OwningInv, E!TypeOK
  <2>2. Usable(default)'
    BY <1>1, <1>8 DEF Usable, OwningInv, Owning, E!TypeOK
  <2>4. \A i \in 1 .. Len(order) : Usable(BlockAt(i).saved)'
    BY <1>1, <1>2, <1>4, <2>1 DEF InUse, Apart
  <2>. QED  BY <1>1, <1>2, <1>4, <2>2, <2>4 DEF InUse, Quiet
<1>6. Apart'
  BY <1>1, <1>2, <1>4, <1>8, <1>9 DEF Apart, Quiet
<1>7. Accounts'
  <2>. SUFFICES ASSUME ~ replaced' PROVE Accounts'
    BY DEF Accounts
  <2>1. Len(order) = 0 /\ ~ replaced
    BY <1>1, <1>4, EmptyStack
  <2>2. ASSUME NEW p \in live, p \notin Theirs
        PROVE  p \in adopted \/ \E u \in Tasks : victim'[u] = p
    <3>1. p # None
      BY <2>2, OursIsOurs DEF OwningInv, Owning
    <3>2. p = owned \/ p \in adopted \/ \E u \in Tasks : victim[u] = p
      BY <1>4, <2>1, <2>2 DEF Accounts
    <3>3. victim \in [Tasks -> E!PoolsOrNone]
      BY DEF OwningInv, E!TypeOK
    <3>. QED  BY <1>1, <1>4, <3>1, <3>2, <3>3
  <2>. QED  BY <1>1, <1>2, <1>4, <2>1, <2>2 DEF Accounts
<1>. QED  BY <1>5, <1>6, <1>7

LEMMA SoundAt ==
  ASSUME OwningInv, Stack, ~ crossed, NEW i \in 1 .. Len(order)
  PROVE  Sound(BlockAt(i)) /\ BlockAt(i) \in E!Block
<1>1. order[i].task \in Tasks /\ order[i].depth \in 1 .. Len(blocks[order[i].task])
  BY StackTypes DEF Stack
<1>. QED  BY <1>1, StackTypes DEF BlockAt, OwningInv, Owning

LEMMA EnterKeeps ==
  ASSUME PoolInv, NEW t \in Tasks, E!Enter(t)
  PROVE  Stack' /\ InUse' /\ Apart' /\ Accounts'
<1>. USE DEF PoolInv
<1>1. PICK b : EnterIs(t, b) /\ b.ours \in BOOLEAN
  BY EnterGives
<1>2. CASE crossed
  BY <1>1, <1>2 DEF EnterIs, Stack, InUse, Apart, Accounts, Calm
<1>. SUFFICES ASSUME ~ crossed PROVE Stack' /\ InUse' /\ Apart' /\ Accounts'
  BY <1>2
<1>. DEFINE n == Len(order)
<1>3. /\ Len(order') = n + 1
      /\ \A i \in 1 .. n : BlockAt(i)' = BlockAt(i)
      /\ \A i \in Nat : i = n + 1 => BlockAt(i)' = b
      /\ Stack' /\ n \in Nat
  BY <1>1, EnterOnTop, StackTypes
<1>4. /\ ~ crossed' /\ ~ exited /\ ~ exited'
      /\ UNCHANGED <<default, owned, victim, replaced, adopted>>
      /\ b.saved = default /\ b.owner = owned
      /\ pc[t] = "running" /\ pc'[t] = "entering"
      /\ \A u \in Tasks \ {t} : pc'[u] = pc[u] /\ blocks'[u] = blocks[u]
      /\ blocks'[t] = Append(blocks[t], b) /\ order' # <<>>
  <2>1. /\ ~ crossed' /\ ~ exited /\ ~ exited'
        /\ UNCHANGED <<default, owned, victim, replaced, adopted>>
        /\ pc[t] = "running" /\ pc' = [pc EXCEPT ![t] = "entering"]
        /\ blocks' = [blocks EXCEPT ![t] = Append(blocks[t], b)]
    BY <1>1 DEF EnterIs
  <2>2. b.saved = default /\ b.owner = owned
    <3>. DEFINE r == [saved |-> default, owner |-> owned, ours |-> b.ours, chosen |-> b.chosen]
    <3>1. b = r /\ r.saved = default /\ r.owner = owned
      BY <1>1 DEF EnterIs
    <3>. QED  BY <3>1
  <2>3. pc \in [Tasks -> {"running", "entering", "shutting"}]
    BY DEF OwningInv, E!TypeOK
  <2>4. order' # <<>>
    BY <1>3
  <2>. QED  BY <2>1, <2>2, <2>3, <2>4, StackTypes
<1>5. Last(blocks'[t]) = b
  BY <1>4, StackTypes DEF Last
<1>6. Calm' => Quiet /\ Calm
  BY <1>4 DEF Calm, Quiet
<1>7. \A p : Usable(p) => Usable(p)'
  BY <1>1, <1>4 DEF Usable, EnterIs
<1>8. b.ours => /\ b.chosen = pools + 1 /\ b.chosen \notin Known /\ b.chosen # None
                /\ \A u \in Tasks : victim[u] # b.chosen
  <2>. SUFFICES ASSUME b.ours
                PROVE  /\ b.chosen = pools + 1 /\ b.chosen \notin Known /\ b.chosen # None
                       /\ \A u \in Tasks : victim[u] # b.chosen
    OBVIOUS
  <2>1. b.chosen = pools + 1 /\ pools' = pools + 1
    BY <1>1 DEF EnterIs
  <2>2. pools' \in 0 .. MaxPools
    BY TypeStep DEF E!Next, E!TypeOK
  <2>3. pools + 1 \in 1 .. MaxPools
    BY <2>1, <2>2, OursIsOurs
  <2>4. \A u \in Tasks : victim[u] \in Own
    BY DEF OwningInv, Owning
  <2>. QED  BY <2>1, <2>3, <2>4, OursIsOurs DEF Own
<1>9. InUse'
  <2>1. Usable(b.chosen)'
    <3>1. CASE b.ours
      BY <1>1, <1>4, <1>8, <3>1 DEF Usable, EnterIs
    <3>2. CASE ~ b.ours
      <4>1. b.chosen \in Theirs \/ b.chosen = default
        BY <1>1, <3>2 DEF EnterIs
      <4>2. \A p \in Theirs : Usable(p)
        BY OursIsOurs DEF Usable, OwningInv, Owning
      <4>. QED  BY <1>4, <1>7, <4>1, <4>2 DEF InUse
    <3>. QED  BY <3>1, <3>2
  <2>2. \A i \in 1 .. n + 1 : Usable(BlockAt(i).saved)'
    <3>1. \A i \in 1 .. n : Usable(BlockAt(i).saved)'
      BY <1>3, <1>4, <1>7 DEF InUse
    <3>2. \A i \in Nat : i = n + 1 => Usable(BlockAt(i).saved)'
      BY <1>3, <1>4, <1>7 DEF InUse
    <3>. QED  BY <1>3, <3>1, <3>2
  <2>3. \A u \in Tasks : pc'[u] = "entering" => Usable(Last(blocks[u]).chosen)'
    BY <1>4, <1>5, <1>7, <2>1 DEF InUse
  <2>. QED  BY <1>3, <1>4, <1>7, <2>2, <2>3 DEF InUse
<1>10. ASSUME Calm' PROVE Apart'
  <2>1. \A i, j \in 1 .. n + 1 :
          /\ i <= j /\ BlockAt(j)'.ours => BlockAt(j)'.chosen # BlockAt(i)'.saved
          /\ i < j /\ BlockAt(j)'.owner # None => BlockAt(j)'.owner # BlockAt(i)'.saved
    <3>. SUFFICES ASSUME NEW i \in 1 .. n + 1, NEW j \in 1 .. n + 1
         PROVE  /\ i <= j /\ BlockAt(j)'.ours => BlockAt(j)'.chosen # BlockAt(i)'.saved
                /\ i < j /\ BlockAt(j)'.owner # None => BlockAt(j)'.owner # BlockAt(i)'.saved
      OBVIOUS
    <3>1. CASE i \in 1 .. n /\ j \in 1 .. n
      BY <1>3, <1>6, <1>10, <3>1 DEF Apart
    <3>2. CASE i \in 1 .. n /\ j = n + 1
      <4>1. BlockAt(i)' = BlockAt(i) /\ BlockAt(j)' = b
        BY <1>3, <3>2
      <4>2. BlockAt(i).saved \in Known \cup {None}
        BY <3>2, SoundAt DEF Sound
      <4>3. owned # None => owned # BlockAt(i).saved
        BY <1>6, <1>10, <3>2 DEF Apart
      <4>. QED  BY <1>4, <1>8, <4>1, <4>2, <4>3
    <3>3. CASE i = n + 1 /\ j = n + 1
      <4>1. BlockAt(i)' = b /\ BlockAt(j)' = b /\ ~ (i < j)
        BY <1>3, <3>3
      <4>2. default \in Known \cup {None}
        BY DEF OwningInv, Owning
      <4>. QED  BY <1>4, <1>8, <4>1, <4>2
    <3>4. CASE i = n + 1 /\ j \in 1 .. n
      BY <1>3, <3>4
    <3>. QED  BY <1>3, <3>1, <3>2, <3>3, <3>4
  <2>2. ~ Quiet'
    BY <1>4 DEF Quiet
  <2>3. \A u \in Tasks : pc'[u] = "entering" => u = t
    BY <1>4, <1>6, <1>10 DEF Quiet
  <2>4. BlockAt(Len(order))' = b
    <3>1. \A i \in Nat : i = Len(order') => BlockAt(i)' = b
      BY <1>3
    <3>2. Len(order') \in Nat
      BY <1>3
    <3>. QED  BY <3>1, <3>2 DEF BlockAt
  <2>. QED  BY <1>3, <1>4, <1>5, <2>1, <2>2, <2>3, <2>4 DEF Apart
<1>11. ASSUME Calm', ~ replaced PROVE Accounts'
  <2>1. ASSUME NEW p \in live', p \notin Theirs
        PROVE  \/ p \in adopted \/ p = owned
               \/ \E u \in Tasks : victim[u] = p
               \/ \E i \in 1 .. n + 1 : Held(BlockAt(i)', p)
    <3>1. CASE p \in live
      <4>1. \/ p \in adopted \/ p = owned
            \/ \E u \in Tasks : victim[u] = p
            \/ \E i \in 1 .. n : Held(BlockAt(i), p)
        BY <1>6, <1>11, <2>1, <3>1 DEF Accounts
      <4>2. \A i \in 1 .. n : i \in 1 .. n + 1 /\ BlockAt(i)' = BlockAt(i)
        BY <1>3
      <4>. QED  BY <4>1, <4>2
    <3>2. CASE p \notin live
      <4>1. b.ours /\ p = b.chosen
        BY <1>1, <2>1, <3>2 DEF EnterIs
      <4>2. n + 1 \in 1 .. n + 1 /\ n + 1 \in Nat
        BY <1>3
      <4>3. \E i \in 1 .. n + 1 : BlockAt(i)' = b
        BY <1>3, <4>2
      <4>. QED  BY <4>1, <4>3 DEF Held
    <3>. QED  BY <3>1, <3>2
  <2>2. ~ Quiet'
    BY <1>4 DEF Quiet
  <2>3. \A i, j \in 1 .. n + 1 : j = i + 1 => Passed(BlockAt(j)'.owner, BlockAt(i)')
    <3>. SUFFICES ASSUME NEW i \in 1 .. n + 1, NEW j \in 1 .. n + 1, j = i + 1
                  PROVE  Passed(BlockAt(j)'.owner, BlockAt(i)')
      OBVIOUS
    <3>1. i \in 1 .. n /\ BlockAt(i)' = BlockAt(i)
      BY <1>3
    <3>2. CASE j \in 1 .. n
      BY <1>3, <1>6, <1>11, <3>1, <3>2 DEF Accounts
    <3>3. CASE j = n + 1
      <4>1. BlockAt(j)' = b /\ i = n
        BY <1>3, <3>3
      <4>2. Passed(owned, BlockAt(i))
        BY <1>6, <1>11, <3>1, <4>1 DEF Accounts
      <4>. QED  BY <1>4, <3>1, <4>1, <4>2
    <3>. QED  BY <1>3, <3>2, <3>3
  <2>. QED  BY <1>3, <1>4, <2>1, <2>2, <2>3 DEF Accounts, Held, Passed
<1>. QED  BY <1>3, <1>4, <1>9, <1>10, <1>11 DEF Apart, Accounts

LEMMA PinKeeps ==
  ASSUME PoolInv, NEW t \in Tasks, E!Pin(t)
  PROVE  Stack' /\ InUse' /\ Apart' /\ Accounts'
<1>. USE DEF PoolInv
<1>. DEFINE b == Last(blocks[t])
            n == Len(order)
<1>1. /\ pc[t] = "entering" /\ pc'[t] = "running"
      /\ \A u \in Tasks \ {t} : pc'[u] = pc[u]
      /\ default' = b.chosen /\ owned' = IF b.ours THEN b.chosen ELSE None
      /\ crossed' = (crossed \/ E!Entering # {t})
      /\ UNCHANGED <<pools, live, blocks, victim, exited, order, replaced, adopted>>
  BY PinIs DEF OwningInv, E!TypeOK
<1>2. \A i : BlockAt(i)' = BlockAt(i)
  BY <1>1 DEF BlockAt
<1>3. Stack'
  BY <1>1, SameStack
<1>. SUFFICES ASSUME ~ crossed' PROVE InUse' /\ Apart' /\ Accounts'
  BY <1>3 DEF InUse, Apart, Accounts, Calm
<1>4. ~ crossed /\ E!Entering = {t} /\ Calm /\ Quiet'
  <2>1. ~ crossed /\ E!Entering = {t}
    BY <1>1
  <2>2. \A u \in Tasks : pc[u] = "entering" => u = t
    BY <2>1 DEF E!Entering
  <2>. QED  BY <1>1, <2>1, <2>2 DEF Quiet, Calm
<1>5. /\ n \in Nat \ {0} /\ BlockAt(n) = b /\ b.saved = default /\ b.owner = owned
      /\ n \in 1 .. n
  BY <1>1, <1>4, StackTypes DEF Apart
<1>. HIDE DEF b
<1>6. InUse'
  <2>1. \A p : Usable(p)' = Usable(p)
    BY <1>1 DEF Usable
  <2>. QED  BY <1>1, <1>2, <1>4, <2>1 DEF InUse, Quiet, b
<1>7. Apart'
  BY <1>1, <1>2, <1>4, <1>5 DEF Apart, Quiet
<1>8. Accounts'
  <2>. SUFFICES ASSUME ~ replaced PROVE Accounts'
    BY <1>1 DEF Accounts
  <2>1. ASSUME NEW p \in live, p \notin Theirs
        PROVE  \/ p \in adopted
               \/ \E u \in Tasks : victim[u] = p
               \/ \E i \in 1 .. n : Held(BlockAt(i), p)
    BY <1>4, <1>5, <2>1 DEF Accounts, Held
  <2>2. \A i \in 1 .. n : i = n => Passed(owned', BlockAt(i))
    BY <1>1, <1>5 DEF Passed
  <2>. QED  BY <1>1, <1>2, <1>4, <2>1, <2>2 DEF Accounts, Passed, Held
<1>. QED  BY <1>6, <1>7, <1>8

LEMMA LeaveKeepsPools ==
  ASSUME PoolInv, NEW t \in Tasks, E!Leave(t)
  PROVE  Stack' /\ InUse' /\ Apart' /\ Accounts'
<1>. USE DEF PoolInv
<1>1. CASE crossed'
  BY <1>1 DEF Stack, InUse, Apart, Accounts, Calm
<1>. SUFFICES ASSUME ~ crossed' PROVE Stack' /\ InUse' /\ Apart' /\ Accounts'
  BY <1>1
<1>. DEFINE n == Len(order)
            b == Last(blocks[t])
            pool == IF b.ours THEN b.chosen ELSE None
<1>2. /\ ~ crossed /\ E!Entering = {} /\ blocks[t] # <<>>
      /\ n \in Nat \ {0} /\ Len(order') = n - 1
      /\ BlockAt(n) = b
      /\ \A i \in 1 .. Len(order') : BlockAt(i)' = BlockAt(i)
      /\ Stack'
  BY LeaveFromTop
<1>3. /\ default' = b.saved /\ owned' = b.owner
      /\ victim' = [victim EXCEPT ![t] = pool]
      /\ pc[t] = "running" /\ pc' = [pc EXCEPT ![t] = IF pool = None THEN "running" ELSE "shutting"]
      /\ UNCHANGED <<pools, live, exited, replaced, adopted>>
  BY LeaveIs DEF E!ShutsDown, E!Goto
<1>4. /\ victim \in [Tasks -> E!PoolsOrNone] /\ pc \in [Tasks -> {"running", "entering", "shutting"}]
      /\ victim[t] = None /\ Quiet /\ Calm
  BY <1>2, <1>3, QuietIs DEF OwningInv, Owning, E!TypeOK, Calm, Quiet
<1>5. Quiet'
  BY <1>3, <1>4 DEF Quiet
<1>6. n \in 1 .. n /\ 1 .. Len(order') = 1 .. n - 1 /\ \A i \in 1 .. n - 1 : i \in 1 .. n /\ i < n
  BY <1>2
<1>7. b.ours \in BOOLEAN
  BY <1>2, <1>6, SoundAt DEF E!Block
<1>. HIDE DEF b
<1>8. InUse'
  <2>1. \A p : Usable(p) /\ (p # pool \/ pool = None) => Usable(p)'
    BY <1>3, <1>4 DEF Usable
  <2>2. ASSUME ~ exited, NEW i \in 1 .. n, NEW p, p = BlockAt(i).saved
        PROVE  Usable(p)'
    <3>1. Usable(p)
      BY <1>2, <2>2 DEF InUse
    <3>2. i <= n
      BY <1>2, <2>2
    <3>3. b.ours => b.chosen # BlockAt(i).saved
      BY <1>2, <1>4, <1>6, <2>2, <3>2 DEF Apart
    <3>. QED  BY <2>1, <2>2, <3>1, <3>3
  <2>3. ~ exited => Usable(default)'
    <3>1. ASSUME ~ exited, NEW p, p = BlockAt(n).saved PROVE Usable(p)'
      BY <1>6, <2>2, <3>1
    <3>2. default' = BlockAt(n).saved
      BY <1>2, <1>3
    <3>. QED  BY <3>1, <3>2 DEF Usable
  <2>4. \A i \in 1 .. Len(order') : ~ exited => Usable(BlockAt(i).saved)'
    <3>. SUFFICES ASSUME NEW i \in 1 .. n - 1, ~ exited PROVE Usable(BlockAt(i).saved)'
      BY <1>6
    <3>1. BlockAt(i)' = BlockAt(i) /\ i \in 1 .. n
      BY <1>2, <1>6
    <3>2. ASSUME NEW p, p = BlockAt(i).saved PROVE Usable(p)'
      BY <2>2, <3>1, <3>2
    <3>. QED  BY <3>1, <3>2 DEF Usable
  <2>. QED  BY <1>3, <1>5, <2>3, <2>4 DEF InUse, Quiet
<1>9. Apart'
  <2>1. \A i, j \in 1 .. n - 1 :
          /\ i <= j /\ BlockAt(j)'.ours => BlockAt(j)'.chosen # BlockAt(i)'.saved
          /\ i < j /\ BlockAt(j)'.owner # None => BlockAt(j)'.owner # BlockAt(i)'.saved
    BY <1>2, <1>4, <1>6 DEF Apart
  <2>2. \A i \in 1 .. n - 1 : owned' # None => owned' # BlockAt(i)'.saved
    BY <1>2, <1>3, <1>4, <1>6 DEF Apart
  <2>. QED  BY <1>2, <1>5, <1>6, <2>1, <2>2 DEF Apart, Quiet
<1>10. Accounts'
  <2>. SUFFICES ASSUME ~ replaced PROVE Accounts'
    BY <1>3 DEF Accounts
  <2>1. ASSUME NEW p \in live, p \notin Theirs
        PROVE  \/ p \in adopted \/ p = owned'
               \/ \E u \in Tasks : victim'[u] = p
               \/ \E i \in 1 .. n - 1 : Held(BlockAt(i)', p)
    <3>0. p # None
      BY <2>1, OursIsOurs DEF OwningInv, Owning
    <3>1. \/ p \in adopted \/ p = owned
          \/ \E u \in Tasks : victim[u] = p
          \/ \E i \in 1 .. n : Held(BlockAt(i), p)
      BY <1>4, <2>1 DEF Accounts
    <3>2. Passed(owned, b)
      BY <1>2, <1>4, <1>6 DEF Accounts
    <3>3. Held(b, p) => p = owned' \/ victim'[t] = p
      BY <1>3, <1>4 DEF Held
    <3>4. p = owned => Held(b, p)
      BY <3>0, <3>2 DEF Passed, Held
    <3>5. ASSUME NEW u \in Tasks, victim[u] = p PROVE victim'[u] = p
      BY <1>3, <1>4, <3>0, <3>5
    <3>6. ASSUME NEW i \in 1 .. n, Held(BlockAt(i), p)
          PROVE  Held(b, p) \/ \E j \in 1 .. n - 1 : Held(BlockAt(j)', p)
      <4>1. CASE i = n
        BY <1>2, <3>6, <4>1
      <4>2. CASE i # n
        <5>1. i \in 1 .. n - 1
          BY <1>2, <4>2
        <5>2. BlockAt(i)' = BlockAt(i)
          BY <1>2, <1>6, <5>1
        <5>. QED  BY <3>6, <5>1, <5>2
      <4>. QED  BY <4>1, <4>2
    <3>. QED  BY <3>1, <3>3, <3>4, <3>5, <3>6
  <2>2. \A i \in 1 .. n - 1 : i = n - 1 => Passed(owned', BlockAt(i)')
    <3>. SUFFICES ASSUME NEW i \in 1 .. n - 1, i = n - 1
                  PROVE  Passed(owned', BlockAt(i)')
      OBVIOUS
    <3>1. n = i + 1 /\ i \in 1 .. n /\ n \in 1 .. n
      BY <1>2
    <3>2. Passed(BlockAt(n).owner, BlockAt(i))
      BY <1>4, <3>1 DEF Accounts
    <3>3. BlockAt(i)' = BlockAt(i)
      BY <1>2, <1>6
    <3>. QED  BY <1>2, <1>3, <3>2, <3>3
  <2>3. \A i, j \in 1 .. n - 1 : j = i + 1 => Passed(BlockAt(j)'.owner, BlockAt(i)')
    BY <1>2, <1>4, <1>6 DEF Accounts
  <2>. QED  BY <1>2, <1>3, <1>6, <2>1, <2>2, <2>3, SMTT(30) DEF Accounts, Held, Passed
<1>. QED  BY <1>2, <1>8, <1>9, <1>10

LEMMA ShutdownKeeps ==
  ASSUME PoolInv, NEW t \in Tasks, E!Shutdown(t)
  PROVE  Stack' /\ InUse' /\ Apart' /\ Accounts'
<1>. USE DEF PoolInv
<1>1. /\ UNCHANGED <<default, owned, pools, blocks, exited, order, crossed, replaced, adopted>>
      /\ live' = live \ {victim[t]} /\ victim' = [victim EXCEPT ![t] = None]
      /\ pc[t] = "shutting" /\ pc' = [pc EXCEPT ![t] = "running"]
      /\ victim \in [Tasks -> E!PoolsOrNone]
  BY DEF E!Shutdown, E!Goto, E!globals, E!history, OwningInv, E!TypeOK
<1>2. \A i : BlockAt(i)' = BlockAt(i)
  BY <1>1 DEF BlockAt
<1>3. Stack'
  BY <1>1, SameStack
<1>4. \A u \in Tasks : pc'[u] = "entering" <=> pc[u] = "entering"
  BY <1>1 DEF OwningInv, E!TypeOK
<1>5. (Quiet' <=> Quiet) /\ (Calm' <=> Calm)
  BY <1>1, <1>4 DEF Quiet, Calm
<1>6. \A p : Usable(p) => Usable(p)'
  BY <1>1, OursIsOurs DEF Usable, OwningInv, Owning
<1>7. InUse'
  BY <1>1, <1>2, <1>4, <1>6 DEF InUse
<1>8. Apart'
  BY <1>1, <1>2, <1>4, <1>5 DEF Apart
<1>9. Accounts'
  <2>1. ASSUME NEW p \in live', p \notin Theirs, Calm, ~ replaced
        PROVE  \/ p \in adopted \/ p = owned
               \/ \E u \in Tasks : victim'[u] = p
               \/ \E i \in 1 .. Len(order) : Held(BlockAt(i), p)
    <3>1. p \in live /\ p # victim[t]
      BY <1>1
    <3>2. \/ p \in adopted \/ p = owned
          \/ \E u \in Tasks : victim[u] = p
          \/ \E i \in 1 .. Len(order) : Held(BlockAt(i), p)
      BY <2>1, <3>1 DEF Accounts
    <3>. QED  BY <1>1, <3>1, <3>2
  <2>. QED  BY <1>1, <1>2, <1>5, <2>1 DEF Accounts, Held, Passed
<1>. QED  BY <1>3, <1>7, <1>8, <1>9

LEMMA ExitKeeps ==
  ASSUME PoolInv, E!Exit
  PROVE  Stack' /\ InUse' /\ Apart' /\ Accounts'
<1>. USE DEF PoolInv
<1>1. /\ UNCHANGED <<default, pools, blocks, pc, victim, order, crossed, replaced, adopted>>
      /\ exited' /\ owned' = None /\ live' = live \ {owned} /\ E!Open = {}
  BY DEF E!Exit, E!history
<1>2. \A i : BlockAt(i)' = BlockAt(i)
  BY <1>1 DEF BlockAt
<1>3. Stack'
  BY <1>1, SameStack
<1>4. (Quiet' <=> Quiet) /\ (Calm' <=> Calm) /\ Quiet
  BY <1>1 DEF Quiet, Calm, OwningInv, Owning, E!Open
<1>5. InUse'
  BY <1>1 DEF InUse
<1>6. Apart'
  BY <1>1, <1>2, <1>4 DEF Apart, Quiet
<1>7. Accounts'
  BY <1>1, <1>2, <1>4 DEF Accounts, Held, Passed
<1>. QED  BY <1>3, <1>5, <1>6, <1>7

LEMMA PoolInit == E!Init => PoolInv
<1>. SUFFICES ASSUME E!Init PROVE PoolInv
  OBVIOUS
<1>1. OwningInv
  BY OwningInit
<1>2. Len(order) = 0 /\ Quiet
  BY DEF E!Init, Quiet
<1>3. \A t \in Tasks : Len(blocks[t]) = 0
  BY DEF E!Init
<1>4. default = None /\ live = Theirs
  BY DEF E!Init
<1>. QED
  BY <1>1, <1>2, <1>3, <1>4 DEF PoolInv, Stack, InUse, Apart, Accounts, Usable, Quiet

LEMMA PoolStep == PoolInv /\ [E!Next]_(E!vars) => PoolInv'
<1>. SUFFICES ASSUME PoolInv, [E!Next]_(E!vars) PROVE PoolInv'
  OBVIOUS
<1>1. OwningInv'
  BY OwningStep DEF PoolInv
<1>2. CASE UNCHANGED E!vars
  <2>1. UNCHANGED <<default, owned, pools, live, blocks, pc, victim, exited, order, crossed,
                    replaced, adopted>>
    BY <1>2 DEF E!vars, E!globals, E!history
  <2>2. Stack'
    BY <2>1, SameStack DEF PoolInv
  <2>3. InUse'
    BY <2>1 DEF PoolInv, InUse, Usable, BlockAt
  <2>4. Apart'
    BY <2>1 DEF PoolInv, Apart, Quiet, Calm, BlockAt
  <2>5. Accounts'
    BY <2>1, ZenonT(40) DEF PoolInv, Accounts, Quiet, Calm, BlockAt, Held, Passed
  <2>. QED  BY <1>1, <2>2, <2>3, <2>4, <2>5 DEF PoolInv
<1>3. CASE E!Next
  BY <1>1, <1>3, ExitKeeps, SetKeeps, ConfigureKeeps, EnterKeeps, PinKeeps, LeaveKeepsPools,
     ShutdownKeeps DEF E!Next, PoolInv
<1>. QED  BY <1>2, <1>3

-----------------------------------------------------------------------------


\* The pools: only those built here are shut down, the open blocks are a stack until
\* two of them cross, none of them puts back a pool that another shut down, and
\* somebody answers for each pool that is live (executor, configure_executor).
THEOREM PoolInvariant == E!Spec => []PoolInv
<1>. QED  BY PoolInit, PoolStep, PTL DEF E!Spec

LEMMA LiveOfPool == PoolInv => PoolIsLive
  BY DEF PoolInv, OwningInv, Owning, InUse, Usable, PoolIsLive, E!PoolIsLive

LEMMA EndOfPool == PoolInv => PoolsEnd
<1>. SUFFICES ASSUME PoolInv, exited, ~ crossed, ~ replaced, \A t \in Tasks : pc[t] = "running"
              PROVE  live \cap E!Built \subseteq adopted
  BY DEF PoolsEnd, E!PoolsEnd, E!Running
<1>. USE DEF PoolInv
<1>1. Calm /\ \A t \in Tasks : victim[t] = None
  BY DEF Calm, OwningInv, Owning
<1>2. owned = None /\ Len(order) = 0
  BY EmptyStack DEF OwningInv, Owning
<1>3. \A p \in live : p # None
  BY OursIsOurs DEF OwningInv, Owning
<1>. QED  BY <1>1, <1>2, <1>3 DEF Accounts

-----------------------------------------------------------------------------
(* LogBridge.                                                              *)

HIDE DEF E!PoolAssumption, E!Built
USE DEF B!BridgeAssumption, B!Channels, B!Lines


\* The cardinality of a set is the same seen from here.
LEMMA Card == \A S : B!Cardinality(S) = Cardinality(S)
  BY DEF B!Cardinality, Cardinality

LEMMA CardOneMore ==
  ASSUME NEW S \in SUBSET B!Lines, NEW n \in B!Lines, n \notin S
  PROVE  B!Cardinality(S \cup {n}) = B!Cardinality(S) + 1
<1>1. IsFiniteSet(B!Lines)
  BY FS_Interval
<1>2. IsFiniteSet(S)
  BY <1>1, FS_Subset
<1>. QED  BY <1>2, Card, FS_AddElement

\* Each line is dropped at most once.
Fresh ==
    /\ B!Counted \subseteq 1 .. emitted
    /\ \A e \in Emitters : sending[e] # 0 =>
        /\ saying[e] \in 1 .. emitted /\ saying[e] \notin B!Counted
        /\ \A f \in Emitters \ {e} : sending[f] # 0 => saying[f] # saying[e]

\* The counts are those of the lines they stand for.
Tallied ==
    /\ DROPPED = B!Cardinality(owed)
    /\ \A c \in B!Channels : carried[c] = B!Cardinality(held[c])
    /\ \A c \in B!Channels : forwarder[c] # "delivering" => held[c] = {}
    /\ B!OneRecord

\* Until something is stopped the first channel is the only one.
Serving ==
    /\ ~ CLOSING /\ ~ gate /\ SENDER # 0
    /\ \A k \in Controllers : at[k] \in {"idle", "installing"}

\* No line is nowhere, and none is discarded before something is stopped.
Somewhere(n) ==
    n \in handled \cup B!Counted \cup discarded \/ B!InSink(n) \/ B!InChannel(n)
Located ==
    /\ \A n \in 1 .. emitted : Somewhere(n)
    /\ discarded # {} => stopped

\* Each controller opens a channel of its own, which has no forwarder before.
Opening ==
    /\ \A c \in B!Channels : c > opened => forwarder[c] = "none"
    /\ \A k \in Controllers : at[k] = "spawning" =>
        /\ mine[k] \in 1 .. opened /\ forwarder[mine[k]] = "none"
        /\ \A j \in Controllers \ {k} : at[j] = "spawning" => mine[j] # mine[k]

\* No line is sent to a channel before its forwarder was started.
Untouched == \A c \in B!Channels : forwarder[c] = "none" =>
    /\ queue[c] = <<>> /\ line[c] = 0 /\ sink # c
    /\ \A e \in Emitters : sending[e] # c
    /\ \A k \in Controllers : at[k] = "sinking" => mine[k] # c

\* A forwarder between two receptions holds a line.
Holding == \A c \in B!Channels :
    forwarder[c] \in {"received", "attaching", "delivering"} => line[c] \in B!Lines

LinesInv ==
    /\ B!TypeOK /\ Fresh /\ Tallied /\ Opening /\ Untouched /\ Holding /\ Located
    /\ ~ stopped => Serving

\* The types, the flags apart.
Flags == CLOSING \in BOOLEAN /\ gate \in BOOLEAN /\ stopped \in BOOLEAN
Slots ==
    /\ SENDER \in 0..MaxChannels /\ sink \in 0..MaxChannels
    /\ level \in {"Off", "Warn", "Info"} /\ opened \in 1..MaxChannels
Queues ==
    /\ queue \in [B!Channels -> Seq(B!Lines)]
    /\ forwarder \in [B!Channels -> {"none", "receiving", "received", "attaching",
                                     "delivering", "gone", "unstarted"}]
    /\ line \in [B!Channels -> 0..MaxLines]
Sendings ==
    /\ sending \in [Emitters -> 0..MaxChannels]
    /\ saying \in [Emitters -> 0..MaxLines]
    /\ emitted \in 0..MaxLines
Controls ==
    /\ at \in [Controllers -> {"idle", "clearing", "taking", "installing",
                               "spawning", "sinking"}]
    /\ requests \in Nat /\ mine \in [Controllers -> 0..MaxChannels]
Counts ==
    /\ DROPPED \in Nat /\ carried \in [B!Channels -> Nat]
    /\ owed \subseteq B!Lines /\ held \in [B!Channels -> SUBSET B!Lines]
    /\ told \subseteq B!Lines /\ unsaid \subseteq B!Lines
    /\ handled \subseteq B!Lines /\ discarded \subseteq B!Lines
Numbers == Slots /\ Queues /\ Sendings /\ Controls /\ Counts

LEMMA Typed == B!TypeOK <=> Flags /\ Numbers
  BY DEF B!TypeOK, Flags, Numbers, Slots, Queues, Sendings, Controls, Counts

LEMMA BridgeInit == B!Init => LinesInv
<1>. SUFFICES ASSUME B!Init PROVE LinesInv
  OBVIOUS
<1>. USE DEF B!Init
<1>1. B!TypeOK
  <2>1. Flags
    BY DEF Flags
  <2>2. Slots /\ Queues /\ Sendings /\ Controls /\ Counts
    BY DEF Slots, Queues, Sendings, Controls, Counts
  <2>. QED  BY <2>1, <2>2, Typed DEF Numbers
<1>2. B!Counted = {}
  BY DEF B!Counted
<1>3. Fresh
  BY <1>2 DEF Fresh
<1>4. Tallied
  BY Card, FS_EmptySet DEF Tallied, B!OneRecord
<1>5. Opening /\ Untouched
  BY DEF Opening, Untouched
<1>6. Located /\ Holding /\ Serving
  BY DEF Located, Holding, Serving
<1>. QED  BY <1>1, <1>3, <1>4, <1>5, <1>6 DEF LinesInv

-----------------------------------------------------------------------------

\* The calls of configure_logging, but for the thread one of them starts.
Control(k) ==
    \/ B!Stop(k) \/ B!Start(k) \/ B!SetLevel(k) \/ B!ClearSink(k) \/ B!TakeSender(k)
    \/ B!AlreadyInstalled(k) \/ B!Open(k) \/ B!SetSink(k)

moved == <<queue, line, carried, sending, saying, emitted, DROPPED, owed, held, told,
           unsaid, handled, discarded>>

\* They move no line and no count.
LEMMA ControlIs ==
  ASSUME NEW k \in Controllers, Control(k) \/ B!Spawn(k)
  PROVE  /\ UNCHANGED moved /\ gate' = gate
         /\ Control(k) => forwarder' = forwarder
<1>. USE DEF moved, B!bridgeVars, B!forwarderVars, B!emitterVars, B!countVars, B!ends,
             B!Goto, B!Calls, B!Continues
<1>1. CASE B!Stop(k) \/ B!Start(k) \/ B!SetLevel(k)
  BY <1>1 DEF B!Stop, B!Start, B!SetLevel
<1>2. CASE B!ClearSink(k) \/ B!TakeSender(k) \/ B!AlreadyInstalled(k)
  BY <1>2 DEF B!ClearSink, B!TakeSender, B!AlreadyInstalled
<1>3. CASE B!Open(k) \/ B!SetSink(k)
  BY <1>3 DEF B!Open, B!SetSink
<1>4. CASE B!Spawn(k)
  <2>1. UNCHANGED moved /\ gate' = gate /\ at[k] = "spawning"
    BY <1>4 DEF B!Spawn
  <2>2. ~ Control(k)
    BY <2>1 DEF Control, B!Stop, B!Start, B!SetLevel, B!ClearSink, B!TakeSender,
                B!AlreadyInstalled, B!Open, B!SetSink
  <2>. QED  BY <2>1, <2>2
<1>. QED  BY <1>1, <1>2, <1>3, <1>4 DEF Control

LEMMA NextIs ==
  ASSUME [B!Next]_(B!vars)
  PROVE  \/ UNCHANGED B!vars \/ B!ShutGate
         \/ \E k \in Controllers : Control(k) \/ B!Spawn(k)
         \/ \E e \in Emitters : B!Emit(e) \/ B!Send(e) \/ B!Drop(e)
         \/ \E c \in B!Channels : B!Forward(c)
  BY DEF B!Next, B!Step, Control

LEMMA FlagsKept ==
  ASSUME Flags, [B!Next]_(B!vars) PROVE Flags'
<1>. USE DEF Flags, B!bridgeVars, B!controlVars
<1>1. CASE UNCHANGED B!vars \/ B!ShutGate
  BY <1>1 DEF B!vars, B!ShutGate
<1>2. ASSUME NEW k \in Controllers, Control(k) \/ B!Spawn(k) PROVE Flags'
  <2>. USE DEF B!Goto, B!Calls, B!Continues
  <2>1. CASE B!Stop(k) \/ B!Start(k) \/ B!SetLevel(k)
    BY <2>1 DEF B!Stop, B!Start, B!SetLevel
  <2>2. CASE B!ClearSink(k) \/ B!TakeSender(k) \/ B!AlreadyInstalled(k)
    BY <2>2 DEF B!ClearSink, B!TakeSender, B!AlreadyInstalled
  <2>3. CASE B!Open(k) \/ B!Spawn(k) \/ B!SetSink(k)
    BY <2>3 DEF B!Open, B!Spawn, B!SetSink
  <2>. QED  BY <1>2, <2>1, <2>2, <2>3 DEF Control
<1>3. ASSUME NEW e \in Emitters, B!Emit(e) \/ B!Send(e) \/ B!Drop(e) PROVE Flags'
  BY <1>3 DEF B!Emit, B!Send, B!Drop, B!Sent
<1>4. ASSUME NEW c \in B!Channels, B!Forward(c) PROVE Flags'
  BY <1>4 DEF B!Forward, B!Receive, B!Hangup, B!Discard, B!Proceed, B!Refused, B!Enter,
              B!Deliver, B!DeliveryFails, B!Delivered
<1>. QED  BY <1>1, <1>2, <1>3, <1>4, NextIs

LEMMA ControlTypes ==
  ASSUME Numbers, NEW k \in Controllers, Control(k) \/ B!Spawn(k)
  PROVE  Numbers'
<1>. USE DEF Slots, Controls, B!bridgeVars, B!Goto, B!Calls, B!Continues
<1>0. Slots /\ Controls
  BY DEF Numbers
<1>1. Slots' /\ Controls'
  <2>1. CASE B!Stop(k) \/ B!Start(k)
    BY <1>0, <2>1 DEF B!Stop, B!Start
  <2>2. CASE B!SetLevel(k)
    BY <1>0, <2>2 DEF B!SetLevel, B!Volume
  <2>3. CASE B!ClearSink(k) \/ B!TakeSender(k) \/ B!AlreadyInstalled(k)
    BY <1>0, <2>3 DEF B!ClearSink, B!TakeSender, B!AlreadyInstalled
  <2>4. CASE B!Open(k)
    <3>1. opened + 1 \in 1 .. MaxChannels /\ opened + 1 \in 0 .. MaxChannels
      BY <1>0, <2>4 DEF B!Open
    <3>. QED  BY <1>0, <2>4, <3>1 DEF B!Open
  <2>5. CASE B!Spawn(k)
    BY <1>0, <2>5 DEF B!Spawn
  <2>6. CASE B!SetSink(k)
    BY <1>0, <2>6 DEF B!SetSink
  <2>. QED  BY <2>1, <2>2, <2>3, <2>4, <2>5, <2>6 DEF Control
<1>2. UNCHANGED moved
  BY ControlIs
<1>3. Queues' /\ Sendings' /\ Counts'
  <2>1. forwarder' \in [B!Channels -> {"none", "receiving", "received", "attaching",
                                       "delivering", "gone", "unstarted"}]
    BY ControlIs DEF Numbers, Queues, B!Spawn, B!Becomes
  <2>. QED  BY <1>2, <2>1 DEF moved, Numbers, Queues, Sendings, Counts
<1>. QED  BY <1>1, <1>3 DEF Numbers

LEMMA EmitterTypes ==
  ASSUME Numbers, Fresh, NEW e \in Emitters, B!Emit(e) \/ B!Send(e) \/ B!Drop(e)
  PROVE  Numbers'
<1>. USE DEF B!bridgeVars, B!forwarderVars, B!controlVars, B!countVars, B!ends
<1>0. Slots /\ Queues /\ Sendings /\ Controls /\ Counts
  BY DEF Numbers
<1>1. CASE B!Emit(e)
  <2>1. UNCHANGED <<SENDER, sink, level, opened, queue, forwarder, line, carried, at, requests,
                    mine, DROPPED, owed, held, told, unsaid, handled, discarded>>
    BY <1>1 DEF B!Emit
  <2>2. Sendings'
    <3>1. emitted + 1 \in 0 .. MaxLines /\ sink \in 0 .. MaxChannels
      BY <1>0, <1>1 DEF B!Emit, Sendings, Slots
    <3>. QED  BY <1>0, <1>1, <3>1 DEF B!Emit, Sendings
  <2>. QED  BY <1>0, <2>1, <2>2 DEF Numbers, Slots, Queues, Controls, Counts
<1>2. CASE B!Send(e) \/ B!Drop(e)
  <2>1. UNCHANGED <<SENDER, sink, level, opened, forwarder, line, carried, at, requests,
                    mine, held, told, unsaid, handled, discarded, saying, emitted>>
        /\ sending' = [sending EXCEPT ![e] = 0] /\ sending[e] # 0
    BY <1>2 DEF B!Send, B!Drop, B!Sent
  <2>2. saying[e] \in 1 .. MaxLines /\ sending[e] \in 1 .. MaxChannels
    BY <1>0, <2>1 DEF Fresh, Sendings
  <2>3. queue' \in [B!Channels -> Seq(B!Lines)]
    <3>1. CASE B!Send(e)
      <4>1. Append(queue[sending[e]], saying[e]) \in Seq(B!Lines)
        BY <1>0, <2>2, AppendProperties DEF Queues
      <4>. QED  BY <1>0, <3>1, <4>1 DEF B!Send, Queues
    <3>2. CASE B!Drop(e)
      BY <1>0, <3>2 DEF B!Drop, Queues
    <3>. QED  BY <1>2, <3>1, <3>2
  <2>4. DROPPED' \in Nat /\ owed' \subseteq B!Lines
    <3>1. DROPPED \in Nat /\ owed \subseteq B!Lines /\ saying[e] \in B!Lines
      BY <1>0, <2>2 DEF Counts
    <3>2. DROPPED' = DROPPED \/ DROPPED' = DROPPED + 1
      BY <1>2 DEF B!Send, B!Drop
    <3>3. owed' = owed \/ owed' = owed \cup {saying[e]}
      BY <1>2 DEF B!Send, B!Drop
    <3>4. DROPPED' \in Nat
      BY <3>1, <3>2
    <3>5. owed' \subseteq B!Lines
      BY <3>1, <3>3
    <3>. QED  BY <3>4, <3>5
  <2>5. Queues'
    BY <1>0, <2>1, <2>3 DEF Queues
  <2>6. Sendings'
    BY <1>0, <2>1 DEF Sendings
  <2>. QED  BY <1>0, <2>1, <2>4, <2>5, <2>6 DEF Numbers, Slots, Controls, Counts
<1>. QED  BY <1>1, <1>2

\* Where a forwarder goes; only the middle of a delivery touches the counts.
LEMMA ForwardIs ==
  ASSUME NEW c \in B!Channels, B!Forward(c)
  PROVE  /\ UNCHANGED <<CLOSING, SENDER, sink, level, opened, sending, saying, emitted, at,
                        requests, mine, gate, stopped>>
         /\ forwarder[c] \in {"receiving", "received", "attaching", "delivering"}
         /\ \E state \in {"received", "gone", "attaching", "receiving", "delivering"} :
              forwarder' = [forwarder EXCEPT ![c] = state]
         /\ ~ B!Enter(c) /\ forwarder[c] # "delivering" =>
              UNCHANGED <<carried, DROPPED, owed, held, told, unsaid, handled>>
         /\ ~ B!Discard(c) /\ ~ B!Refused(c) => UNCHANGED discarded
<1>. USE DEF B!bridgeVars, B!emitterVars, B!controlVars, B!countVars, B!ends, B!Becomes
<1>1. CASE B!Receive(c) \/ B!Hangup(c) \/ B!Discard(c)
  BY <1>1 DEF B!Receive, B!Hangup, B!Discard
<1>2. CASE B!Proceed(c) \/ B!Refused(c) \/ B!Enter(c)
  BY <1>2 DEF B!Proceed, B!Refused, B!Enter
<1>3. CASE B!Deliver(c) \/ B!DeliveryFails(c)
  BY <1>3 DEF B!Deliver, B!DeliveryFails, B!Delivered
<1>. QED  BY <1>1, <1>2, <1>3 DEF B!Forward

LEMMA ForwardTypes ==
  ASSUME Numbers, Holding, NEW c \in B!Channels, B!Forward(c)
  PROVE  Numbers'
<1>0. Slots /\ Queues /\ Sendings /\ Controls /\ Counts
  BY DEF Numbers
<1>1. Slots' /\ Sendings' /\ Controls'
  BY <1>0, ForwardIs DEF Slots, Sendings, Controls
<1>2. Queues'
  <2>1. forwarder' \in [B!Channels -> {"none", "receiving", "received", "attaching",
                                       "delivering", "gone", "unstarted"}]
    BY <1>0, ForwardIs DEF Queues
  <2>2. queue' \in [B!Channels -> Seq(B!Lines)] /\ line' \in [B!Channels -> 0..MaxLines]
    <3>1. CASE B!Receive(c)
      <4>1. queue[c] \in Seq(B!Lines) /\ queue[c] # <<>>
        BY <1>0, <3>1 DEF B!Receive, Queues
      <4>2. Head(queue[c]) \in B!Lines /\ Tail(queue[c]) \in Seq(B!Lines)
        BY <4>1, HeadTailProperties
      <4>3. Head(queue[c]) \in 0..MaxLines
        BY <4>2
      <4>. QED  BY <1>0, <3>1, <4>2, <4>3 DEF B!Receive, Queues
    <3>2. CASE B!Discard(c)
      BY <1>0, <3>2 DEF B!Discard, Queues
    <3>3. CASE ~ B!Receive(c) /\ ~ B!Discard(c)
      <4>1. UNCHANGED <<queue, line>>
        BY <3>3 DEF B!Forward, B!Hangup, B!Proceed, B!Refused, B!Enter, B!Deliver,
                    B!DeliveryFails, B!Delivered
      <4>. QED  BY <1>0, <4>1 DEF Queues
    <3>. QED  BY <3>1, <3>2, <3>3
  <2>. QED  BY <2>1, <2>2 DEF Queues
<1>3. Counts'
  <2>1. CASE B!Enter(c)
    BY <1>0, <2>1 DEF B!Enter, B!ends, Counts
  <2>2. CASE B!Deliver(c) \/ B!DeliveryFails(c)
    <3>1. held[c] \subseteq B!Lines /\ line[c] \in B!Lines
      BY <1>0, <2>2 DEF Counts, Holding, B!Deliver, B!DeliveryFails, B!Delivered
    <3>2. /\ handled' = handled \cup {line[c]} /\ UNCHANGED <<DROPPED, owed, discarded>>
          /\ carried' = [carried EXCEPT ![c] = 0] /\ held' = [held EXCEPT ![c] = {}]
          /\ told' = told \/ told' = told \cup held[c]
          /\ unsaid' = unsaid \/ unsaid' = unsaid \cup held[c]
      BY <2>2 DEF B!Deliver, B!DeliveryFails, B!Delivered
    <3>. QED  BY <1>0, <3>1, <3>2 DEF Counts
  <2>3. CASE B!Receive(c) \/ B!Hangup(c) \/ B!Proceed(c)
    BY <1>0, <2>3 DEF Counts, B!Receive, B!Hangup, B!Proceed, B!countVars, B!ends
  <2>4. CASE B!Discard(c) \/ B!Refused(c)
    <3>1. line[c] \in B!Lines /\ queue[c] \in Seq(B!Lines)
      BY <1>0, <2>4 DEF Holding, B!Discard, B!Refused, Queues
    <3>2. {queue[c][i] : i \in DOMAIN queue[c]} \subseteq B!Lines
      BY <3>1
    <3>3. discarded' \subseteq B!Lines
      BY <1>0, <2>4, <3>1, <3>2 DEF B!Discard, B!Refused, Counts
    <3>4. UNCHANGED <<carried, DROPPED, owed, held, told, unsaid, handled>>
      BY <2>4 DEF B!Discard, B!Refused, B!countVars
    <3>. QED  BY <1>0, <3>3, <3>4 DEF Counts
  <2>. QED  BY <2>1, <2>2, <2>3, <2>4 DEF B!Forward
<1>. QED  BY <1>1, <1>2, <1>3 DEF Numbers

LEMMA NumbersKept ==
  ASSUME Numbers, Fresh, Holding, [B!Next]_(B!vars) PROVE Numbers'
<1>1. CASE UNCHANGED B!vars \/ B!ShutGate
  BY <1>1 DEF B!vars, B!ShutGate, B!bridgeVars, B!forwarderVars, B!emitterVars,
              B!controlVars, B!countVars, B!ends, Numbers, Slots, Queues, Sendings, Controls,
              Counts
<1>. QED  BY <1>1, NextIs, ControlTypes, EmitterTypes, ForwardTypes

LEMMA TypesKept ==
  ASSUME LinesInv, [B!Next]_(B!vars) PROVE B!TypeOK'
<1>1. Flags /\ Numbers
  BY Typed DEF LinesInv
<1>2. Flags' /\ Numbers'
  BY <1>1, FlagsKept, NumbersKept DEF LinesInv
<1>. QED
  BY <1>2 DEF B!TypeOK, Flags, Numbers, Slots, Queues, Sendings, Controls, Counts

-----------------------------------------------------------------------------

LEMMA StillIs ==
  /\ UNCHANGED B!vars \/ B!ShutGate => UNCHANGED <<moved, forwarder, sink, opened, at, mine>>
  /\ UNCHANGED B!vars => UNCHANGED <<CLOSING, gate, SENDER, stopped>>
  /\ B!ShutGate => stopped'
  BY DEF B!vars, B!ShutGate, B!bridgeVars, B!forwarderVars, B!emitterVars,
         B!controlVars, B!countVars, B!ends, moved

LEMMA EmitterIs ==
  ASSUME NEW e \in Emitters, B!Emit(e) \/ B!Send(e) \/ B!Drop(e)
  PROVE  UNCHANGED <<CLOSING, SENDER, sink, level, opened, forwarder, line, carried, at,
                     requests, mine, gate, stopped, held, told, unsaid, handled, discarded>>
  BY DEF B!Emit, B!Send, B!Drop, B!Sent, B!bridgeVars, B!forwarderVars, B!controlVars,
         B!countVars, B!ends

LEMMA HoldingKept ==
  ASSUME LinesInv, [B!Next]_(B!vars) PROVE Holding'
<1>0. Holding /\ Opening /\ Numbers
  BY Typed DEF LinesInv
<1>1. CASE UNCHANGED B!vars \/ B!ShutGate
  BY <1>0, <1>1, StillIs DEF Holding, moved
<1>2. ASSUME NEW k \in Controllers, Control(k) PROVE Holding'
  BY <1>0, <1>2, ControlIs DEF Holding, moved
<1>3. ASSUME NEW k \in Controllers, B!Spawn(k) PROVE Holding'
  BY <1>0, <1>3, ControlIs DEF Holding, moved, B!Spawn, B!Becomes, Numbers, Queues
<1>4. ASSUME NEW e \in Emitters, B!Emit(e) \/ B!Send(e) \/ B!Drop(e) PROVE Holding'
  BY <1>0, <1>4, EmitterIs DEF Holding
<1>5. ASSUME NEW c \in B!Channels, B!Forward(c) PROVE Holding'
  <2>1. CASE B!Receive(c)
    <3>1. Head(queue[c]) \in B!Lines
      BY <1>0, <2>1, HeadTailProperties DEF B!Receive, Numbers, Queues
    <3>. QED  BY <1>0, <2>1, <3>1 DEF Holding, B!Receive, B!Becomes, Numbers, Queues
  <2>2. CASE B!Hangup(c) \/ B!Discard(c) \/ B!Proceed(c)
    BY <1>0, <2>2 DEF Holding, B!Hangup, B!Discard, B!Proceed, B!Becomes, Numbers, Queues
  <2>3. CASE B!Refused(c) \/ B!Enter(c)
    BY <1>0, <2>3 DEF Holding, B!Refused, B!Enter, B!Becomes, Numbers, Queues
  <2>4. CASE B!Deliver(c) \/ B!DeliveryFails(c)
    BY <1>0, <2>4 DEF Holding, B!Deliver, B!DeliveryFails, B!Delivered, B!Becomes, Numbers,
                      Queues
  <2>. QED  BY <1>5, <2>1, <2>2, <2>3, <2>4 DEF B!Forward
<1>. QED  BY <1>1, <1>2, <1>3, <1>4, <1>5, NextIs

LEMMA OpeningKept ==
  ASSUME LinesInv, [B!Next]_(B!vars) PROVE Opening'
<1>0. Opening /\ Numbers /\ Slots /\ Queues /\ Controls
  BY Typed DEF LinesInv, Numbers
<1>1. CASE UNCHANGED B!vars \/ B!ShutGate
  BY <1>0, <1>1, StillIs DEF Opening
<1>2. ASSUME NEW k \in Controllers, Control(k), ~ B!Open(k) PROVE Opening'
  <2>1. UNCHANGED <<forwarder, opened>>
    <3>1. CASE B!Stop(k) \/ B!Start(k) \/ B!SetLevel(k)
      BY <3>1 DEF B!Stop, B!Start, B!SetLevel, B!forwarderVars
    <3>2. CASE B!ClearSink(k) \/ B!TakeSender(k) \/ B!AlreadyInstalled(k) \/ B!SetSink(k)
      BY <3>2 DEF B!ClearSink, B!TakeSender, B!AlreadyInstalled, B!SetSink
    <3>. QED  BY <1>2, <3>1, <3>2 DEF Control
  <2>2. \E s \in {"idle", "clearing", "taking", "installing"} : at' = [at EXCEPT ![k] = s]
    BY <1>2 DEF Control, B!Stop, B!Start, B!SetLevel, B!ClearSink, B!TakeSender,
                B!AlreadyInstalled, B!SetSink, B!Goto, B!Continues
  <2>3. \A j \in Controllers \ {k} : mine'[j] = mine[j]
    <3>1. CASE B!SetSink(k)
      BY <1>0, <3>1 DEF B!SetSink, Controls
    <3>2. CASE ~ B!SetSink(k)
      BY <1>2, <3>2 DEF Control, B!Stop, B!Start, B!SetLevel, B!ClearSink, B!TakeSender,
                B!AlreadyInstalled
    <3>. QED  BY <3>1, <3>2
  <2>4. \A j \in Controllers : at'[j] = "spawning" => j # k /\ at[j] = "spawning"
    BY <1>0, <2>2 DEF Controls
  <2>. QED  BY <1>0, <2>1, <2>3, <2>4 DEF Opening
<1>3. ASSUME NEW k \in Controllers, B!Open(k) PROVE Opening'
  <2>1. /\ opened' = opened + 1 /\ mine' = [mine EXCEPT ![k] = opened + 1]
        /\ at' = [at EXCEPT ![k] = "spawning"] /\ forwarder' = forwarder
        /\ opened < MaxChannels
    BY <1>3, ControlIs DEF B!Open, B!Continues, B!Goto, Control
  <2>2. opened \in 1 .. MaxChannels /\ opened + 1 \in B!Channels
    BY <1>0, <2>1 DEF Slots
  <2>3. forwarder[opened + 1] = "none"
    BY <1>0, <2>2 DEF Opening
  <2>4. \A c \in B!Channels : c > opened' => forwarder'[c] = "none"
    BY <1>0, <2>1, <2>2 DEF Opening
  <2>5. mine'[k] = opened + 1 /\ \A j \in Controllers \ {k} :
          at'[j] = at[j] /\ mine'[j] = mine[j]
    BY <1>0, <2>1 DEF Controls
  <2>6. \A j \in Controllers \ {k} : at[j] = "spawning" =>
          mine[j] \in 1 .. opened' /\ mine[j] # opened + 1 /\ forwarder[mine[j]] = "none"
    BY <1>0, <2>1, <2>2 DEF Opening
  <2>7. opened + 1 \in 1 .. opened'
    BY <2>1, <2>2
  <2>. QED  BY <1>0, <2>1, <2>3, <2>4, <2>5, <2>6, <2>7 DEF Opening
<1>4. ASSUME NEW k \in Controllers, B!Spawn(k) PROVE Opening'
  <2>1. PICK state \in {"receiving", "unstarted"} :
          /\ forwarder' = [forwarder EXCEPT ![mine[k]] = state]
          /\ at' = [at EXCEPT ![k] = "sinking"] /\ UNCHANGED <<opened, mine>>
          /\ at[k] = "spawning"
    BY <1>4 DEF B!Spawn, B!Becomes, B!Continues, B!Goto
  <2>2. mine[k] \in 1 .. opened
    BY <1>0, <2>1 DEF Opening
  <2>3. \A c \in B!Channels : c > opened => forwarder'[c] = "none"
    BY <1>0, <2>1, <2>2 DEF Opening, Slots, Queues
  <2>4. \A j \in Controllers : at'[j] = "spawning" => j # k /\ at[j] = "spawning"
    BY <1>0, <2>1 DEF Controls
  <2>5. \A j \in Controllers : at'[j] = "spawning" =>
          mine[j] \in 1 .. opened /\ mine[j] # mine[k] /\ forwarder[mine[j]] = "none"
    BY <1>0, <2>1, <2>4 DEF Opening
  <2>6. \A j \in Controllers : at'[j] = "spawning" => forwarder'[mine[j]] = "none"
    BY <1>0, <2>1, <2>5 DEF Slots, Queues
  <2>. QED  BY <1>0, <2>1, <2>3, <2>4, <2>5, <2>6 DEF Opening
<1>5. ASSUME NEW e \in Emitters, B!Emit(e) \/ B!Send(e) \/ B!Drop(e) PROVE Opening'
  BY <1>0, <1>5, EmitterIs DEF Opening
<1>6. ASSUME NEW c \in B!Channels, B!Forward(c) PROVE Opening'
  <2>1. forwarder[c] # "none" /\ UNCHANGED <<opened, at, mine>>
        /\ \A d \in B!Channels : d # c => forwarder'[d] = forwarder[d]
    BY <1>0, <1>6, ForwardIs, ZenonT(40) DEF Queues
  <2>2. \A k \in Controllers : at[k] = "spawning" => mine[k] \in B!Channels
    BY <1>0 DEF Opening, Slots
  <2>. QED  BY <1>0, <2>1, <2>2 DEF Opening
<1>. QED  BY <1>1, <1>2, <1>3, <1>4, <1>5, <1>6, NextIs DEF Control

LEMMA UntouchedKept ==
  ASSUME LinesInv, [B!Next]_(B!vars) PROVE Untouched'
<1>0. Untouched /\ Opening /\ Slots /\ Queues /\ Sendings /\ Controls
  BY Typed DEF LinesInv, Numbers
<1>1. CASE UNCHANGED B!vars \/ B!ShutGate
  BY <1>0, <1>1, StillIs DEF Untouched, moved
<1>2. ASSUME NEW k \in Controllers, Control(k) PROVE Untouched'
  <2>1. UNCHANGED <<queue, line, sending, forwarder>>
    BY <1>2, ControlIs DEF moved
  <2>2. sink' \in {sink, 0} \/ (at[k] = "sinking" /\ sink' = mine[k])
    BY <1>2 DEF Control, B!Stop, B!Start, B!SetLevel, B!ClearSink, B!TakeSender,
                B!AlreadyInstalled, B!Open, B!SetSink, B!Continues, B!bridgeVars
  <2>3. \E s \in {"idle", "clearing", "taking", "installing", "spawning"} :
          at' = [at EXCEPT ![k] = s]
    BY <1>2 DEF Control, B!Stop, B!Start, B!SetLevel, B!ClearSink, B!TakeSender,
                B!AlreadyInstalled, B!Open, B!SetSink, B!Goto, B!Continues
  <2>4. \A j \in Controllers \ {k} : mine'[j] = mine[j]
    <3>1. mine' = mine \/ \E c : mine' = [mine EXCEPT ![k] = c]
      BY <1>2 DEF Control, B!Stop, B!Start, B!SetLevel, B!ClearSink, B!TakeSender,
                  B!AlreadyInstalled, B!Open, B!SetSink
    <3>. QED  BY <1>0, <3>1 DEF Controls
  <2>5. \A j \in Controllers : at'[j] = "sinking" => j # k /\ at[j] = "sinking"
    BY <1>0, <2>3 DEF Controls
  <2>. QED  BY <1>0, <2>1, <2>2, <2>4, <2>5 DEF Untouched
<1>3. ASSUME NEW k \in Controllers, B!Spawn(k) PROVE Untouched'
  <2>1. PICK state \in {"receiving", "unstarted"} :
          /\ forwarder' = [forwarder EXCEPT ![mine[k]] = state]
          /\ at' = [at EXCEPT ![k] = "sinking"] /\ UNCHANGED <<mine, sink>>
          /\ at[k] = "spawning"
    BY <1>3 DEF B!Spawn, B!Becomes, B!Continues, B!Goto
  <2>2. mine[k] \in B!Channels /\ forwarder'[mine[k]] # "none"
    BY <1>0, <2>1 DEF Opening, Slots, Queues
  <2>3. \A c \in B!Channels : forwarder'[c] = "none" => c # mine[k] /\ forwarder[c] = "none"
    BY <1>0, <2>1, <2>2 DEF Queues
  <2>4. \A j \in Controllers : at'[j] = "sinking" => j = k \/ at[j] = "sinking"
    BY <1>0, <2>1 DEF Controls
  <2>5. UNCHANGED <<queue, line, sending>>
    BY <1>3, ControlIs DEF moved
  <2>. QED  BY <1>0, <2>1, <2>3, <2>4, <2>5 DEF Untouched
<1>4. ASSUME NEW e \in Emitters, B!Emit(e) \/ B!Send(e) \/ B!Drop(e) PROVE Untouched'
  <2>1. UNCHANGED <<forwarder, line, sink, at, mine>>
    BY <1>4, EmitterIs
  <2>2. /\ sending' = [sending EXCEPT ![e] = sink] \/ sending' = [sending EXCEPT ![e] = 0]
        /\ queue' = queue \/ queue' = [queue EXCEPT ![sending[e]] = Append(@, saying[e])]
    BY <1>4 DEF B!Emit, B!Send, B!Drop, B!Sent, B!forwarderVars
  <2>3. \A f \in Emitters : sending'[f] \in {sending[f], sink, 0}
    BY <1>0, <2>2 DEF Sendings
  <2>4. \A c \in B!Channels : sending[e] # c => queue'[c] = queue[c]
    BY <1>0, <2>2 DEF Queues
  <2>. QED  BY <1>0, <2>1, <2>3, <2>4 DEF Untouched
<1>5. ASSUME NEW c \in B!Channels, B!Forward(c) PROVE Untouched'
  <2>1. UNCHANGED <<sink, sending, at, mine>> /\ forwarder[c] # "none"
    BY <1>5, ForwardIs
  <2>2. \A d \in B!Channels \ {c} :
          queue'[d] = queue[d] /\ line'[d] = line[d] /\ forwarder'[d] = forwarder[d]
    BY <1>0, <1>5 DEF B!Forward, B!Receive, B!Hangup, B!Discard, B!Proceed, B!Refused,
      B!Enter, B!Deliver, B!DeliveryFails, B!Delivered, B!Becomes, Queues
  <2>3. forwarder'[c] # "none"
    BY <1>0, <1>5, ForwardIs DEF Queues
  <2>. QED  BY <1>0, <2>1, <2>2, <2>3 DEF Untouched
<1>. QED  BY <1>1, <1>2, <1>3, <1>4, <1>5, NextIs

-----------------------------------------------------------------------------

LEMMA CountedIs ==
  /\ \A n : n \in B!Counted <=>
        \/ n \in owed \/ n \in told \/ n \in unsaid
        \/ \E c \in B!Channels : n \in held[c]
  /\ \A n : n \in B!Counted' <=>
        \/ n \in owed' \/ n \in told' \/ n \in unsaid'
        \/ \E c \in B!Channels : n \in held'[c]
  BY DEF B!Counted

\* A forwarder moves the lines of a count together, and loses none.
LEMMA CountedMoves ==
  ASSUME LinesInv, NEW c \in B!Channels, B!Forward(c)
  PROVE  B!Counted' = B!Counted
<1>0. Tallied /\ held \in [B!Channels -> SUBSET B!Lines]
  BY Typed DEF LinesInv, Numbers, Counts
<1>1. CASE B!Enter(c)
  <2>1. /\ owed' = {} /\ held' = [held EXCEPT ![c] = owed] /\ held[c] = {}
        /\ UNCHANGED <<told, unsaid>>
    BY <1>0, <1>1 DEF B!Enter, Tallied
  <2>2. held'[c] = owed /\ \A d \in B!Channels \ {c} : held'[d] = held[d]
    BY <1>0, <2>1
  <2>3. \A n : n \in B!Counted' <=> n \in B!Counted
    BY <2>1, <2>2, CountedIs
  <2>. QED  BY <2>3
<1>2. CASE B!Deliver(c) \/ B!DeliveryFails(c)
  <2>1. /\ owed' = owed /\ held' = [held EXCEPT ![c] = {}]
        /\ \/ told' = told \cup held[c] /\ unsaid' = unsaid
           \/ unsaid' = unsaid \cup held[c] /\ told' = told
    BY <1>2 DEF B!Deliver, B!DeliveryFails, B!Delivered
  <2>2. held'[c] = {} /\ \A d \in B!Channels \ {c} : held'[d] = held[d]
    BY <1>0, <2>1
  <2>3. \A n : n \in B!Counted' <=> n \in B!Counted
    BY <2>1, <2>2, CountedIs
  <2>. QED  BY <2>3
<1>3. CASE ~ B!Enter(c) /\ ~ B!Deliver(c) /\ ~ B!DeliveryFails(c)
  <2>1. UNCHANGED <<owed, held, told, unsaid>>
    BY <1>3 DEF B!Forward, B!Receive, B!Hangup, B!Discard, B!Proceed, B!Refused, B!countVars
  <2>. QED  BY <2>1 DEF B!Counted
<1>. QED  BY <1>1, <1>2, <1>3

LEMMA FreshKept ==
  ASSUME LinesInv, [B!Next]_(B!vars) PROVE Fresh'
<1>0. Fresh /\ Sendings
  BY Typed DEF LinesInv, Numbers
<1>1. ASSUME UNCHANGED <<sending, saying, emitted>>, B!Counted' = B!Counted PROVE Fresh'
  BY <1>0, <1>1 DEF Fresh
<1>2. CASE UNCHANGED moved
  BY <1>1, <1>2 DEF moved, B!Counted
<1>3. ASSUME NEW c \in B!Channels, B!Forward(c) PROVE Fresh'
  BY <1>1, <1>3, ForwardIs, CountedMoves
<1>4. ASSUME NEW e \in Emitters, B!Emit(e) PROVE Fresh'
  <2>1. /\ emitted' = emitted + 1 /\ B!Counted' = B!Counted
        /\ sending' = [sending EXCEPT ![e] = sink]
        /\ saying' = [saying EXCEPT ![e] = emitted + 1]
    BY <1>4 DEF B!Emit, B!countVars, B!Counted
  <2>2. saying'[e] = emitted + 1 /\ \A f \in Emitters \ {e} :
          saying'[f] = saying[f] /\ sending'[f] = sending[f]
    BY <1>0, <2>1 DEF Sendings
  <2>3. emitted \in Nat /\ emitted + 1 \in 1 .. emitted' /\ emitted + 1 \notin 1 .. emitted
        /\ 1 .. emitted \subseteq 1 .. emitted'
    BY <1>0, <2>1 DEF Sendings
  <2>4. B!Counted' \subseteq 1 .. emitted'
    BY <1>0, <2>1, <2>3 DEF Fresh
  <2>5. ASSUME NEW f \in Emitters, sending'[f] # 0
        PROVE  /\ saying'[f] \in 1 .. emitted' /\ saying'[f] \notin B!Counted'
               /\ \A g \in Emitters \ {f} : sending'[g] # 0 => saying'[g] # saying'[f]
    <3>1. emitted + 1 \notin B!Counted'
      BY <1>0, <2>1, <2>3 DEF Fresh
    <3>2. \A g \in Emitters \ {e} : sending[g] # 0 => saying[g] \in 1 .. emitted
      BY <1>0 DEF Fresh
    <3>3. CASE f = e
      BY <2>2, <2>3, <3>1, <3>2, <3>3
    <3>4. CASE f # e
      <4>1. saying'[f] = saying[f] /\ sending[f] # 0
        BY <2>2, <2>5, <3>4
      <4>2. saying[f] \in 1 .. emitted /\ saying[f] \notin B!Counted'
        BY <1>0, <2>1, <4>1 DEF Fresh
      <4>3. ASSUME NEW g \in Emitters \ {f}, sending'[g] # 0 PROVE saying'[g] # saying'[f]
        BY <1>0, <2>2, <2>3, <4>1, <4>2, <4>3 DEF Fresh
      <4>. QED  BY <2>3, <4>1, <4>2, <4>3
    <3>. QED  BY <3>3, <3>4
  <2>. QED  BY <2>4, <2>5 DEF Fresh
<1>5. ASSUME NEW e \in Emitters, B!Send(e) \/ B!Drop(e) PROVE Fresh'
  <2>1. /\ sending[e] # 0 /\ sending' = [sending EXCEPT ![e] = 0]
        /\ UNCHANGED <<saying, emitted, held, told, unsaid>>
        /\ owed' = owed \/ owed' = owed \cup {saying[e]}
    BY <1>5 DEF B!Send, B!Drop, B!Sent
  <2>2. B!Counted' \subseteq B!Counted \cup {saying[e]}
    BY <2>1, CountedIs
  <2>3. B!Counted' \subseteq 1 .. emitted'
    BY <1>0, <2>1, <2>2 DEF Fresh
  <2>4. \A f \in Emitters : sending'[f] # 0 => f # e /\ sending[f] # 0
    BY <1>0, <2>1 DEF Sendings
  <2>. QED  BY <1>0, <2>1, <2>2, <2>3, <2>4 DEF Fresh
<1>. QED  BY <1>2, <1>3, <1>4, <1>5, NextIs, StillIs, ControlIs

LEMMA TalliedKept ==
  ASSUME LinesInv, [B!Next]_(B!vars) PROVE Tallied'
<1>0. /\ Tallied /\ Opening /\ Fresh /\ B!OneRecord /\ owed \subseteq B!Lines
      /\ held \in [B!Channels -> SUBSET B!Lines] /\ carried \in [B!Channels -> Nat]
      /\ DOMAIN forwarder = B!Channels /\ 1 .. opened \subseteq B!Channels
  <2>1. Tallied /\ Opening /\ Fresh /\ B!OneRecord
    BY DEF LinesInv, Tallied
  <2>2. Counts /\ Queues /\ opened \in 1 .. MaxChannels
    BY Typed DEF LinesInv, Numbers, Slots
  <2>. QED  BY <2>1, <2>2 DEF Counts, Queues
<1>1. ASSUME UNCHANGED <<carried, DROPPED, owed, held, told, unsaid>>,
             \A c \in B!Channels : forwarder[c] = "delivering" => forwarder'[c] = "delivering"
      PROVE  Tallied'
  BY <1>0, <1>1 DEF Tallied, B!OneRecord
<1>2. CASE UNCHANGED moved /\ UNCHANGED forwarder
  BY <1>1, <1>2 DEF moved
<1>3. ASSUME NEW k \in Controllers, B!Spawn(k) PROVE Tallied'
  <2>1. \E state \in {"receiving", "unstarted"} : forwarder' = [forwarder EXCEPT ![mine[k]] = state]
    BY <1>3 DEF B!Spawn, B!Becomes
  <2>2. mine[k] \in B!Channels /\ forwarder[mine[k]] = "none"
    BY <1>0, <1>3 DEF Opening, B!Spawn, B!Continues
  <2>3. \A d \in B!Channels : forwarder[d] = "delivering" => forwarder'[d] = "delivering"
    BY <1>0, <2>1, <2>2
  <2>. QED  BY <1>1, <1>3, <2>3, ControlIs DEF moved
<1>4. ASSUME NEW e \in Emitters, B!Emit(e) \/ B!Send(e) PROVE Tallied'
  <2>1. UNCHANGED <<carried, DROPPED, owed, held, told, unsaid, forwarder>>
    BY <1>4 DEF B!Emit, B!Send, B!Sent, B!forwarderVars, B!countVars
  <2>. QED  BY <1>1, <2>1
<1>5. ASSUME NEW e \in Emitters, B!Drop(e) PROVE Tallied'
  <2>1. /\ sending[e] # 0 /\ DROPPED' = DROPPED + 1 /\ owed' = owed \cup {saying[e]}
        /\ UNCHANGED <<held, told, unsaid, carried, forwarder>>
    BY <1>5 DEF B!Drop, B!Sent
  <2>2. saying[e] \in B!Lines /\ saying[e] \notin B!Counted
    BY <1>0, <2>1, Typed DEF Fresh, LinesInv, Numbers, Sendings
  <2>3. /\ saying[e] \notin owed /\ saying[e] \notin told /\ saying[e] \notin unsaid
        /\ \A c \in B!Channels : saying[e] \notin held[c]
    BY <2>2, CountedIs
  <2>4. DROPPED' = B!Cardinality(owed')
    BY <1>0, <2>1, <2>2, <2>3, CardOneMore DEF Tallied
  <2>5. B!OneRecord'
    BY <1>0, <2>1, <2>3 DEF B!OneRecord
  <2>. QED  BY <1>0, <2>1, <2>4, <2>5 DEF Tallied
<1>6. ASSUME NEW c \in B!Channels, B!Forward(c), ~ B!Enter(c), forwarder[c] # "delivering"
      PROVE  Tallied'
  <2>1. \A d \in B!Channels : forwarder[d] = "delivering" => forwarder'[d] = "delivering"
    BY <1>0, <1>6, ForwardIs
  <2>. QED  BY <1>1, <1>6, <2>1, ForwardIs
<1>7. ASSUME NEW c \in B!Channels, B!Enter(c) PROVE Tallied'
  <2>1. /\ DROPPED' = 0 /\ owed' = {} /\ held' = [held EXCEPT ![c] = owed]
        /\ carried' = [carried EXCEPT ![c] = DROPPED] /\ UNCHANGED <<told, unsaid>>
        /\ forwarder' = [forwarder EXCEPT ![c] = "delivering"] /\ held[c] = {}
    BY <1>0, <1>7 DEF B!Enter, B!Becomes, Tallied
  <2>2. /\ held'[c] = owed /\ carried'[c] = DROPPED
        /\ \A d \in B!Channels \ {c} : held'[d] = held[d] /\ carried'[d] = carried[d]
                                       /\ forwarder'[d] = forwarder[d]
    BY <1>0, <2>1
  <2>3. B!OneRecord'
    BY <1>0, <2>1, <2>2 DEF B!OneRecord
  <2>4. B!Cardinality({}) = 0
    BY Card, FS_EmptySet
  <2>5. \A d \in B!Channels : carried'[d] = B!Cardinality(held'[d])
    BY <1>0, <2>2 DEF Tallied
  <2>6. \A d \in B!Channels : forwarder'[d] # "delivering" => held'[d] = {}
    BY <1>0, <2>1, <2>2 DEF Tallied
  <2>. QED  BY <2>1, <2>3, <2>4, <2>5, <2>6 DEF Tallied
<1>8. ASSUME NEW c \in B!Channels, B!Deliver(c) \/ B!DeliveryFails(c) PROVE Tallied'
  <2>1. /\ UNCHANGED <<DROPPED, owed>> /\ held' = [held EXCEPT ![c] = {}]
        /\ carried' = [carried EXCEPT ![c] = 0]
        /\ \/ told' = told \cup held[c] /\ unsaid' = unsaid
           \/ unsaid' = unsaid \cup held[c] /\ told' = told
        /\ forwarder' = [forwarder EXCEPT ![c] = "receiving"]
    BY <1>8 DEF B!Deliver, B!DeliveryFails, B!Delivered, B!Becomes
  <2>2. /\ held'[c] = {} /\ carried'[c] = 0
        /\ \A d \in B!Channels \ {c} : held'[d] = held[d] /\ carried'[d] = carried[d]
                                       /\ forwarder'[d] = forwarder[d]
    BY <1>0, <2>1
  <2>3. B!OneRecord'
    BY <1>0, <2>1, <2>2 DEF B!OneRecord
  <2>4. B!Cardinality({}) = 0
    BY Card, FS_EmptySet
  <2>5. \A d \in B!Channels : carried'[d] = B!Cardinality(held'[d])
    BY <1>0, <2>2, <2>4 DEF Tallied
  <2>6. \A d \in B!Channels : forwarder'[d] # "delivering" => held'[d] = {}
    BY <1>0, <2>2 DEF Tallied
  <2>. QED  BY <1>0, <2>1, <2>3, <2>5, <2>6 DEF Tallied
<1>9. ASSUME NEW c \in B!Channels, B!Forward(c) PROVE Tallied'
  <2>1. forwarder[c] = "delivering" /\ ~ B!Enter(c) => B!Deliver(c) \/ B!DeliveryFails(c)
    BY <1>9 DEF B!Forward, B!Receive, B!Hangup, B!Discard, B!Proceed, B!Refused
  <2>. QED  BY <1>6, <1>7, <1>8, <1>9, <2>1
<1>. QED  BY <1>2, <1>3, <1>4, <1>5, <1>9, NextIs, StillIs, ControlIs

-----------------------------------------------------------------------------

\* A call that stops nothing ends with the bridge it found.
LEMMA ServingKept ==
  ASSUME LinesInv, Serving, [B!Next]_(B!vars), ~ stopped'
  PROVE  Serving'
<1>0. Serving /\ Controls
  BY Typed DEF LinesInv, Numbers
<1>1. ASSUME NEW k \in Controllers, Control(k) \/ B!Spawn(k) PROVE Serving'
  <2>1. ~ B!ClearSink(k) /\ ~ B!TakeSender(k) /\ ~ B!Open(k) /\ ~ B!SetSink(k)
        /\ ~ B!Spawn(k) /\ ~ B!Stop(k)
    BY <1>0 DEF Serving, B!ClearSink, B!TakeSender, B!Open, B!SetSink, B!Spawn, B!Continues, B!Stop
  <2>2. /\ ~ CLOSING' /\ UNCHANGED <<gate, SENDER>>
        /\ \E s \in {"idle", "installing"} : at' = [at EXCEPT ![k] = s]
    BY <1>0, <1>1, <2>1 DEF Serving, Control, B!Start, B!SetLevel, B!AlreadyInstalled,
                            B!Continues, B!Goto
  <2>. QED  BY <1>0, <2>2 DEF Serving, Controls
<1>2. ASSUME NEW e \in Emitters, B!Emit(e) \/ B!Send(e) \/ B!Drop(e) PROVE Serving'
  BY <1>0, <1>2, EmitterIs DEF Serving
<1>3. ASSUME NEW c \in B!Channels, B!Forward(c) PROVE Serving'
  BY <1>0, <1>3, ForwardIs DEF Serving
<1>. QED  BY <1>0, <1>1, <1>2, <1>3, NextIs, StillIs DEF Serving

\* What was once stopped stays so.
LEMMA StoppedStays == ASSUME [B!Next]_(B!vars), stopped PROVE stopped'
<1>1. ASSUME NEW k \in Controllers, Control(k) \/ B!Spawn(k) PROVE stopped'
  BY <1>1 DEF Control, B!Stop, B!Start, B!SetLevel, B!ClearSink, B!TakeSender,
    B!AlreadyInstalled, B!Open, B!SetSink, B!Spawn, B!Continues
<1>. QED  BY <1>1, NextIs, StillIs, EmitterIs, ForwardIs

\* A step leaves no line nowhere, and discards one only after something was stopped.
LEMMA LocatedKept ==
  ASSUME LinesInv, [B!Next]_(B!vars)
  PROVE  Located'
<1>0. /\ Located /\ Tallied /\ Fresh /\ Untouched /\ Queues /\ Sendings
      /\ \A n \in 1 .. emitted : Somewhere(n)
  BY Typed DEF LinesInv, Numbers, Located
<1>1. SUFFICES \A n \in 1 .. emitted' : Somewhere(n)'
  <2>1. ASSUME NEW c \in B!Channels, B!Discard(c) \/ B!Refused(c) PROVE stopped
    BY <2>1 DEF LinesInv, Serving, B!Discard, B!Refused
  <2>2. UNCHANGED discarded \/ stopped
    BY <2>1, NextIs, StillIs, ControlIs, EmitterIs, ForwardIs DEF moved
  <2>. QED  BY <1>0, <2>2, StoppedStays DEF Located
<1>2. CASE UNCHANGED moved /\ UNCHANGED forwarder
  BY <1>0, <1>2 DEF moved, Somewhere, B!InSink, B!InChannel, B!Disconnected, B!Counted
<1>3. ASSUME NEW k \in Controllers, B!Spawn(k), NEW n \in 1 .. emitted'
      PROVE  Somewhere(n)'
  <2>1. /\ UNCHANGED moved /\ mine[k] \in B!Channels /\ forwarder[mine[k]] = "none"
        /\ \A c \in B!Channels \ {mine[k]} : forwarder'[c] = forwarder[c]
    <3>1. \E state : forwarder' = [forwarder EXCEPT ![mine[k]] = state]
      BY <1>3 DEF B!Spawn, B!Becomes
    <3>2. mine[k] \in B!Channels /\ forwarder[mine[k]] = "none"
      BY <1>3, Typed DEF LinesInv, Numbers, Slots, Opening, B!Spawn, B!Continues
    <3>. QED  BY <1>0, <1>3, <3>1, <3>2, ControlIs DEF Queues
  <2>2. queue[mine[k]] = <<>> /\ line[mine[k]] = 0
    BY <1>0, <2>1 DEF Untouched
  <2>3. Somewhere(n)
    BY <1>0, <2>1 DEF moved
  <2>4. CASE B!InChannel(n)
    <3>1. PICK c \in B!Channels :
            /\ ~ B!Disconnected(c)
            /\ \/ \E i \in DOMAIN queue[c] : queue[c][i] = n
               \/ forwarder[c] # "receiving" /\ line[c] = n
      BY <2>4 DEF B!InChannel
    <3>2. c # mine[k]
      BY <2>2, <3>1
    <3>. QED  BY <2>1, <3>1, <3>2 DEF moved, Somewhere, B!InChannel, B!Disconnected
  <2>5. CASE n \in handled \cup B!Counted \cup discarded \/ B!InSink(n)
    BY <2>1, <2>5 DEF moved, Somewhere, B!InSink, B!Counted
  <2>. QED  BY <2>3, <2>4, <2>5 DEF Somewhere
<1>4. ASSUME NEW e \in Emitters, B!Emit(e), NEW n \in 1 .. emitted' PROVE Somewhere(n)'
  <2>1. /\ emitted' = emitted + 1 /\ sending[e] = 0 /\ sink # 0
        /\ sending' = [sending EXCEPT ![e] = sink]
        /\ saying' = [saying EXCEPT ![e] = emitted + 1]
        /\ UNCHANGED <<queue, forwarder, line, owed, held, told, unsaid, handled, discarded>>
    BY <1>4 DEF B!Emit, B!countVars, B!forwarderVars, B!ends
  <2>2. sending'[e] = sink /\ saying'[e] = emitted + 1 /\ \A f \in Emitters \ {e} :
          saying'[f] = saying[f] /\ sending'[f] = sending[f]
    BY <1>0, <2>1 DEF Sendings
  <2>3. CASE n = emitted + 1
    BY <2>1, <2>2, <2>3 DEF Somewhere, B!InSink
  <2>4. CASE n # emitted + 1
    <3>1. n \in 1 .. emitted
      BY <1>0, <2>1, <2>4 DEF Sendings
    <3>2. Somewhere(n)
      BY <1>0, <3>1
    <3>3. CASE n \in handled \cup B!Counted \cup discarded
      BY <2>1, <3>3 DEF Somewhere, B!Counted
    <3>4. CASE B!InSink(n)
      BY <2>1, <2>2, <3>4 DEF Somewhere, B!InSink
    <3>5. CASE B!InChannel(n)
      BY <2>1, <3>5 DEF Somewhere, B!InChannel, B!Disconnected
    <3>. QED  BY <3>2, <3>3, <3>4, <3>5 DEF Somewhere
  <2>. QED  BY <2>3, <2>4
<1>5. ASSUME NEW e \in Emitters, B!Send(e) \/ B!Drop(e), NEW n \in 1 .. emitted'
      PROVE  Somewhere(n)'
  <2>1. /\ sending[e] # 0 /\ sending' = [sending EXCEPT ![e] = 0]
        /\ UNCHANGED <<saying, emitted, forwarder, line, handled, discarded, held, told, unsaid>>
        /\ sending[e] \in B!Channels
    BY <1>0, <1>5 DEF B!Send, B!Drop, B!Sent, B!ends, Sendings
  <2>2. Somewhere(n)
    BY <1>0, <2>1
  <2>3. \A f \in Emitters \ {e} : sending'[f] = sending[f]
    BY <1>0, <2>1 DEF Sendings
  <2>4. CASE n \in handled \cup B!Counted \cup discarded
    <3>1. owed \subseteq owed'
      BY <1>5 DEF B!Send, B!Drop
    <3>. QED  BY <2>1, <2>4, <3>1, CountedIs DEF Somewhere
  <2>5. CASE B!InSink(n) /\ saying[e] # n
    BY <2>1, <2>3, <2>5 DEF Somewhere, B!InSink
  <2>6. CASE saying[e] = n /\ B!Send(e)
    <3>1. DEFINE c == sending[e]
    <3>2. /\ queue'[c] = Append(queue[c], n) /\ ~ B!Disconnected(c)
          /\ queue[c] \in Seq(B!Lines)
      BY <1>0, <2>1, <2>6 DEF B!Send, Queues
    <3>3. Len(queue[c]) + 1 \in DOMAIN queue'[c] /\ queue'[c][Len(queue[c]) + 1] = n
      BY <3>2
    <3>. QED  BY <2>1, <3>2, <3>3 DEF Somewhere, B!InChannel, B!Disconnected
  <2>7. CASE saying[e] = n /\ B!Drop(e)
    <3>1. n \in owed'
      BY <2>7 DEF B!Drop
    <3>. QED  BY <3>1, CountedIs DEF Somewhere
  <2>8. CASE B!InChannel(n)
    <3>1. PICK c \in B!Channels :
            /\ ~ B!Disconnected(c)
            /\ \/ \E i \in DOMAIN queue[c] : queue[c][i] = n
               \/ forwarder[c] # "receiving" /\ line[c] = n
      BY <2>8 DEF B!InChannel
    <3>2. \A i \in DOMAIN queue[c] : i \in DOMAIN queue'[c] /\ queue'[c][i] = queue[c][i]
      <4>1. CASE B!Drop(e) \/ c # sending[e]
        BY <1>0, <1>5, <4>1 DEF B!Drop, B!Send, Queues
      <4>2. CASE B!Send(e) /\ c = sending[e]
        <5>1. queue'[c] = Append(queue[c], saying[e]) /\ queue[c] \in Seq(B!Lines)
          BY <1>0, <4>2 DEF B!Send, Queues
        <5>. QED  BY <5>1
      <4>. QED  BY <1>5, <4>1, <4>2
    <3>3. ~ B!Disconnected(c)'
      BY <2>1, <3>1 DEF B!Disconnected
    <3>. QED  BY <2>1, <3>1, <3>2, <3>3 DEF Somewhere, B!InChannel
  <2>. QED  BY <1>5, <2>2, <2>4, <2>5, <2>6, <2>7, <2>8 DEF Somewhere
<1>6. ASSUME NEW c \in B!Channels, B!Forward(c), NEW n \in 1 .. emitted'
      PROVE  Somewhere(n)'
  <2>1. /\ UNCHANGED <<sending, saying, emitted>> /\ B!Counted' = B!Counted
        /\ handled \subseteq handled' /\ discarded \subseteq discarded' /\ Somewhere(n)
    <3>1. UNCHANGED <<sending, saying, emitted>> /\ B!Counted' = B!Counted
      BY <1>6, ForwardIs, CountedMoves
    <3>2. handled \subseteq handled'
      BY <1>6 DEF B!Forward, B!Receive, B!Hangup, B!Discard, B!Proceed, B!Refused, B!Enter,
                  B!Deliver, B!DeliveryFails, B!Delivered, B!ends
    <3>3. discarded \subseteq discarded'
      BY <1>6, ForwardIs DEF B!Discard, B!Refused
    <3>. QED  BY <1>0, <3>1, <3>2, <3>3
  <2>2. CASE n \in handled \cup B!Counted \cup discarded \/ B!InSink(n)
    BY <2>1, <2>2 DEF Somewhere, B!InSink
  <2>3. ASSUME NEW d \in B!Channels, ~ B!Disconnected(d),
               \/ \E i \in DOMAIN queue[d] : queue[d][i] = n
               \/ forwarder[d] # "receiving" /\ line[d] = n
        PROVE  Somewhere(n)'
    <3>1. CASE d # c
      <4>1. queue'[d] = queue[d] /\ forwarder'[d] = forwarder[d] /\ line'[d] = line[d]
        BY <1>0, <1>6, <3>1 DEF B!Forward, B!Receive, B!Hangup, B!Discard, B!Proceed,
          B!Refused, B!Enter, B!Deliver, B!DeliveryFails, B!Delivered, B!Becomes, Queues
      <4>. QED  BY <2>3, <4>1 DEF Somewhere, B!InChannel, B!Disconnected
    <3>2. CASE d = c /\ B!Receive(c)
      <4>1. /\ queue[c] \in Seq(B!Lines) /\ queue[c] # <<>> /\ forwarder[c] = "receiving"
            /\ queue'[c] = Tail(queue[c]) /\ line'[c] = Head(queue[c])
            /\ forwarder'[c] = "received"
        BY <1>0, <3>2 DEF B!Receive, B!Becomes, Queues
      <4>2. PICK i \in DOMAIN queue[c] : queue[c][i] = n
        BY <2>3, <3>2, <4>1
      <4>3. CASE i = 1
        <5>1. line'[c] = n
          BY <4>1, <4>2, <4>3
        <5>. QED  BY <4>1, <5>1 DEF Somewhere, B!InChannel, B!Disconnected
      <4>4. CASE i # 1
        <5>1. Len(queue[c]) \in Nat /\ i \in 1 .. Len(queue[c])
          BY <4>1, <4>2
        <5>2. i - 1 \in 1 .. (Len(queue[c]) - 1) /\ (i - 1) + 1 = i
          BY <4>4, <5>1
        <5>3. DOMAIN queue'[c] = 1 .. (Len(queue[c]) - 1) /\ queue'[c][i - 1] = queue[c][i]
          BY <4>1, <5>2
        <5>. QED  BY <4>1, <4>2, <5>2, <5>3 DEF Somewhere, B!InChannel, B!Disconnected
      <4>. QED  BY <4>3, <4>4
    <3>3. CASE d = c /\ B!Discard(c)
      <4>1. n \in discarded'
        BY <2>3, <3>3 DEF B!Discard
      <4>. QED  BY <4>1 DEF Somewhere
    <3>7. CASE d = c /\ B!Refused(c)
      <4>1. /\ UNCHANGED queue /\ forwarder'[c] = "receiving" /\ line[c] \in discarded'
        BY <1>0, <3>7 DEF B!Refused, B!Becomes, Queues
      <4>. QED  BY <2>3, <3>7, <4>1 DEF Somewhere, B!InChannel, B!Disconnected
    <3>4. CASE d = c /\ (B!Proceed(c) \/ B!Enter(c))
      <4>1. /\ UNCHANGED <<queue, line>> /\ forwarder'[c] \in {"attaching", "delivering"}
        BY <1>0, <3>4 DEF B!Proceed, B!Enter, B!Becomes, Queues
      <4>2. forwarder[c] # "receiving"
        BY <3>4 DEF B!Proceed, B!Enter
      <4>. QED  BY <2>3, <3>4, <4>1, <4>2 DEF Somewhere, B!InChannel, B!Disconnected
    <3>5. CASE d = c /\ B!Hangup(c)
      <4>1. queue[c] = <<>> /\ forwarder[c] = "receiving"
        BY <3>5 DEF B!Hangup
      <4>. QED  BY <2>3, <3>5, <4>1
    <3>6. CASE d = c /\ (B!Deliver(c) \/ B!DeliveryFails(c))
      <4>1. /\ UNCHANGED <<queue, line>> /\ forwarder'[c] = "receiving"
            /\ line[c] \in handled'
        BY <1>0, <3>6 DEF B!Deliver, B!DeliveryFails, B!Delivered, B!Becomes, Queues
      <4>. QED  BY <2>3, <3>6, <4>1 DEF Somewhere, B!InChannel, B!Disconnected
    <3>. QED  BY <1>6, <3>1, <3>2, <3>3, <3>4, <3>5, <3>6, <3>7 DEF B!Forward
  <2>. QED  BY <2>1, <2>2, <2>3 DEF Somewhere, B!InChannel
<1>. QED  BY <1>2, <1>3, <1>4, <1>5, <1>6, NextIs, StillIs, ControlIs

\* The invariant of the lines, with a GIL or without.
THEOREM LinesInvariant == B!Spec => []LinesInv
<1>1. ASSUME LinesInv, [B!Next]_(B!vars) PROVE LinesInv'
  <2>1. ~ stopped' => Serving'
    BY <1>1, ServingKept, StoppedStays DEF LinesInv
  <2>. QED
    BY <1>1, <2>1, TypesKept, FreshKept, TalliedKept, OpeningKept, UntouchedKept, HoldingKept,
       LocatedKept DEF LinesInv
<1>. QED  BY <1>1, BridgeInit, PTL DEF B!Spec

-----------------------------------------------------------------------------

\* Under a GIL a call of configure_logging ends before the next begins.
OneAtATime == \A k, j \in Controllers : at[k] # "idle" /\ at[j] # "idle" => k = j

\* The channel in the slot has a forwarder that has not ended.
Voiced == SENDER # 0 => forwarder[SENDER] \notin {"none", "gone"}

\* What each step of a stop or a start finds in the slot, the sink and the flag.
InForce(k) ==
    /\ at[k] = "clearing" => CLOSING /\ sink = SENDER
    /\ at[k] = "taking" => CLOSING /\ sink = 0
    /\ at[k] = "installing" => ~ CLOSING /\ sink = SENDER /\ Voiced
    /\ at[k] = "spawning" => ~ CLOSING /\ SENDER = mine[k]
    /\ at[k] = "sinking" => ~ CLOSING /\ SENDER = mine[k] /\ Voiced

VoiceInv == OneAtATime /\ B!NeverMute /\ \A k \in Controllers : InForce(k)

LEMMA VoiceInit == B!Init => VoiceInv
  BY DEF B!Init, VoiceInv, OneAtATime, InForce, B!NeverMute, B!Channels

\* The steps that leave the bridge as it is.
LEMMA VoiceIdle ==
  ASSUME VoiceInv, UNCHANGED <<CLOSING, SENDER, sink, at, mine, forwarder>>
  PROVE  VoiceInv'
  BY DEF VoiceInv, OneAtATime, InForce, Voiced, B!NeverMute

\* A forwarder ends when the flag is up, or when the slot has let its channel go.
LEMMA VoiceForward ==
  ASSUME VoiceInv, LinesInv, NEW c \in B!Channels, B!Forward(c)
  PROVE  VoiceInv'
<1>1. UNCHANGED <<CLOSING, SENDER, sink, at, mine>>
  BY ForwardIs
<1>2. forwarder'[c] = "gone" => CLOSING \/ SENDER # c
  <2>1. CASE B!Hangup(c) \/ B!Discard(c)
    BY <2>1 DEF B!Hangup, B!Discard
  <2>2. CASE ~ B!Hangup(c) /\ ~ B!Discard(c)
    <3>1. Queues
      BY Typed DEF LinesInv, Numbers
    <3>. QED  BY <2>2, <3>1 DEF Queues, B!Forward, B!Receive, B!Proceed, B!Refused, B!Enter,
      B!Deliver, B!DeliveryFails, B!Becomes
  <2>. QED  BY <2>1, <2>2
<1>3. /\ forwarder'[c] # "none"
      /\ \A d : d # c => forwarder'[d] = forwarder[d]
  <2>1. PICK state \in {"received", "gone", "attaching", "receiving", "delivering"} :
          forwarder' = [forwarder EXCEPT ![c] = state]
    BY ForwardIs
  <2>2. Queues
    BY Typed DEF LinesInv, Numbers
  <2>. QED  BY <2>1, <2>2 DEF Queues
<1>4. ~ CLOSING /\ Voiced => Voiced'
  BY <1>1, <1>2, <1>3 DEF Voiced
<1>5. B!NeverMute'
  BY <1>1, <1>2, <1>3 DEF VoiceInv, B!NeverMute
<1>6. ASSUME NEW k \in Controllers PROVE InForce(k)'
  BY <1>1, <1>4 DEF VoiceInv, InForce
<1>. QED  BY <1>1, <1>5, <1>6 DEF VoiceInv, OneAtATime

\* A call begins between two calls, and no other runs until it ends.
LEMMA CallAlone ==
  ASSUME HasGIL, VoiceInv, LinesInv, NEW k \in Controllers, Control(k) \/ B!Spawn(k)
  PROVE  /\ at \in [Controllers -> {"idle", "clearing", "taking", "installing",
                                      "spawning", "sinking"}]
         /\ mine \in [Controllers -> 0..MaxChannels]
         /\ \A j \in Controllers \ {k} : at[j] = "idle"
         /\ at[k] = "idle" => sink = SENDER /\ (sink # 0 => ~ CLOSING) /\ Voiced
         /\ \E s : at' = [at EXCEPT ![k] = s]
<1>1. Controls
  BY Typed DEF LinesInv, Numbers
<1>2. at[k] = "idle" => \A j \in Controllers \ {k} : at[j] = "idle"
  <2>1. CASE B!Stop(k) \/ B!Start(k) \/ B!SetLevel(k)
    BY <2>1 DEF B!Stop, B!Start, B!SetLevel, B!Calls, B!Attached
  <2>2. CASE B!ClearSink(k) \/ B!TakeSender(k) \/ B!AlreadyInstalled(k)
    BY <2>2 DEF B!ClearSink, B!TakeSender, B!AlreadyInstalled, B!Continues
  <2>3. CASE B!Open(k) \/ B!Spawn(k) \/ B!SetSink(k)
    BY <2>3 DEF B!Open, B!Spawn, B!SetSink, B!Continues
  <2>. QED  BY <2>1, <2>2, <2>3 DEF Control
<1>3. \A j \in Controllers \ {k} : at[j] = "idle"
  BY <1>2 DEF VoiceInv, OneAtATime
<1>4. at[k] = "idle" => sink = SENDER /\ (sink # 0 => ~ CLOSING) /\ Voiced
  BY <1>3 DEF VoiceInv, B!NeverMute, Voiced
<1>5. \E s : at' = [at EXCEPT ![k] = s]
  BY DEF Control, B!Stop, B!Start, B!SetLevel, B!ClearSink, B!TakeSender, B!AlreadyInstalled,
         B!Open, B!Spawn, B!SetSink, B!Goto, B!Continues
<1>. QED  BY <1>1, <1>3, <1>4, <1>5 DEF Controls

\* The forwarder of the channel in the slot is what it was, or is started.
LEMMA VoiceCall ==
  ASSUME HasGIL, VoiceInv, LinesInv, NEW k \in Controllers, Control(k) \/ B!Spawn(k)
  PROVE  VoiceInv'
<1>0. /\ \A j \in Controllers \ {k} : at[j] = "idle" /\ at'[j] = "idle"
      /\ at[k] = "idle" => sink = SENDER /\ (sink # 0 => ~ CLOSING) /\ Voiced
      /\ k \in DOMAIN at /\ k \in DOMAIN mine /\ InForce(k)
  BY CallAlone DEF VoiceInv
<1>1. SUFFICES /\ InForce(k)'
               /\ at'[k] = "idle" => sink' = SENDER' /\ (sink' # 0 => ~ CLOSING' /\ Voiced')
  BY <1>0 DEF VoiceInv, OneAtATime, InForce, B!NeverMute, Voiced
<1>2. Control(k) => UNCHANGED forwarder
  BY ControlIs DEF moved
<1>3. Control(k) /\ UNCHANGED SENDER => (Voiced <=> Voiced')
  BY <1>2 DEF Voiced
<1>. USE <1>0 DEF InForce, B!Calls, B!Goto, B!Continues
<1>4. CASE B!Stop(k) \/ B!Start(k)
  BY <1>3, <1>4 DEF B!Stop, B!Start, Control
<1>5. CASE B!SetLevel(k)
  BY <1>3, <1>5 DEF B!SetLevel, Control
<1>6. CASE B!ClearSink(k) \/ B!TakeSender(k)
  BY <1>3, <1>6 DEF B!ClearSink, B!TakeSender, Control
<1>7. CASE B!AlreadyInstalled(k)
  BY <1>3, <1>7 DEF B!AlreadyInstalled, Control
<1>8. CASE B!Open(k)
  BY <1>8 DEF B!Open
<1>9. CASE B!Spawn(k)
  <2>1. PICK state \in {"receiving", "unstarted"} :
          forwarder' = [forwarder EXCEPT ![mine[k]] = state]
    BY <1>9 DEF B!Spawn, B!Becomes
  <2>2. at[k] = "spawning" /\ mine[k] \in DOMAIN forwarder
    <3>1. at[k] = "spawning"
      BY <1>9 DEF B!Spawn
    <3>2. mine[k] \in 1 .. opened /\ Slots /\ Queues
      BY <3>1, Typed DEF LinesInv, Numbers, Opening
    <3>. QED  BY <3>1, <3>2 DEF Slots, Queues
  <2>3. SENDER = mine[k] /\ ~ CLOSING /\ UNCHANGED <<SENDER, mine, CLOSING>>
    BY <1>9, <2>2 DEF B!Spawn
  <2>4. Voiced'
    BY <2>1, <2>2, <2>3 DEF Voiced
  <2>. QED  BY <1>9, <2>3, <2>4 DEF B!Spawn
<1>10. CASE B!SetSink(k)
  BY <1>3, <1>10 DEF B!SetSink, Control
<1>. QED  BY <1>4, <1>5, <1>6, <1>7, <1>8, <1>9, <1>10 DEF Control

\* With a GIL the engine is never left with a sink whose forwarder has ended.
THEOREM VoiceInvariant == ASSUME HasGIL PROVE B!Spec => []VoiceInv
<1>1. ASSUME LinesInv, VoiceInv, [B!Next]_(B!vars) PROVE VoiceInv'
  <2>1. CASE UNCHANGED B!vars \/ B!ShutGate
    BY <1>1, <2>1, VoiceIdle DEF B!vars, B!ShutGate, B!bridgeVars, B!controlVars,
                                 B!forwarderVars
  <2>2. ASSUME NEW e \in Emitters, B!Emit(e) \/ B!Send(e) \/ B!Drop(e) PROVE VoiceInv'
    BY <1>1, <2>2, VoiceIdle, EmitterIs
  <2>3. ASSUME NEW c \in B!Channels, B!Forward(c) PROVE VoiceInv'
    BY <1>1, <2>3, VoiceForward
  <2>. QED  BY <1>1, <2>1, <2>2, <2>3, NextIs, VoiceCall
<1>. QED  BY <1>1, VoiceInit, LinesInvariant, PTL DEF B!Spec

-----------------------------------------------------------------------------
(* The program.                                                            *)

HIDE DEF B!BridgeAssumption, B!Channels, B!Lines

\* What a program does is what each of its parts allows.
LEMMA ProgramSteps == Program => Spec /\ E!Spec /\ B!Spec
<1>1. ProgramInit => Init /\ E!Init /\ B!Init
  BY DEF ProgramInit
<1>2. [ProgramNext]_<<uses, vars, ofExecutors, ofBridge>> => [Next]_vars
  BY DEF ProgramNext
<1>3. [ProgramNext]_<<uses, vars, ofExecutors, ofBridge>> => [E!Next]_(E!vars)
  BY DEF ProgramNext, ofExecutors, E!vars, E!globals, E!history
<1>4. [ProgramNext]_<<uses, vars, ofExecutors, ofBridge>> => [B!Next]_(B!vars)
  BY DEF ProgramNext, ofBridge, B!vars, B!bridgeVars, B!forwarderVars, B!emitterVars,
         B!controlVars, B!countVars, B!ends
<1>. QED  BY <1>1, <1>2, <1>3, <1>4, PTL DEF Program, Spec, E!Spec, B!Spec

\* An asynchronous call never meets a pool that was shut down unless two blocks
\* crossed, and a caller's pool is never shut down, for any number of tasks and pools
\* and blocks of any depth (set_executor, executor, _shutdown_owned).
THEOREM PoolIsLiveThm == Program => []PoolIsLive
<1>. QED  BY PoolInvariant, LiveOfPool, ProgramSteps, PTL

\* A pool that was built here and that nobody took over is shut down when the program
\* ends, unless blocks crossed or configure_executor() was called inside one
\* (configure_executor, executor, _shutdown_owned).
THEOREM PoolsEndThm == Program => []PoolsEnd
<1>. QED  BY PoolInvariant, EndOfPool, ProgramSteps, PTL

\* In a whole program, too, overrides() leaves no trace (overrides).
THEOREM ProgramLeavesNoTrace == Program => BlocksLeaveNoTrace
<1>. QED  BY BlocksLeaveNoTraceThm, ProgramSteps, PTL

\* Each line dropped is in the count of one record, DROPPED is the number of those no
\* record took over yet, and each line is on its way, handled, counted or discarded, as
\* none is until something is stopped, whatever the threads, however often the bridge
\* is stopped and started again, and with a GIL or without (deliver, install, forward).
THEOREM SilenceIsToldThm == Program => []SilenceIsTold
<1>1. LinesInv => SilenceIsTold
  BY DEF LinesInv, Tallied, Located, Somewhere, SilenceIsTold, B!SilenceIsTold
<1>. QED  BY <1>1, LinesInvariant, ProgramSteps, PTL

\* With a GIL, between two calls of configure_logging the engine has no sink, or one
\* that sends to the channel in the slot, is not turned away by the flag, and whose
\* forwarder has not ended, if its thread could be started at all: for any threads, lines
\* and restarts (_stop_log_bridge, _start_log_bridge, forward).
THEOREM NeverMuteThm == ASSUME HasGIL PROVE Program => []NeverMute
<1>1. VoiceInv => NeverMute
  BY DEF VoiceInv, NeverMute
<1>. QED  BY <1>1, VoiceInvariant, ProgramSteps, PTL

-----------------------------------------------------------------------------
(* The decorator (Decorator).                                              *)

\* The plain classes decorated are those with readers of their own.
ReadersInv ==
    /\ attached \subseteq Classes
    /\ readers = {m \in attached : ~Delegates(m)}

\* A set of naturals has a least element.
LEMMA Least ==
    ASSUME NEW T \in SUBSET Nat, T # {}
    PROVE  \E m \in T : \A k \in T : m <= k
<1> DEFINE R == OpToRel(<, Nat)
<1>1. IsWellFoundedOn(R, Nat)
  BY NatLessThanWellFounded
<1>2. PICK m \in T : \A k \in T : ~(<<k, m>> \in R)
  <2> HIDE DEF R
  <2> QED
    BY <1>1, WFMin
<1>3. \A k \in T : k \in Nat /\ m \in Nat /\ ~(k < m)
  BY <1>2 DEF OpToRel
<1> HIDE DEF R
<1>4. QED
  BY <1>2, <1>3

\* Attribute lookup finds the first class there is, when there is one.
LEMMA FirstIsFound ==
  ASSUME NEW c \in Classes, NEW S, Found(c, S)
  PROVE  /\ Place(c, S) \in DOMAIN Mro(c)
         /\ First(c, S) \in S
         /\ \A j \in DOMAIN Mro(c) : Mro(c)[j] \in S => Place(c, S) <= j
<1> DEFINE places == {i \in DOMAIN Mro(c) : Mro(c)[i] \in S}
<1>1. places \subseteq Nat /\ places # {}
  BY MroAssumption DEF Found
<1>2. \E i \in places : \A j \in places : i <= j
  BY <1>1, Least
<1> QED BY <1>2 DEF Place, First

\* ... and the first of a larger set is the first of the smaller one when it is
\* a member of that.
LEMMA FirstOfLess ==
  ASSUME NEW c \in Classes, NEW S, NEW T, T \subseteq S, Found(c, S), First(c, S) \in T
  PROVE  First(c, T) = First(c, S)
<1>1. Place(c, S) \in DOMAIN Mro(c) /\ Mro(c)[Place(c, S)] \in T
  BY FirstIsFound DEF First
<1>2. Found(c, T)
  BY <1>1 DEF Found
<1>3. Place(c, T) <= Place(c, S) /\ Place(c, S) <= Place(c, T)
  <2>1. Place(c, T) \in DOMAIN Mro(c) /\ First(c, T) \in S
    BY <1>2, FirstIsFound
  <2> QED BY <1>1, <1>2, <2>1, FirstIsFound DEF First
<1>4. Place(c, T) \in Nat /\ Place(c, S) \in Nat
  BY <1>1, <1>2, FirstIsFound, MroAssumption
<1> QED BY <1>3, <1>4 DEF First

LEMMA ReadersInit == NoneAttached => ReadersInv
  BY DEF NoneAttached, ReadersInv

LEMMA ReadersStep == ReadersInv /\ [\E c \in Classes : Attach(c)]_classVars => ReadersInv'
<1> SUFFICES ASSUME ReadersInv, [\E c \in Classes : Attach(c)]_classVars PROVE ReadersInv'
  OBVIOUS
<1>1. ASSUME NEW c \in Classes, Attach(c) PROVE ReadersInv'
  BY <1>1 DEF ReadersInv, Attach, OwnReaders
<1>2. CASE UNCHANGED classVars
  BY <1>2 DEF ReadersInv, classVars
<1> QED BY <1>1, <1>2

LEMMA ReadersSuffice == ReadersInv => ReadersAnswerTheirOwn
<1> SUFFICES ASSUME ReadersInv, NEW c \in Classes, Found(c, attached), ~Eclipsed(c)
             PROVE  ReadBy(c) = First(c, attached)
  BY DEF ReadersAnswerTheirOwn
<1> DEFINE plain == {m \in attached : ~Delegates(m)}
           nearest == First(c, attached)
           found == First(c, plain \cup {"Configured"})
<1>1. readers = plain
  BY DEF ReadersInv
\* The nearest decorated class is plain, or Configured is on the mro.
<1>2. nearest \in attached /\ nearest \in Classes \cap Range(Mro(c))
  BY FirstIsFound DEF ReadersInv, Range, First
<1>3. CASE found = "Configured"
  BY <1>1, <1>3 DEF ReadBy
<1>4. CASE found # "Configured" /\ ~Delegates(nearest)
  <2>1. nearest \in plain
    BY <1>2, <1>4
  <2>2. First(c, plain) = nearest
    BY <2>1, FirstOfLess
  <2> QED BY <1>1, <1>4, <2>2 DEF ReadBy
<1>5. CASE found # "Configured" /\ Delegates(nearest)
  BY <1>5 DEF Eclipsed
<1> QED BY <1>3, <1>4, <1>5

\* Whatever family of classes is decorated, in whatever order, c.current() reads
\* the configuration of the nearest decorated class, but where readers bound to
\* another class stand before those of Configured (dynamic_config's decorate).
THEOREM ReadersThm == Decorating => []ReadersAnswerTheirOwn
<1> QED BY ReadersInit, ReadersStep, ReadersSuffice, PTL DEF Decorating

\* And there it never is: the exception is no wider than it has to be (dynamic_config's
\* decorate, `if not issubclass(model, Configured)`).
THEOREM EclipsedReadAnotherThm ==
  Decorating => [](\A c \in Classes :
                     Found(c, attached) /\ Eclipsed(c) => ReadBy(c) # First(c, attached))
<1> DEFINE Another == \A c \in Classes :
                         Found(c, attached) /\ Eclipsed(c) => ReadBy(c) # First(c, attached)
<1>1. ReadersInv => Another
  <2> SUFFICES ASSUME ReadersInv, NEW c \in Classes, Found(c, attached), Eclipsed(c)
               PROVE  ReadBy(c) # First(c, attached)
    OBVIOUS
  <2> DEFINE either == readers \cup {"Configured"}
  <2>1. readers = {m \in attached : ~Delegates(m)}
    BY DEF ReadersInv
  <2>2. Delegates(First(c, attached)) /\ First(c, either) # "Configured"
    BY <2>1 DEF Eclipsed
  <2>3. First(c, attached) \in Classes \cap Range(Mro(c))
    BY FirstIsFound DEF ReadersInv, Range, First
  <2>4. Found(c, either)
    <3>1. "Configured" \in Range(Mro(c))
      BY <2>2, <2>3, MroAssumption DEF Delegates
    <3> QED BY <3>1 DEF Found, Range
  <2>5. First(c, either) \in readers
    BY <2>2, <2>4, FirstIsFound
  <2>6. First(c, readers) = First(c, either)
    BY <2>4, <2>5, FirstOfLess
  <2>7. ReadBy(c) \in readers
    BY <2>2, <2>5, <2>6 DEF ReadBy
  <2> QED BY <2>1, <2>2, <2>7
<1> HIDE DEF Another
<1>2. Decorating => []Another
  BY <1>1, ReadersInit, ReadersStep, PTL DEF Decorating
<1> QED BY <1>2 DEF Another

\* A decorated class is the nearest one to itself.
LEMMA OwnIsNearest ==
  ASSUME ReadersInv, NEW c \in attached
  PROVE  Found(c, attached) /\ First(c, attached) = c
<1>1. c \in Classes
  BY DEF ReadersInv
<1>2. Mro(c)[1] = c /\ 1 \in DOMAIN Mro(c) /\ DOMAIN Mro(c) \subseteq Nat \ {0}
  BY <1>1, MroAssumption
<1>3. Found(c, attached)
  BY <1>2 DEF Found
<1>4. Place(c, attached) \in DOMAIN Mro(c) /\ Place(c, attached) <= 1
  BY <1>1, <1>2, <1>3, FirstIsFound
<1>5. Place(c, attached) = 1
  BY <1>2, <1>4
<1> QED BY <1>2, <1>3, <1>5 DEF First

\* A class that a decorator changed reads its own configuration: always when it
\* does not inherit Configured, and when it does unless readers bound to another
\* class stand before those of Configured (dynamic_config's decorate).
THEOREM DecoratedReadItselfThm ==
  Decorating => [](\A c \in attached : ~Delegates(c) \/ ~Eclipsed(c) => ReadBy(c) = c)
<1> DEFINE Itself == \A c \in attached : ~Delegates(c) \/ ~Eclipsed(c) => ReadBy(c) = c
<1>1. ReadersInv => Itself
  <2> SUFFICES ASSUME ReadersInv, NEW c \in attached, ~Delegates(c) \/ ~Eclipsed(c)
               PROVE  ReadBy(c) = c
    OBVIOUS
  <2>1. Found(c, attached) /\ First(c, attached) = c /\ c \in Classes
    BY OwnIsNearest DEF ReadersInv
  <2>2. ~Eclipsed(c)
    BY <2>1 DEF Eclipsed
  <2> QED BY <2>1, <2>2, ReadersSuffice DEF ReadersAnswerTheirOwn
<1> HIDE DEF Itself
<1>2. Decorating => []Itself
  BY <1>1, ReadersInit, ReadersStep, PTL DEF Decorating
<1> QED BY <1>2 DEF Itself

=============================================================================
