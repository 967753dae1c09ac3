---------------------------- MODULE AtomicReload ----------------------------
(***************************************************************************)
(* What an all-or-nothing reload promises: nothing is installed before     *)
(* every member has validated, a document a caller holds is installed by   *)
(* that caller or dropped, and a reload returns only when all of it or     *)
(* none of it was installed, unless one of its installs broke, and nothing *)
(* is held for it any more.                                                *)
(***************************************************************************)
CONSTANTS Callers, Members, Docs, Nothing

VARIABLES active,    \* the callers whose reload is under way
          ready,     \* per caller, the validated documents it may install
          applied,   \* per caller, what it has installed
          broken     \* per caller, whether an install went wrong

None(f) == \A m \in Members : f[m] = Nothing

Empty == [m \in Members |-> Nothing]

Init ==
    /\ active = {}
    /\ ready = [c \in Callers |-> Empty]
    /\ applied = [c \in Callers |-> Empty]
    /\ broken = [c \in Callers |-> FALSE]

Begin(c) ==
    /\ c \notin active
    /\ active' = active \cup {c}
    /\ UNCHANGED <<ready, applied, broken>>

Prepare(c, m, d) ==
    /\ c \in active
    /\ None(applied[c])
    /\ ready[c][m] = Nothing
    /\ ready' = [ready EXCEPT ![c][m] = d]
    /\ UNCHANGED <<active, applied, broken>>

Complete(c) == \A m \in Members : ready[c][m] # Nothing \/ applied[c][m] # Nothing

Apply(c, m, breaks) ==
    /\ Complete(c) /\ ~broken[c]
    /\ ready[c][m] # Nothing
    /\ applied' = [applied EXCEPT ![c][m] = ready[c][m]]
    /\ ready' = [ready EXCEPT ![c][m] = Nothing]
    /\ broken' = [broken EXCEPT ![c] = breaks]
    /\ UNCHANGED active

Drop(c, m) ==
    /\ None(applied[c]) \/ broken[c]
    /\ ready' = [ready EXCEPT ![c][m] = Nothing]
    /\ UNCHANGED <<active, applied, broken>>

Return(c) ==
    /\ c \in active
    /\ None(ready[c])
    /\ broken[c] \/ None(applied[c]) \/ \A m \in Members : applied[c][m] # Nothing
    /\ applied' = [applied EXCEPT ![c] = Empty]
    /\ broken' = [broken EXCEPT ![c] = FALSE]
    /\ active' = active \ {c}
    /\ UNCHANGED ready

Next == \E c \in Callers :
    \/ Begin(c) \/ Return(c)
    \/ \E m \in Members :
        \/ Drop(c, m)
        \/ \E d \in Docs : Prepare(c, m, d)
        \/ \E breaks \in BOOLEAN : Apply(c, m, breaks)

Spec == Init /\ [][Next]_<<active, ready, applied, broken>>

=============================================================================
