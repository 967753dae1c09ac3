---------------------------- MODULE PublishedLog ----------------------------
(***************************************************************************)
(* What publishing promises: validations are numbered as they succeed, one *)
(* model at a time reaches the readers, every validated model at most once *)
(* and never an older validation after a newer one, and the generation     *)
(* counts exactly those publications.                                      *)
(***************************************************************************)
EXTENDS Integers, Sequences

CONSTANTS Trees, Handmade

VARIABLES next_sequence,   \* validations so far
          log,             \* the models readers were given, in order
          generation       \* how many of them were announced

\* A validated model follows only older validations; a model handed to
\* replace(), which no validation numbered, follows anything.
Publishable ==
    [seq : {n \in 1..next_sequence : \A i \in 1..Len(log) : log[i].seq < n},
     tree : Trees]
      \cup [seq : {0}, tree : {Handmade}]

Init == next_sequence = 0 /\ log = <<>> /\ generation = 0

Validate ==
    /\ next_sequence' = next_sequence + 1
    /\ UNCHANGED <<log, generation>>

Show(m) ==
    /\ generation = Len(log)
    /\ log' = Append(log, m)
    /\ UNCHANGED <<next_sequence, generation>>

Announce ==
    /\ generation < Len(log)
    /\ generation' = generation + 1
    /\ UNCHANGED <<next_sequence, log>>

Next == Validate \/ Announce \/ \E m \in Publishable : Show(m)

Spec == Init /\ [][Next]_<<next_sequence, log, generation>>

=============================================================================
