------------------------------ MODULE Decorator ------------------------------
(***************************************************************************)
(* @dynamic_config (_decorator.py): which classes of a family have a       *)
(* configuration of their own, which have readers of their own, and whose  *)
(* configuration c.current() reads for any class c.                        *)
(*                                                                         *)
(* What Python says of a class is a constant: its mro, and the keys its    *)
(* adapter lists.  Classes are decorated once each and in any order.       *)
(***************************************************************************)
EXTENDS Integers, Sequences, Functions

CONSTANTS
    Classes,      \* the classes a program defines
    Mro(_),       \* class -> the classes its attributes are looked up in
    FileKeys(_)   \* class -> the paths field_names() lists

\* Python's linearization: a class comes first in its own mro, and has the mro
\* of each class it inherits from inside it.
ASSUME MroAssumption ==
    /\ "Configured" \notin Classes
    /\ \A c \in Classes :
          /\ Mro(c) \in Seq(Range(Mro(c)))
          /\ Mro(c) # <<>> /\ Mro(c)[1] = c
          /\ \A m \in Classes \cap Range(Mro(c)) : Range(Mro(m)) \subseteq Range(Mro(c))

VARIABLES
    attached,    \* the classes with a config of their own
    readers      \* the classes with readers of their own

classVars == <<attached, readers>>

ATTACHED == {"config", "current", "try_current", "reload", "source_of", "explain"}

\* Mutant: readers that are there already, inherited ones too, are kept.
OwnReadersIfNone(c) == \A m \in Range(Mro(c)) : m # "Configured" /\ m \notin readers

\* issubclass(model, Configured): its readers go through config.
Delegates(c) == "Configured" \in Range(Mro(c))

\* A class that inherits Configured has its readers from there.
OwnReaders(c) == ~Delegates(c)

\* One configuration per class, and no key of the file behind a reader.
Attach(c) ==
    /\ c \notin attached
    /\ \A name \in ATTACHED : <<name>> \notin FileKeys(c)
    /\ attached' = attached \cup {c}
    /\ readers' = IF OwnReaders(c) THEN readers \cup {c} ELSE readers

Found(c, S) == \E i \in DOMAIN Mro(c) : Mro(c)[i] \in S

\* Attribute lookup: the first class along the mro that is one of S.
Place(c, S) ==
    CHOOSE i \in DOMAIN Mro(c) :
        Mro(c)[i] \in S /\ \A j \in DOMAIN Mro(c) : Mro(c)[j] \in S => i <= j
First(c, S) == Mro(c)[Place(c, S)]

\* Whose configuration c.current() reads: a class's own readers are bound to its
\* configuration, those of Configured go through c.config.
ReadBy(c) ==
    IF First(c, readers \cup {"Configured"}) = "Configured" THEN First(c, attached)
    ELSE First(c, readers)

NoneAttached == attached = {} /\ readers = {}

Decorating == NoneAttached /\ [][\E c \in Classes : Attach(c)]_classVars

-----------------------------------------------------------------------------

\* Readers bound to another class stand before those of Configured, on which the
\* nearest decorated class relies.
Eclipsed(c) ==
    /\ Delegates(First(c, attached))
    /\ First(c, {m \in attached : ~Delegates(m)} \cup {"Configured"}) # "Configured"

\* A class reads its own configuration when it is decorated, and otherwise that
\* of the nearest decorated class it inherits from, in whatever order the family
\* was decorated and whichever of its classes inherit Configured (_decorator.py);
\* the definition above says of which classes this is not so.
ReadersAnswerTheirOwn ==
    \A c \in Classes : Found(c, attached) /\ ~Eclipsed(c) => ReadBy(c) = First(c, attached)
=============================================================================
