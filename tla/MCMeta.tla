------------------------------ MODULE MCMeta -------------------------------
(* A base A with the line A, B, C; E, a class beside B with B's name; D,    *)
(* which registers a member twice; and a conversion of the application's   *)
(* that is a shorter way up.                                               *)
EXTENDS Meta, TLC

CONSTANTS A, B, C, D, E, T1, T2, act, name, size, number, text, o1, o2

Classes == {A, B, C, D, E}
Bases == (A :> NoClass) @@ (B :> A) @@ (C :> B) @@ (D :> A) @@ (E :> A)
Names == [c \in Classes |-> IF c = E THEN B ELSE c]
OwnMembers == (A :> {act, name}) @@ (B :> {}) @@ (C :> {act}) @@ (D :> {}) @@ (E :> {act})
Conversions == {<<A, C>>} \cup UNION {{<<A, c>>, <<c, A>>} : c \in {B, D, E}} \cup {<<B, C>>, <<C, B>>}
Asked == {<<E, C>>}
ObjectClasses == [o \in {o1, o2} |-> C]

\* Two threads that register from the start, or one that uses objects.
Scenes == {[built |-> {}, threads |-> 2, objects |-> 1, edits |-> 0, adds |-> 6],
           [built |-> {}, threads |-> 1, objects |-> 1, edits |-> 1, adds |-> 6],
           [built |-> {A, B, C}, threads |-> 1, objects |-> 1, edits |-> 2, adds |-> 0],
           [built |-> {A}, threads |-> 1, objects |-> 2, edits |-> 3, adds |-> 0]}
ASSUME ApplicationAssumption == OnLine

Symmetry == Permutations(Threads) \cup Permutations(Objects) \cup Permutations(ValueTypes)
=============================================================================
