------------------------------- MODULE Memory -------------------------------
(***************************************************************************)
(* What a garbage collected heap promises to a program: the objects it     *)
(* can reach exist and keep what was put into them, and a collection takes *)
(* away, in one step, exactly the others.                                  *)
(***************************************************************************)
EXTENDS Integers

CONSTANT Obj

VARIABLES
  heap,     \* the objects that exist
  refs,     \* the objects each of them refers to
  held      \* the objects the program refers to itself

memoryVars == <<heap, refs, held>>

\* What is in every set that has what the program holds and, with an
\* object, what it refers to
Accessible ==
  LET r == refs
      closed == {C \in SUBSET Obj : held \subseteq C /\ \A p \in C : r[p] \subseteq C}
  IN  {p \in Obj : \A C \in closed : p \in C}

Init ==
  /\ heap = {}
  /\ refs = [p \in Obj |-> {}]
  /\ held = {}

\* The program creates at most one object and changes what refers to what,
\* with nothing but what it can get at.
Mutate ==
  \E new \in {{}} \cup {{p} : p \in Obj \ heap} :
    LET mine == Accessible \cup new
    IN  /\ heap' = heap \cup new
        /\ held' \in SUBSET mine
        /\ refs' \in [Obj -> SUBSET Obj]
        /\ \A p \in Obj : refs'[p] # refs[p] => p \in mine
        /\ \A p \in Obj : refs'[p] \subseteq refs[p] \cup mine

Collect ==
  /\ heap' = Accessible
  /\ refs' = [p \in Obj |-> IF p \in Accessible THEN refs[p] ELSE {}]
  /\ held' = held

Next == Mutate \/ Collect

Spec == Init /\ [][Next]_memoryVars

=============================================================================
