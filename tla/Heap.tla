-------------------------------- MODULE Heap --------------------------------
(***************************************************************************)
(* The garbage collected objects and their mark-and-sweep collector        *)
(* (values/gc.hh, values/gc.cc).                                           *)
(*                                                                         *)
(* All objects form a list: sFirst is its head and next the link each      *)
(* object carries in _next, whose low bits are objType and marked here.    *)
(* holds is what an object refers to: the items of an array, the literals  *)
(* in the code of a quotation.  allocated is malloc's view, the memory     *)
(* that may be touched; what freed memory contains is not modelled, since  *)
(* reading it is a fault.                                                  *)
(*                                                                         *)
(* The recursion of mark() is an explicit agenda of the values whose       *)
(* mark() is still to be called, in the order of the calls.  One step of   *)
(* the sweep is one iteration of the loop of sweep(), whose locals are o,  *)
(* prev, fixLink, kept and freed.  older is a history variable: <<p, q>>   *)
(* when p was created before q.                                            *)
(***************************************************************************)
EXTENDS Values, Sequences, FiniteSets, Functions

VARIABLES
  allocated, objType, marked, next, holds, sFirst, sInstanceCount,
  gcState, agenda, o, prev, fixLink, kept, freed,
  older

objects == <<allocated, objType, holds, sInstanceCount, older>>
links == <<next, sFirst>>
locals == <<o, prev, fixLink, kept, freed>>
heapVars == <<objects, links, marked, gcState, agenda, locals>>

ObjTypes == {"String", "Array", "Quote"}
GCStates == {"idle", "mark", "sweep", "fault"}

HeapInit ==
  /\ allocated = {}
  /\ objType = [p \in Obj |-> "String"]
  /\ marked = [p \in Obj |-> FALSE]
  /\ next = [p \in Obj |-> NoObj]
  /\ holds = [p \in Obj |-> <<>>]
  /\ sFirst = NoObj
  /\ sInstanceCount = 0
  /\ gcState = "idle"
  /\ agenda = <<>>
  /\ o = NoObj
  /\ prev = NoObj
  /\ fixLink = FALSE
  /\ kept = 0
  /\ freed = 0
  /\ older = {}

-----------------------------------------------------------------------------
(* What the program does to the heap *)

\* object::object(): the new object becomes the head of the list.  What it
\* holds is up to the constructors of its class, that is to the caller.
NewObject(p, t) ==
  /\ p \notin allocated
  /\ allocated' = allocated \cup {p}
  /\ objType' = [objType EXCEPT ![p] = t]
  /\ marked' = [marked EXCEPT ![p] = FALSE]
  /\ next' = [next EXCEPT ![p] = sFirst]
  /\ sFirst' = p
  /\ sInstanceCount' = sInstanceCount + 1
  /\ older' = older \cup {<<q, p>> : q \in allocated}
  /\ UNCHANGED <<gcState, agenda, locals>>

-----------------------------------------------------------------------------
(* Marking *)

BeginMark(roots) ==
  /\ gcState' = "mark"
  /\ agenda' = roots
  /\ UNCHANGED <<objects, links, marked, locals>>

\* Value::mark() on a null pointer, or on one to memory that was freed
MarkFaults(v) == CallsMark(v) /\ asPointer(v) \notin allocated

Fault ==
  /\ gcState = "mark"
  /\ agenda # <<>>
  /\ MarkFaults(Head(agenda))
  /\ gcState' = "fault"
  /\ UNCHANGED <<objects, links, marked, agenda, locals>>

\* Faulty variant: object::mark() always reports a change.
MarksAgain(v) == CallsMark(v)

\* Whether object::mark() changes the mark bit.
MarksNow(v) == CallsMark(v) /\ ~marked[asPointer(v)]

\* Faulty variant: an array's items are not marked with it.
CalleesNone(p) == <<>>

\* The calls of mark() made by Array::mark() and by Quote::mark().
Callees(p) == holds[p]

\* One call of Value::mark(), up to the calls it makes in turn.
Mark ==
  /\ gcState = "mark"
  /\ agenda # <<>>
  /\ LET v == Head(agenda)
         p == asPointer(v)
     IN  /\ ~MarkFaults(v)
         /\ IF MarksNow(v)
            THEN /\ marked' = [marked EXCEPT ![p] = TRUE]
                 /\ agenda' = Callees(p) \o Tail(agenda)
            ELSE /\ agenda' = Tail(agenda)
                 /\ UNCHANGED marked
  /\ UNCHANGED <<objects, links, gcState, locals>>

-----------------------------------------------------------------------------
(* Sweeping *)

BeginSweep ==
  /\ gcState = "mark"
  /\ agenda = <<>>
  /\ gcState' = "sweep"
  /\ o' = sFirst
  /\ prev' = NoObj
  /\ fixLink' = FALSE
  /\ kept' = 0
  /\ freed' = 0
  /\ UNCHANGED <<objects, links, marked, agenda>>

\* Faulty variant: the head of the list is never moved.
UpdateLinkInside ==
  /\ next' = IF fixLink /\ prev # NoObj THEN [next EXCEPT ![prev] = o]
                                        ELSE next
  /\ sFirst' = sFirst
  /\ fixLink' = FALSE

\* updateLink()
UpdateLink ==
  /\ next' = IF fixLink /\ prev # NoObj THEN [next EXCEPT ![prev] = o]
                                        ELSE next
  /\ sFirst' = IF fixLink /\ prev = NoObj THEN o ELSE sFirst
  /\ fixLink' = FALSE

\* Faulty variant: the mark stays for the next collection to find.
UnmarkNot == marked

\* unmark()
Unmark == [marked EXCEPT ![o] = FALSE]

KeepMarked ==
  /\ gcState = "sweep"
  /\ o # NoObj
  /\ marked[o]
  /\ marked' = Unmark
  /\ UpdateLink
  /\ prev' = o
  /\ kept' = kept + 1
  /\ o' = next[o]
  /\ UNCHANGED <<objects, gcState, agenda, freed>>

FreeUnmarked ==
  /\ gcState = "sweep"
  /\ o # NoObj
  /\ ~marked[o]
  /\ allocated' = allocated \ {o}
  /\ objType' = [objType EXCEPT ![o] = "String"]
  /\ holds' = [holds EXCEPT ![o] = <<>>]
  /\ older' = {pair \in older : o \notin {pair[1], pair[2]}}
  /\ next' = [next EXCEPT ![o] = NoObj]
  /\ fixLink' = TRUE
  /\ freed' = freed + 1
  /\ o' = next[o]
  /\ UNCHANGED <<sFirst, sInstanceCount, marked, gcState, agenda, prev, kept>>

\* Faulty variant: one object too many is subtracted.
CountWithoutOneMore == sInstanceCount - freed - 1

CountWithoutFreed == sInstanceCount - freed

\* The locals go out of scope.
EndSweep ==
  /\ gcState = "sweep"
  /\ o = NoObj
  /\ UpdateLink
  /\ sInstanceCount' = CountWithoutFreed
  /\ gcState' = "idle"
  /\ prev' = NoObj
  /\ kept' = 0
  /\ freed' = 0
  /\ UNCHANGED <<allocated, objType, holds, older, marked, agenda, o>>

CollectStep ==
  Fault \/ Mark \/ BeginSweep \/ KeepMarked \/ FreeUnmarked \/ EndSweep

-----------------------------------------------------------------------------
(* What the collector is to achieve *)

\* The objects that values refer to
Targets(vs) == {asPointer(v) : v \in vs} \ {NoObj}

\* The sets of objects that have the targets of vs and, with an object, what
\* it refers to
ClosedSets(vs) ==
  {C \in SUBSET Obj :
     /\ Targets(vs) \subseteq C
     /\ \A p \in C : Targets(Range(holds[p])) \subseteq C}

\* The objects that can be reached from values
Reachable(vs) ==
  LET closed == ClosedSets(vs)
  IN  {p \in Obj : \A C \in closed : p \in C}

\* Dereferencing v touches memory that is allocated, as what v says it is.
Sound(v) ==
  asPointer(v) # NoObj =>
    asPointer(v) \in allocated /\ objType[asPointer(v)] = type(v)

\* Objects the sweep has gone past: the list is sorted, youngest first.
Passed(p) == o = NoObj \/ <<o, p>> \in older

\* What is left once a sweep that is under way has ended
Survivors ==
  IF gcState = "sweep" THEN {p \in allocated : marked[p] \/ Passed(p)}
                       ELSE allocated

\* q, or the end of the list, is what follows p in the order of creation.
Follows(q, p) ==
  IF q = NoObj
  THEN \A r \in allocated : <<r, p>> \notin older
  ELSE /\ q \in allocated
       /\ <<q, p>> \in older
       /\ \A r \in allocated : <<r, p>> \in older => r = q \/ <<r, q>> \in older

\* q is the head of the list of all objects.
IsHead(q) ==
  IF q = NoObj
  THEN allocated = {}
  ELSE q \in allocated /\ \A r \in allocated : r = q \/ <<r, q>> \in older

(***************************************************************************)
(* The list of objects is whole: outside a sweep it links all the objects  *)
(* that exist, each once, youngest first, no mark is left over from an     *)
(* earlier collection, and sInstanceCount is their number.  During a sweep *)
(* the rest of the list is still whole, and the assertion of sweep() about *)
(* kept and freed is going to hold.                                        *)
(***************************************************************************)
ListWhole ==
  /\ gcState # "sweep" =>
       /\ IsHead(sFirst)
       /\ \A p \in allocated : Follows(next[p], p)
       /\ sInstanceCount = Cardinality(allocated)
  /\ gcState = "idle" => \A p \in allocated : ~marked[p]
  /\ gcState = "sweep" =>
       /\ \A p \in allocated : ~Passed(p) => Follows(next[p], p)
       /\ kept = Cardinality({p \in allocated : Passed(p)})
       /\ kept + freed + Cardinality({p \in allocated : ~Passed(p)})
            = sInstanceCount

=============================================================================
