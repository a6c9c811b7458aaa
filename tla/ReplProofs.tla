----------------------------- MODULE ReplProofs -----------------------------
(***************************************************************************)
(* Proofs about a session: types, the list of objects and the progress of  *)
(* the collector, for any number of objects and any bounds.  The first     *)
(* part is about the heap: the inductive invariant of module Heap and its  *)
(* preservation by every operation on the heap.                            *)
(***************************************************************************)
EXTENDS Repl, FiniteSetTheorems, SequenceTheorems, TLAPS

-----------------------------------------------------------------------------
(* The inductive invariant of the heap *)

HeapTypeOK ==
  /\ allocated \subseteq Obj
  /\ objType \in [Obj -> ObjTypes]
  /\ marked \in [Obj -> BOOLEAN]
  /\ next \in [Obj -> Obj \cup {NoObj}]
  /\ holds \in [Obj -> Seq(Value)]
  /\ sFirst \in Obj \cup {NoObj}
  /\ o \in Obj \cup {NoObj}
  /\ prev \in Obj \cup {NoObj}
  /\ kept \in Nat
  /\ freed \in Nat
  /\ gcState \in GCStates
  /\ fixLink \in BOOLEAN
  /\ agenda \in Seq(Value)

\* The order of creation is a strict total order of the objects.
OrderOK ==
  /\ older \subseteq allocated \X allocated
  /\ \A p \in allocated : <<p, p>> \notin older
  /\ \A p, q \in allocated : p = q \/ <<p, q>> \in older \/ <<q, p>> \in older
  /\ \A p, q, r \in allocated :
       <<p, q>> \in older /\ <<q, r>> \in older => <<p, r>> \in older

LinksOK ==
  gcState # "sweep" =>
    /\ IsHead(sFirst)
    /\ \A p \in allocated : Follows(next[p], p)

(***************************************************************************)
(* During a sweep: the links are right except behind prev, the oldest      *)
(* object gone past, which may still have freed objects to skip; and what  *)
(* was gone past has been unmarked.                                        *)
(***************************************************************************)
SweepOK ==
  gcState = "sweep" =>
    /\ o = NoObj \/ o \in allocated
    /\ \A p \in allocated : p # prev => Follows(next[p], p)
    /\ prev = NoObj => \A p \in allocated : ~Passed(p)
    /\ prev # NoObj =>
         /\ prev \in allocated
         /\ Passed(prev)
         /\ IsHead(sFirst)
         /\ \A p \in allocated : Passed(p) => p = prev \/ <<prev, p>> \in older
    /\ ~fixLink => IF prev = NoObj THEN sFirst = o ELSE next[prev] = o
    /\ \A p \in allocated : Passed(p) => ~marked[p]

\* The objects the sweep has kept, and those it has not come to
Gone == {p \in allocated : Passed(p)}
Ahead == {p \in allocated : ~Passed(p)}

CountOK ==
  /\ IsFiniteSet(allocated)
  /\ gcState # "sweep" => sInstanceCount = Cardinality(allocated)
  /\ gcState = "sweep" =>
       /\ kept = Cardinality(Gone)
       /\ kept + freed + Cardinality(Ahead) = sInstanceCount

MarksOK == gcState = "idle" => \A p \in allocated : ~marked[p]

HeapOK == HeapTypeOK /\ OrderOK /\ LinksOK /\ SweepOK /\ CountOK /\ MarksOK

\* The invariant implies what the runs check.
LEMMA HeapOKImpliesListWhole ==
  HeapOK => ListWhole
<1> SUFFICES ASSUME HeapOK PROVE ListWhole
  OBVIOUS
<1>1. ASSUME gcState = "sweep", NEW p \in allocated, ~Passed(p)
      PROVE  Follows(next[p], p)
  <2>1. p # prev
    BY <1>1, NoObjAssumption DEF HeapOK, SweepOK, HeapTypeOK
  <2>2. QED
    BY <1>1, <2>1 DEF HeapOK, SweepOK
<1>2. QED
  BY <1>1 DEF HeapOK, ListWhole, LinksOK, CountOK, MarksOK, Gone, Ahead

LEMMA InitialHeap ==
  HeapInit => HeapOK
<1> SUFFICES ASSUME HeapInit PROVE HeapOK
  OBVIOUS
<1>1. HeapTypeOK
  <2>1. <<>> \in Seq(Value)
    OBVIOUS
  <2>2. QED
    BY <2>1 DEF HeapInit, HeapTypeOK, ObjTypes, GCStates
<1>2. OrderOK /\ LinksOK /\ MarksOK
  BY DEF HeapInit, OrderOK, LinksOK, MarksOK, IsHead
<1>3. SweepOK
  BY DEF HeapInit, SweepOK
<1>4. CountOK
  BY FS_EmptySet DEF HeapInit, CountOK
<1>5. QED
  BY <1>1, <1>2, <1>3, <1>4 DEF HeapOK

-----------------------------------------------------------------------------
(* What the program does *)

\* Changing what objects hold does not concern the list.
LEMMA HoldsDoNotMatter ==
  ASSUME HeapOK, holds' \in [Obj -> Seq(Value)],
         UNCHANGED <<allocated, objType, sInstanceCount, older, links, marked,
                     gcState, agenda, locals>>
  PROVE  HeapOK'
<1> USE DEF links, locals
<1>1. HeapTypeOK'
  BY DEF HeapOK, HeapTypeOK
<1>2. OrderOK' /\ MarksOK'
  BY DEF HeapOK, OrderOK, MarksOK
<1>3. LinksOK'
  BY DEF HeapOK, LinksOK, IsHead, Follows
<1>4. SweepOK'
  BY DEF HeapOK, SweepOK, IsHead, Follows, Passed
<1>5. CountOK'
  BY DEF HeapOK, CountOK, Gone, Ahead, Passed
<1>6. QED
  BY <1>1, <1>2, <1>3, <1>4, <1>5 DEF HeapOK

LEMMA UnchangedHeap ==
  HeapOK /\ UNCHANGED heapVars => HeapOK'
BY HoldsDoNotMatter DEF HeapOK, HeapTypeOK, heapVars, objects

LEMMA NewObjectKeepsHeap ==
  ASSUME HeapOK, NEW p \in Obj, NEW t \in ObjTypes, gcState = "idle",
         NewObject(p, t), holds' \in [Obj -> Seq(Value)]
  PROVE  HeapOK'
<1> USE NoObjAssumption DEF NewObject, locals
<1>1. HeapTypeOK'
  BY DEF HeapOK, HeapTypeOK
<1>2. OrderOK'
  <2>1. \A q, r : <<q, r>> \in older' <=>
          <<q, r>> \in older \/ (q \in allocated /\ r = p)
    BY Zenon
  <2>2. older' \subseteq allocated' \X allocated'
    BY DEF HeapOK, OrderOK
  <2>3. \A q, r : <<q, r>> \in older => q \in allocated /\ r \in allocated
    BY DEF HeapOK, OrderOK
  <2>4. QED
    BY <2>1, <2>2, <2>3 DEF HeapOK, OrderOK
<1>3. LinksOK'
  <2>1. \A q, r : <<q, r>> \in older' <=>
          <<q, r>> \in older \/ (q \in allocated /\ r = p)
    BY Zenon
  <2>2. \A q, r : <<q, r>> \in older => q \in allocated /\ r \in allocated
    BY DEF HeapOK, OrderOK
  <2>3. IsHead(sFirst)'
    BY <2>1 DEF IsHead
  <2>4. IsHead(sFirst) /\ \A q \in allocated : Follows(next[q], q)
    BY DEF HeapOK, LinksOK
  <2>5. Follows(next[p], p)'
    <3>1. next'[p] = sFirst
      BY DEF HeapOK, HeapTypeOK
    <3>2. CASE sFirst = NoObj
      BY <3>1, <3>2, <2>1, <2>2, <2>4 DEF Follows, IsHead
    <3>3. CASE sFirst # NoObj
      BY <3>1, <3>3, <2>1, <2>2, <2>4 DEF Follows, IsHead
    <3>4. QED
      BY <3>2, <3>3
  <2>6. ASSUME NEW q \in allocated PROVE Follows(next[q], q)'
    <3>1. next'[q] = next[q] /\ q # p
      BY DEF HeapOK, HeapTypeOK
    <3>2. \A r : <<r, q>> \in older' <=> <<r, q>> \in older
      BY <2>1, <3>1
    <3>3. CASE next[q] = NoObj
      BY <3>1, <3>2, <3>3, <2>2, <2>4 DEF Follows
    <3>4. CASE next[q] # NoObj
      BY <3>1, <3>2, <3>4, <2>1, <2>2, <2>4 DEF Follows
    <3>5. QED
      BY <3>3, <3>4
  <2>7. QED
    BY <2>3, <2>5, <2>6 DEF LinksOK
<1>4. SweepOK'
  BY DEF SweepOK
<1>5. CountOK'
  <2>1. Cardinality(allocated') = Cardinality(allocated) + 1
    BY FS_AddElement DEF HeapOK, CountOK
  <2>2. IsFiniteSet(allocated')
    BY FS_AddElement DEF HeapOK, CountOK
  <2>3. QED
    BY <2>1, <2>2 DEF HeapOK, CountOK
<1>6. MarksOK'
  BY DEF HeapOK, HeapTypeOK, MarksOK
<1>7. QED
  BY <1>1, <1>2, <1>3, <1>4, <1>5, <1>6 DEF HeapOK

-----------------------------------------------------------------------------
(* Marking *)

\* Marking and its beginning and failure leave the list alone.
LEMMA BeginMarkKeepsHeap ==
  ASSUME HeapOK, NEW roots \in Seq(Value), gcState = "idle", BeginMark(roots)
  PROVE  HeapOK'
<1> USE DEF BeginMark, objects, links, locals
<1>1. HeapTypeOK'
  BY DEF HeapOK, HeapTypeOK, GCStates
<1>2. OrderOK' /\ SweepOK' /\ MarksOK'
  BY DEF HeapOK, OrderOK, SweepOK, MarksOK
<1>3. LinksOK'
  BY DEF HeapOK, LinksOK, IsHead, Follows
<1>4. CountOK'
  BY DEF HeapOK, CountOK
<1>5. QED
  BY <1>1, <1>2, <1>3, <1>4 DEF HeapOK

\* Only pointers to objects that exist are marked.
LEMMA MarksNowIsObject ==
  ASSUME NEW v \in Value, ~MarkFaults(v), CallsMark(v)
  PROVE  asPointer(v) \in allocated
BY DEF MarkFaults

LEMMA MarkKeepsHeap ==
  ASSUME HeapOK, Mark
  PROVE  HeapOK'
<1> USE DEF Mark, objects, links, locals
<1>1. HeapTypeOK'
  <2> DEFINE v == Head(agenda)
             p == asPointer(v)
  <2>1. v \in Value /\ Tail(agenda) \in Seq(Value)
    BY DEF HeapOK, HeapTypeOK
  <2>2. marked' \in [Obj -> BOOLEAN] /\ agenda' \in Seq(Value)
    <3>1. CASE MarksNow(v)
      <4>1. p \in Obj
        BY <3>1, <2>1, MarksNowIsObject DEF MarksNow, HeapOK, HeapTypeOK
      <4>2. holds[p] \in Seq(Value)
        BY <4>1 DEF HeapOK, HeapTypeOK
      <4>3. agenda' = holds[p] \o Tail(agenda)
        BY <3>1 DEF Callees
      <4>4. agenda' \in Seq(Value)
        BY <4>2, <4>3, <2>1
      <4>5. marked' = [marked EXCEPT ![p] = TRUE]
        BY <3>1
      <4>6. marked' \in [Obj -> BOOLEAN]
        BY <4>5 DEF HeapOK, HeapTypeOK
      <4>7. QED
        BY <4>4, <4>6
    <3>2. CASE ~MarksNow(v)
      BY <3>2, <2>1 DEF HeapOK, HeapTypeOK
    <3>3. QED
      BY <3>1, <3>2
  <2>3. QED
    BY <2>2 DEF HeapOK, HeapTypeOK
<1>2. OrderOK' /\ SweepOK' /\ MarksOK'
  BY DEF HeapOK, OrderOK, SweepOK, MarksOK
<1>3. LinksOK'
  BY DEF HeapOK, LinksOK, IsHead, Follows
<1>4. CountOK'
  BY DEF HeapOK, CountOK
<1>5. QED
  BY <1>1, <1>2, <1>3, <1>4 DEF HeapOK

LEMMA FaultKeepsHeap ==
  ASSUME HeapOK, Fault
  PROVE  HeapOK'
<1> USE DEF Fault, objects, links, locals
<1>1. HeapTypeOK'
  BY DEF HeapOK, HeapTypeOK, GCStates
<1>2. OrderOK' /\ SweepOK' /\ MarksOK'
  BY DEF HeapOK, OrderOK, SweepOK, MarksOK
<1>3. LinksOK'
  BY DEF HeapOK, LinksOK, IsHead, Follows
<1>4. CountOK'
  BY DEF HeapOK, CountOK
<1>5. QED
  BY <1>1, <1>2, <1>3, <1>4 DEF HeapOK

-----------------------------------------------------------------------------
(* Sweeping *)

\* At the head of the list nothing has been gone past.
LEMMA NothingPassedAtHead ==
  ASSUME HeapOK, IsHead(o)
  PROVE  \A p \in allocated : ~Passed(p)
BY DEF HeapOK, OrderOK, IsHead, Passed

LEMMA BeginSweepKeepsHeap ==
  ASSUME HeapOK, BeginSweep
  PROVE  /\ HeapOK'
         /\ \A p \in allocated' : ~Passed(p)'
<1> USE DEF BeginSweep, objects, links
<1>1. HeapTypeOK'
  BY DEF HeapOK, HeapTypeOK, GCStates
<1>2. OrderOK' /\ LinksOK' /\ MarksOK'
  BY DEF HeapOK, OrderOK, LinksOK, MarksOK
<1>3. IsHead(sFirst) /\ \A p \in allocated : Follows(next[p], p)
  BY DEF HeapOK, LinksOK
<1>4. \A p \in allocated : ~Passed(p)'
  BY <1>3 DEF HeapOK, OrderOK, IsHead, Passed
<1>5. SweepOK'
  <2>1. o' = NoObj \/ o' \in allocated'
    BY <1>3 DEF IsHead
  <2>2. \A p \in allocated' : Follows(next[p], p)'
    BY <1>3 DEF Follows
  <2>3. QED
    BY <1>4, <2>1, <2>2 DEF SweepOK
<1>6. CountOK'
  <2>1. Gone' = {} /\ Ahead' = allocated
    BY <1>4 DEF Gone, Ahead
  <2>2. Cardinality(allocated) \in Nat /\ Cardinality({}) = 0
    BY FS_EmptySet, FS_CardinalityType DEF HeapOK, CountOK
  <2>3. QED
    BY <2>1, <2>2 DEF HeapOK, CountOK
<1>7. QED
  BY <1>1, <1>2, <1>4, <1>5, <1>6 DEF HeapOK

\* Going to the next object adds just the current one to those gone past.
LEMMA NextPassesOne ==
  ASSUME HeapOK, gcState = "sweep", o # NoObj, NEW p \in allocated
  PROVE  /\ o \in allocated
         /\ o # prev
         /\ Follows(next[o], o)
         /\ ~Passed(o)
         /\ (next[o] = NoObj \/ <<next[o], p>> \in older)
               <=> (p = o \/ Passed(p))
<1>1. o \in allocated
  BY DEF HeapOK, SweepOK
<1>2. ~Passed(o)
  BY <1>1 DEF HeapOK, OrderOK, Passed
<1>3. o # prev
  BY <1>1, <1>2 DEF HeapOK, SweepOK
<1>4. Follows(next[o], o)
  BY <1>1, <1>3 DEF HeapOK, SweepOK
<1>5. CASE next[o] = NoObj
  BY <1>1, <1>2, <1>3, <1>4, <1>5 DEF HeapOK, OrderOK, Follows, Passed
<1>6. CASE next[o] # NoObj
  BY <1>1, <1>2, <1>3, <1>4, <1>6 DEF HeapOK, OrderOK, Follows, Passed
<1>7. QED
  BY <1>1, <1>2, <1>3, <1>4, <1>5, <1>6

\* What the link behind prev is to become
LEMMA CurrentFollowsPrev ==
  ASSUME HeapOK, gcState = "sweep"
  PROVE  /\ prev # NoObj => prev \in allocated /\ Follows(o, prev)
         /\ prev = NoObj => IsHead(o)
<1>1. CASE o = NoObj
  BY <1>1 DEF HeapOK, OrderOK, SweepOK, Follows, IsHead, Passed
<1>2. CASE o # NoObj
  <2>1. o \in allocated
    BY <1>2 DEF HeapOK, SweepOK
  <2>2. prev # NoObj => prev \in allocated /\ Follows(o, prev)
    BY <1>2, <2>1 DEF HeapOK, OrderOK, SweepOK, Follows, Passed
  <2>3. prev = NoObj => IsHead(o)
    BY <1>2, <2>1 DEF HeapOK, OrderOK, SweepOK, IsHead, Passed
  <2>4. QED
    BY <2>2, <2>3
<1>3. QED
  BY <1>1, <1>2

\* updateLink() leaves all the links up to the current object right.
LEMMA UpdateLinkRepairs ==
  ASSUME HeapOK, gcState = "sweep", UpdateLink
  PROVE  /\ next' \in [Obj -> Obj \cup {NoObj}]
         /\ sFirst' \in Obj \cup {NoObj}
         /\ \A p \in allocated : p # prev => next'[p] = next[p]
         /\ \A p \in allocated : Follows(next'[p], p)
         /\ IsHead(sFirst')
<1>1. next' \in [Obj -> Obj \cup {NoObj}] /\ sFirst' \in Obj \cup {NoObj}
  BY DEF HeapOK, HeapTypeOK, UpdateLink
<1>2. \A p \in allocated : p # prev => next'[p] = next[p]
  BY DEF HeapOK, HeapTypeOK, UpdateLink
<1>3. prev # NoObj => next'[prev] = o
  BY DEF HeapOK, HeapTypeOK, SweepOK, UpdateLink
<1>4. \A p \in allocated : Follows(next'[p], p)
  BY <1>2, <1>3, CurrentFollowsPrev, NoObjAssumption
  DEF HeapOK, HeapTypeOK, SweepOK
<1>5. IsHead(sFirst')
  BY CurrentFollowsPrev DEF HeapOK, SweepOK, UpdateLink
<1>6. QED
  BY <1>1, <1>2, <1>4, <1>5

LEMMA KeepMarkedKeepsHeap ==
  ASSUME HeapOK, KeepMarked
  PROVE  /\ HeapOK'
         /\ \A p \in allocated : Passed(p)' <=> p = o \/ Passed(p)
<1> USE DEF KeepMarked, objects
<1>1. /\ o \in allocated
      /\ o # prev
      /\ Follows(next[o], o)
      /\ ~Passed(o)
  <2>1. o \in allocated
    BY DEF HeapOK, SweepOK
  <2>2. QED
    BY <2>1, NextPassesOne
<1>2. \A p \in allocated : Passed(p)' <=> p = o \/ Passed(p)
  BY NextPassesOne DEF Passed
<1>3. /\ next' \in [Obj -> Obj \cup {NoObj}]
      /\ sFirst' \in Obj \cup {NoObj}
      /\ \A p \in allocated : p # prev => next'[p] = next[p]
      /\ \A p \in allocated : Follows(next'[p], p)
      /\ IsHead(sFirst')
  BY UpdateLinkRepairs
<1>4. o \in Obj
  BY <1>1 DEF HeapOK, HeapTypeOK
<1>5. HeapTypeOK'
  <2>1. marked' \in [Obj -> BOOLEAN] /\ next[o] \in Obj \cup {NoObj}
    BY <1>4 DEF HeapOK, HeapTypeOK, Unmark
  <2>2. fixLink' \in BOOLEAN
    BY DEF UpdateLink
  <2>3. QED
    BY <1>3, <1>4, <2>1, <2>2 DEF HeapOK, HeapTypeOK
<1>6. OrderOK' /\ LinksOK' /\ MarksOK'
  BY DEF HeapOK, OrderOK, LinksOK, MarksOK
<1>7. SweepOK'
  <2>1. o' = NoObj \/ o' \in allocated'
    BY <1>1 DEF Follows
  <2>2. \A p \in allocated' : Follows(next[p], p)'
    BY <1>3 DEF Follows
  <2>3. IsHead(sFirst)'
    BY <1>3 DEF IsHead
  <2>4. \A p \in allocated' : Passed(p)' => p = prev' \/ <<prev', p>> \in older'
    BY <1>1, <1>2 DEF Passed
  <2>5. next'[prev'] = o'
    BY <1>1, <1>3
  <2>6. \A p \in allocated' : Passed(p)' => ~marked'[p]
    <3>1. \A p \in allocated : marked'[p] = IF p = o THEN FALSE ELSE marked[p]
      BY DEF HeapOK, HeapTypeOK, Unmark
    <3>2. QED
      BY <1>2, <3>1 DEF HeapOK, SweepOK
  <2>7. prev' \in allocated' /\ prev' # NoObj /\ Passed(prev)'
    BY <1>1, <1>2, <1>4, NoObjAssumption DEF Passed
  <2>8. QED
    BY <2>1, <2>2, <2>3, <2>4, <2>5, <2>6, <2>7 DEF SweepOK
<1>8. CountOK'
  <2>1. Gone' = Gone \cup {o} /\ o \notin Gone
    BY <1>1, <1>2 DEF Gone
  <2>2. Ahead' = Ahead \ {o} /\ o \in Ahead
    BY <1>1, <1>2 DEF Ahead
  <2>3. IsFiniteSet(Gone) /\ IsFiniteSet(Ahead)
    BY FS_Subset DEF HeapOK, CountOK, Gone, Ahead
  <2>4. Cardinality(Gone') = Cardinality(Gone) + 1
    BY <2>1, <2>3, FS_AddElement
  <2>5. Cardinality(Ahead') = Cardinality(Ahead) - 1
    BY <2>2, <2>3, FS_RemoveElement
  <2>6. Cardinality(Gone) \in Nat /\ Cardinality(Ahead) \in Nat
    BY <2>3, FS_CardinalityType
  <2>7. freed \in Nat
    BY DEF HeapOK, HeapTypeOK
  <2>8. QED
    BY <2>4, <2>5, <2>6, <2>7 DEF HeapOK, CountOK
<1>9. QED
  BY <1>2, <1>5, <1>6, <1>7, <1>8 DEF HeapOK

LEMMA FreeUnmarkedKeepsHeap ==
  ASSUME HeapOK, FreeUnmarked
  PROVE  /\ HeapOK'
         /\ \A p \in allocated' : Passed(p)' <=> Passed(p)
<1> USE DEF FreeUnmarked
<1>1. /\ o \in allocated
      /\ o # prev
      /\ Follows(next[o], o)
      /\ ~Passed(o)
  <2>1. o \in allocated
    BY DEF HeapOK, SweepOK
  <2>2. QED
    BY <2>1, NextPassesOne
<1>2. o \in Obj
  BY <1>1 DEF HeapOK, HeapTypeOK
<1>3. \A p, q : <<p, q>> \in older' <=> <<p, q>> \in older /\ p # o /\ q # o
  BY SMT
<1>4. next[o] # o
  BY <1>1, <1>2, NoObjAssumption DEF Follows, HeapOK, OrderOK
<1>5. \A p \in allocated' : Passed(p)' <=> Passed(p)
  <2> SUFFICES ASSUME NEW p \in allocated' PROVE Passed(p)' <=> Passed(p)
    OBVIOUS
  <2>1. p \in allocated /\ p # o
    OBVIOUS
  <2>2. Passed(p)' <=> next[o] = NoObj \/ <<next[o], p>> \in older
    BY <1>3, <1>4, <2>1 DEF Passed
  <2>3. QED
    BY <2>1, <2>2, NextPassesOne
<1>6. HeapTypeOK'
  <2>1. next[o] \in Obj \cup {NoObj}
    BY <1>2 DEF HeapOK, HeapTypeOK
  <2>2. <<>> \in Seq(Value) /\ "String" \in ObjTypes
    BY DEF ObjTypes
  <2>3. holds' \in [Obj -> Seq(Value)]
    BY <2>2 DEF HeapOK, HeapTypeOK
  <2>4. objType' \in [Obj -> ObjTypes]
    BY <2>2 DEF HeapOK, HeapTypeOK
  <2>5. QED
    BY <2>1, <2>3, <2>4 DEF HeapOK, HeapTypeOK
<1>7. OrderOK'
  <2>1. older' \subseteq allocated' \X allocated'
    BY DEF HeapOK, OrderOK
  <2>2. QED
    BY <1>3, <2>1 DEF HeapOK, OrderOK
<1>8. LinksOK' /\ MarksOK'
  BY DEF LinksOK, MarksOK
<1>9. SweepOK'
  <2>1. o' = NoObj \/ o' \in allocated'
    BY <1>1, <1>4 DEF Follows
  <2>2. ASSUME NEW p \in allocated', p # prev PROVE Follows(next[p], p)'
    <3>1. p \in allocated /\ p # o
      OBVIOUS
    <3>2. Follows(next[p], p) /\ next'[p] = next[p]
      BY <2>2, <3>1 DEF HeapOK, HeapTypeOK, SweepOK
    <3>3. next[p] # o
      <4>1. SUFFICES ASSUME next[p] = o PROVE FALSE
        OBVIOUS
      <4>2. <<o, p>> \in older
        BY <1>2, <3>2, <4>1, NoObjAssumption DEF Follows
      <4>3. prev \in allocated /\ <<prev, p>> \in older /\ <<o, prev>> \in older
        BY <2>2, <3>1, <4>2 DEF Passed, HeapOK, SweepOK
      <4>4. prev = o \/ <<prev, o>> \in older
        BY <1>2, <3>2, <4>1, <4>3, NoObjAssumption DEF Follows
      <4>5. QED
        BY <1>1, <4>3, <4>4 DEF HeapOK, OrderOK
    <3>4. CASE next[p] = NoObj
      BY <1>3, <3>2, <3>4 DEF Follows
    <3>5. CASE next[p] # NoObj
      BY <1>3, <3>1, <3>2, <3>3, <3>5 DEF Follows
    <3>6. QED
      BY <3>4, <3>5
  <2>3. prev = NoObj => \A p \in allocated' : ~Passed(p)'
    BY <1>5 DEF HeapOK, SweepOK
  <2>4. prev # NoObj =>
          /\ prev \in allocated'
          /\ Passed(prev)'
          /\ \A p \in allocated' :
               Passed(p)' => p = prev \/ <<prev, p>> \in older'
    <3>1. SUFFICES ASSUME prev # NoObj
                   PROVE  /\ prev \in allocated'
                          /\ Passed(prev)'
                          /\ \A p \in allocated' :
                               Passed(p)' => p = prev \/ <<prev, p>> \in older'
      OBVIOUS
    <3>2. prev \in allocated' /\ Passed(prev)
      BY <1>1, <3>1 DEF HeapOK, SweepOK
    <3>3. Passed(prev)'
      BY <1>5, <3>2 DEF Passed
    <3>4. QED
      BY <1>1, <1>3, <1>5, <3>1, <3>2, <3>3 DEF HeapOK, SweepOK
  <2>5. prev # NoObj => IsHead(sFirst)'
    <3>1. SUFFICES ASSUME prev # NoObj PROVE IsHead(sFirst)'
      OBVIOUS
    <3>2. /\ IsHead(sFirst) /\ prev \in allocated /\ <<o, prev>> \in older
      BY <1>2, <3>1, NoObjAssumption DEF HeapOK, SweepOK, Passed
    <3>3. sFirst # o
      BY <1>1, <1>2, <3>2, NoObjAssumption DEF IsHead, HeapOK, OrderOK
    <3>4. QED
      BY <1>3, <3>2, <3>3 DEF IsHead
  <2>6. \A p \in allocated' : Passed(p)' => ~marked'[p]
    BY <1>5 DEF HeapOK, SweepOK
  <2>7. QED
    BY <2>1, <2>2, <2>3, <2>4, <2>5, <2>6 DEF SweepOK
<1>10. CountOK'
  <2>1. Gone' = Gone
    BY <1>1, <1>5 DEF Gone
  <2>2. Ahead' = Ahead \ {o} /\ o \in Ahead
    BY <1>1, <1>5 DEF Ahead
  <2>3. IsFiniteSet(Gone) /\ IsFiniteSet(Ahead)
    BY FS_Subset DEF HeapOK, CountOK, Gone, Ahead
  <2>4. Cardinality(Ahead') = Cardinality(Ahead) - 1
    BY <2>2, <2>3, FS_RemoveElement
  <2>5. Cardinality(Gone) \in Nat /\ Cardinality(Ahead) \in Nat
    BY <2>3, FS_CardinalityType
  <2>6. freed \in Nat
    BY DEF HeapOK, HeapTypeOK
  <2>7. IsFiniteSet(allocated')
    BY FS_Subset DEF HeapOK, CountOK
  <2>8. QED
    BY <2>1, <2>4, <2>5, <2>6, <2>7 DEF HeapOK, CountOK
<1>11. QED
  BY <1>5, <1>6, <1>7, <1>8, <1>9, <1>10 DEF HeapOK

LEMMA EndSweepKeepsHeap ==
  ASSUME HeapOK, EndSweep
  PROVE  HeapOK'
<1> USE DEF EndSweep
<1>1. /\ next' \in [Obj -> Obj \cup {NoObj}]
      /\ sFirst' \in Obj \cup {NoObj}
      /\ \A p \in allocated : Follows(next'[p], p)
      /\ IsHead(sFirst')
  BY UpdateLinkRepairs
<1>2. HeapTypeOK'
  BY <1>1 DEF HeapOK, HeapTypeOK, GCStates, UpdateLink
<1>3. OrderOK' /\ SweepOK'
  BY DEF HeapOK, OrderOK, SweepOK
<1>4. LinksOK'
  BY <1>1 DEF LinksOK, IsHead, Follows
<1>5. MarksOK'
  BY DEF HeapOK, MarksOK, SweepOK, Passed
<1>6. CountOK'
  <2>1. Gone = allocated /\ Ahead = {}
    BY DEF Gone, Ahead, Passed
  <2>2. Cardinality(allocated) \in Nat /\ Cardinality({}) = 0
    BY FS_EmptySet, FS_CardinalityType DEF HeapOK, CountOK
  <2>3. freed \in Nat
    BY DEF HeapOK, HeapTypeOK
  <2>4. sInstanceCount' = Cardinality(allocated)
    BY <2>1, <2>2, <2>3 DEF HeapOK, CountOK, CountWithoutFreed
  <2>5. QED
    BY <2>4 DEF HeapOK, CountOK
<1>7. QED
  BY <1>2, <1>3, <1>4, <1>5, <1>6 DEF HeapOK

LEMMA CollectStepKeepsHeap ==
  HeapOK /\ CollectStep => HeapOK'
BY FaultKeepsHeap, MarkKeepsHeap, BeginSweepKeepsHeap, KeepMarkedKeepsHeap,
   FreeUnmarkedKeepsHeap, EndSweepKeepsHeap
DEF CollectStep

-----------------------------------------------------------------------------
(* The inductive invariant of a session *)

PromptTypeOK ==
  /\ phase \in Phases
  /\ stack \in Seq(Value)
  /\ frames \in Seq(Frame)
  /\ defined \subseteq Names
  /\ code \in [Names -> Seq(Value)]

\* Where main() is decides what the collector does and which frames exist.
PhaseOK ==
  /\ gcState \in {"mark", "sweep"} <=> phase = "collect"
  /\ gcState = "fault" <=> phase = "crashed"
  /\ phase \in {"parse", "run"} => frames # <<>> /\ frames[1].kind = "line"
  /\ phase \in {"collect", "crashed"} => frames = <<>>
  /\ gcState = "fault" =>
       agenda # <<>> /\ MarkFaults(Head(agenda))

SessionOK == HeapOK /\ PromptTypeOK /\ PhaseOK

LEMMA CountIsNat ==
  HeapOK => sInstanceCount \in Nat
<1> SUFFICES ASSUME HeapOK PROVE sInstanceCount \in Nat
  OBVIOUS
<1>1. IsFiniteSet(Gone) /\ IsFiniteSet(Ahead) /\ IsFiniteSet(allocated)
  BY FS_Subset DEF HeapOK, CountOK, Gone, Ahead
<1>2. /\ Cardinality(Gone) \in Nat
      /\ Cardinality(Ahead) \in Nat
      /\ Cardinality(allocated) \in Nat
  BY <1>1, FS_CardinalityType
<1>3. freed \in Nat
  BY DEF HeapOK, HeapTypeOK
<1>4. QED
  BY <1>2, <1>3 DEF HeapOK, CountOK

LEMMA SessionOKImpliesTypes ==
  SessionOK => SessionTypeOK
<1> SUFFICES ASSUME SessionOK PROVE SessionTypeOK
  OBVIOUS
<1>1. sInstanceCount \in Nat
  BY CountIsNat DEF SessionOK
<1>2. older \subseteq Obj \X Obj
  BY DEF SessionOK, HeapOK, HeapTypeOK, OrderOK
<1>3. QED
  BY <1>1, <1>2 DEF SessionOK, SessionTypeOK, HeapOK, HeapTypeOK, PromptTypeOK

-----------------------------------------------------------------------------
(* Values *)

LEMMA WithTags ==
  ASSUME NEW v \in Value, NEW t \in 0..3
  PROVE  /\ setTags(v, t) \in Value
         /\ setTags(v, t).sign = v.sign
         /\ setTags(v, t).magic = v.magic
         /\ setTags(v, t).tags = t
         /\ setTags(v, t).low = v.low
BY DEF setTags, Value

LEMMA Constructed ==
  ASSUME NEW p \in Obj
  PROVE  /\ StringValue(p) \in Value
         /\ ArrayValue(p) \in Value
         /\ QuoteValue(p) \in Value
         /\ asPointer(StringValue(p)) = p
         /\ asPointer(ArrayValue(p)) = p
         /\ asPointer(QuoteValue(p)) = p
         /\ type(StringValue(p)) = "String"
         /\ type(ArrayValue(p)) = "Array"
         /\ type(QuoteValue(p)) = "Quote"
<1> DEFINE Tagged(v, t) ==
             v \in Value /\ v.sign = 1 /\ v.magic /\ v.tags = t /\ v.low = p
<1>1. Tagged(StringValue(p), 0)
  BY DEF StringValue, setPointer, Value
<1>2. Tagged(ArrayValue(p), 1)
  BY <1>1, WithTags DEF StringValue, ArrayValue, kArrayTag
<1>3. Tagged(QuoteValue(p), 2)
  BY <1>1, WithTags DEF StringValue, QuoteValue, kQuoteTag
<1>4. p # NoObj
  BY NoObjAssumption
<1>5. ASSUME NEW t \in 0..2, NEW v, Tagged(v, t)
      PROVE  /\ asPointer(v) = p
             /\ type(v) = <<"String", "Array", "Quote", "none">>[t + 1]
  <2>1. isPointer(v) /\ ~isDouble(v) /\ ~isNullPointer(v)
    BY <1>4, <1>5 DEF isPointer, isDouble, isNullPointer
  <2>2. QED
    BY <1>5, <2>1 DEF asPointer, type
<1>6. QED
  <2>1. /\ asPointer(StringValue(p)) = p
        /\ type(StringValue(p)) = "String"
    BY <1>1, <1>5
  <2>2. /\ asPointer(ArrayValue(p)) = p
        /\ type(ArrayValue(p)) = "Array"
    BY <1>2, <1>5
  <2>3. /\ asPointer(QuoteValue(p)) = p
        /\ type(QuoteValue(p)) = "Quote"
    BY <1>3, <1>5
  <2>4. QED
    BY <1>1, <1>2, <1>3, <2>1, <2>2, <2>3

LEMMA NoPointer ==
  /\ \A t \in 0..3 : Double(0, t) \in Value /\ asPointer(Double(0, t)) = NoObj
  /\ InlineString \in Value /\ asPointer(InlineString) = NoObj
  /\ NullValue \in Value /\ asPointer(NullValue) = NoObj
  /\ asPointer(ArrayValue(NoObj)) = NoObj
<1>1. \A t \in 0..3 : Double(0, t) \in Value /\ asPointer(Double(0, t)) = NoObj
  BY DEF Double, Value, asPointer, isPointer
<1>2. InlineString \in Value /\ asPointer(InlineString) = NoObj
  BY DEF InlineString, setInline, Value, asPointer, isPointer
<1>3. NullValue \in Value /\ asPointer(NullValue) = NoObj
  BY DEF NullValue, setPointer, Value, asPointer
<1>4. asPointer(ArrayValue(NoObj)) = NoObj
  BY DEF ArrayValue, setPointer, setTags, asPointer
<1>5. QED
  BY <1>1, <1>2, <1>3, <1>4

LEMMA PointerType ==
  ASSUME NEW v \in Value
  PROVE  asPointer(v) \in Obj \cup {NoObj}
BY DEF Value, asPointer

-----------------------------------------------------------------------------
(* Frames and the stack *)

LEMMA TopIsFrame ==
  ASSUME NEW fs \in Seq(Frame), fs # <<>>
  PROVE  /\ Len(fs) \in 1..Len(fs)
         /\ fs[Len(fs)] \in Frame
         /\ fs[Len(fs)].literals \in Seq(Value)
         /\ fs[Len(fs)].array \in Obj \cup {NoObj}
<1>1. Len(fs) \in 1..Len(fs)
  BY EmptySeq, LenProperties
<1>2. fs[Len(fs)] \in Frame
  BY <1>1, ElementOfSeq
<1>3. QED
  BY <1>1, <1>2 DEF Frame

LEMMA FrameWith ==
  ASSUME NEW f \in Frame, NEW l \in Seq(Value)
  PROVE  /\ [f EXCEPT !.literals = l] \in Frame
         /\ [f EXCEPT !.literals = l].kind = f.kind
         /\ [f EXCEPT !.literals = l].array = f.array
         /\ [f EXCEPT !.literals = l].literals = l
BY DEF Frame

LEMMA Prefix ==
  ASSUME NEW S, NEW s \in Seq(S), NEW n \in 0..Len(s)
  PROVE  /\ SubSeq(s, 1, n) \in Seq(S)
         /\ Len(SubSeq(s, 1, n)) = n
         /\ \A i \in 1..n : SubSeq(s, 1, n)[i] = s[i]
OBVIOUS

\* A call of AddValue() extends one sequence by one value.
LEMMA AddValueAdds ==
  ASSUME NEW v \in Value, NEW fs \in Seq(Frame), fs # <<>>,
         NEW h \in [Obj -> Seq(Value)], AddValue(v, fs, h)
  PROVE  /\ frames' \in Seq(Frame)
         /\ Len(frames') = Len(fs)
         /\ holds' \in [Obj -> Seq(Value)]
         /\ \A i \in 1..Len(fs) :
              /\ frames'[i].kind = fs[i].kind
              /\ frames'[i].array = fs[i].array
              /\ frames'[i].literals \in
                   {fs[i].literals, Append(fs[i].literals, v)}
         /\ \A p \in Obj :
              \/ holds'[p] = h[p]
              \/ /\ holds'[p] = Append(h[p], v)
                 /\ \E i \in 1..Len(fs) : fs[i].kind = "array" /\ fs[i].array = p
<1> DEFINE n == Len(fs)
           f == fs[n]
<1>1. n \in 1..Len(fs) /\ f \in Frame /\ f.literals \in Seq(Value)
  BY TopIsFrame
<1>2. CASE f.kind = "array"
  <2>1. frames' = fs /\ holds' = [h EXCEPT ![f.array] = Append(@, v)]
    BY <1>2 DEF AddValue
  <2>2. \A p \in Obj : holds'[p] = IF p = f.array THEN Append(h[p], v) ELSE h[p]
    BY <2>1
  <2>3. holds' \in [Obj -> Seq(Value)]
    <3>1. \A p \in Obj : h[p] \in Seq(Value) /\ Append(h[p], v) \in Seq(Value)
      OBVIOUS
    <3>2. holds' = [p \in Obj |-> IF p = f.array THEN Append(h[p], v) ELSE h[p]]
      BY <2>1
    <3> HIDE DEF n, f
    <3>3. QED
      BY <3>1, <3>2
  <2>4. \A p \in Obj :
          \/ holds'[p] = h[p]
          \/ /\ holds'[p] = Append(h[p], v)
             /\ \E i \in 1..Len(fs) : fs[i].kind = "array" /\ fs[i].array = p
    BY <1>1, <1>2, <2>2
  <2>5. frames' = fs
    BY <2>1
  <2> HIDE DEF n, f
  <2>6. QED
    BY <2>3, <2>4, <2>5
<1>3. CASE f.kind # "array"
  <2> DEFINE l == Append(f.literals, v)
             g == [f EXCEPT !.literals = l]
  <2>1. holds' = h /\ frames' = [fs EXCEPT ![n] = g]
    BY <1>3 DEF AddValue
  <2>2. l \in Seq(Value)
    BY <1>1
  <2>3. g \in Frame /\ g.kind = f.kind /\ g.array = f.array /\ g.literals = l
    <3> HIDE DEF l, f
    <3>1. QED
      BY <1>1, <2>2, FrameWith
  <2>4. /\ frames' \in Seq(Frame)
        /\ Len(frames') = Len(fs)
        /\ \A i \in 1..Len(fs) : frames'[i] = IF i = n THEN g ELSE fs[i]
    <3> HIDE DEF g
    <3>1. QED
      BY <1>1, <2>1, <2>3, ExceptSeq
  <2>5. QED
    BY <1>1, <2>1, <2>3, <2>4
<1>4. QED
  BY <1>2, <1>3

LEMMA CallersAreFrames ==
  ASSUME PromptTypeOK, frames # <<>>, frames[1].kind = "line", Top.kind # "line"
  PROVE  /\ Callers \in Seq(Frame)
         /\ Callers # <<>>
         /\ Len(Callers) = Len(frames) - 1
         /\ \A i \in 1..Len(Callers) : Callers[i] = frames[i]
<1>1. Len(frames) \in Nat \ {0}
  BY EmptySeq DEF PromptTypeOK
<1>2. Len(frames) # 1
  BY DEF Top
<1>3. \A i \in 1..(Len(frames) - 1) : frames[i] \in Frame
  BY <1>1, ElementOfSeq DEF PromptTypeOK
<1>4. /\ Callers \in Seq(Frame)
      /\ Len(Callers) = Len(frames) - 1
      /\ \A i \in 1..(Len(frames) - 1) : Callers[i] = frames[i]
  <2>1. Len(frames) - 1 \in 0..Len(frames)
    BY <1>1
  <2>2. QED
    BY <2>1, Prefix DEF Callers, PromptTypeOK
<1>5. Callers # <<>>
  BY <1>1, <1>2, <1>4
<1>6. QED
  BY <1>1, <1>4, <1>5

LEMMA PushedFrame ==
  ASSUME frames \in Seq(Frame), NEW k \in {"quote", "array"},
         NEW p \in Obj \cup {NoObj}
  PROVE  /\ Append(frames, Call(k, p)) \in Seq(Frame)
         /\ Append(frames, Call(k, p)) # <<>>
         /\ Len(Append(frames, Call(k, p))) = Len(frames) + 1
         /\ \A i \in 1..Len(frames) : Append(frames, Call(k, p))[i] = frames[i]
         /\ Append(frames, Call(k, p))[Len(frames) + 1] = Call(k, p)
         /\ Call(k, p) \in Frame
<1>1. Call(k, p) \in Frame
  BY DEF Call, Frame
<1>2. QED
  BY <1>1

\* A literal the interpreter may come upon is a value.
LEMMA RunLiteralsAreValues ==
  ASSUME PromptTypeOK, HeapTypeOK, frames # <<>>, NEW v \in RunLiterals
  PROVE  /\ v \in Value
         /\ \/ \E i \in 1..Len(frames[1].literals) : v = frames[1].literals[i]
            \/ \E n \in defined : \E i \in 1..Len(code[n]) : v = code[n][i]
            \/ \E p \in Obj : /\ \E j \in 1..Len(stack) : asPointer(stack[j]) = p
                              /\ \E i \in 1..Len(holds[p]) : v = holds[p][i]
<1>1. 1 \in 1..Len(frames) /\ frames[1] \in Frame
  BY EmptySeq, ElementOfSeq DEF PromptTypeOK
<1>2. frames[1].literals \in Seq(Value)
  BY <1>1 DEF Frame
<1>3. CASE v \in Range(frames[1].literals)
  BY <1>2, <1>3, LenProperties, ElementOfSeq DEF Range
<1>4. ASSUME NEW n \in Names, Callable(n), v \in Range(code[n])
      PROVE  /\ v \in Value
             /\ \E i \in 1..Len(code[n]) : v = code[n][i]
             /\ n \in defined
  BY <1>4, LenProperties, ElementOfSeq DEF Range, PromptTypeOK, Callable
<1>5. ASSUME NEW w \in Range(stack), isQuote(w), v \in Range(holds[asPointer(w)])
      PROVE  /\ v \in Value
             /\ asPointer(w) \in Obj
             /\ \E j \in 1..Len(stack) : asPointer(stack[j]) = asPointer(w)
             /\ \E i \in 1..Len(holds[asPointer(w)]) : v = holds[asPointer(w)][i]
  <2>1. w \in Value /\ \E j \in 1..Len(stack) : stack[j] = w
    BY LenProperties DEF Range, PromptTypeOK
  <2>2. asPointer(w) \in Obj
    BY <1>5, <2>1, PointerType DEF isQuote
  <2>3. holds[asPointer(w)] \in Seq(Value)
    BY <2>2 DEF HeapTypeOK
  <2>4. QED
    BY <1>5, <2>1, <2>2, <2>3, LenProperties, ElementOfSeq DEF Range
<1>6. \/ v \in Range(frames[1].literals)
      \/ \E n \in Names : Callable(n) /\ v \in Range(code[n])
      \/ \E w \in Range(stack) : isQuote(w) /\ v \in Range(holds[asPointer(w)])
  <2> DEFINE A == UNION {Range(code[n]) : n \in {m \in Names : Callable(m)}}
             B == UNION {Range(holds[asPointer(w)]) :
                           w \in {x \in Range(stack) : isQuote(x)}}
  <2>1. v \in A => \E n \in Names : Callable(n) /\ v \in Range(code[n])
    OBVIOUS
  <2>2. v \in B => \E w \in Range(stack) :
                      isQuote(w) /\ v \in Range(holds[asPointer(w)])
    OBVIOUS
  <2>3. v \in Range(frames[1].literals) \/ v \in A \/ v \in B
    <3>1. RunLiterals = Range(frames[1].literals) \cup A \cup B
      BY DEF RunLiterals
    <3> HIDE DEF A, B
    <3>2. QED
      BY <3>1
  <2> HIDE DEF A, B
  <2>4. QED
    BY <2>1, <2>2, <2>3
<1>7. QED
  BY <1>3, <1>4, <1>5, <1>6

\* gcScan() visits no word.
LEMMA NothingScanned ==
  ASSUME NEW literals \in Orders(ScannedLiterals)
  PROVE  literals = <<>>
<1>1. ScannedLiterals = {}
  BY DEF ScannedLiterals, BeginVocabulary, EndVocabulary
<1>2. literals \in [1..0 -> {}]
  BY <1>1, FS_EmptySet DEF Orders
<1>3. QED
  BY <1>2

LEMMA PopKeepsBottom ==
  ASSUME stack \in Seq(Value), NEW n \in 0..2, Len(stack) >= n
  PROVE  /\ Pop(n) \in Seq(Value)
         /\ Len(Pop(n)) = Len(stack) - n
         /\ \A i \in 1..Len(Pop(n)) : Pop(n)[i] = stack[i]
<1>1. Len(stack) - n \in 0..Len(stack)
  OBVIOUS
<1>2. /\ SubSeq(stack, 1, Len(stack) - n) \in Seq(Value)
      /\ Len(SubSeq(stack, 1, Len(stack) - n)) = Len(stack) - n
      /\ \A i \in 1..(Len(stack) - n) : SubSeq(stack, 1, Len(stack) - n)[i] = stack[i]
  BY <1>1, Prefix
<1>3. QED
  BY <1>2 DEF Pop

LEMMA PeekIsOnStack ==
  ASSUME stack \in Seq(Value), NEW n \in 0..1, Len(stack) > n
  PROVE  /\ Peek(n) \in Value
         /\ Len(stack) - n \in 1..Len(stack)
BY DEF Peek

-----------------------------------------------------------------------------
(* Every step keeps the invariant *)

LEMMA IdleOutsideCollect ==
  ASSUME SessionOK, phase \notin {"collect", "crashed"}
  PROVE  gcState = "idle"
BY DEF SessionOK, PhaseOK, HeapOK, HeapTypeOK, GCStates

LEMMA InitialSession ==
  Init => SessionOK
<1> SUFFICES ASSUME Init PROVE SessionOK
  OBVIOUS
<1>1. HeapOK
  BY InitialHeap DEF Init
<1>2. <<>> \in Seq(Value) /\ <<>> \in Seq(Frame)
  OBVIOUS
<1>3. PromptTypeOK
  BY <1>2 DEF Init, PromptTypeOK, Phases
<1>4. PhaseOK
  BY DEF Init, HeapInit, PhaseOK
<1>5. QED
  BY <1>1, <1>3, <1>4 DEF SessionOK

LEMMA PromptKeepsSession ==
  ASSUME SessionOK, Prompt
  PROVE  SessionOK'
<1>1. HeapOK'
  BY UnchangedHeap DEF SessionOK, Prompt, EndOfInput, ClearStack, ReadLine
<1>2. gcState = "idle" /\ gcState' = "idle"
  BY IdleOutsideCollect
  DEF Prompt, EndOfInput, ClearStack, ReadLine, heapVars
<1>3. CASE EndOfInput
  BY <1>1, <1>2, <1>3
  DEF EndOfInput, SessionOK, PromptTypeOK, PhaseOK, Phases
<1>4. CASE ClearStack
  BY <1>1, <1>2, <1>4
  DEF ClearStack, SessionOK, PromptTypeOK, PhaseOK, Phases
<1>5. CASE ReadLine
  <2>1. Call("line", NoObj) \in Frame /\ Call("line", NoObj).kind = "line"
    BY DEF Call, Frame
  <2>2. /\ frames' \in Seq(Frame)
        /\ frames' # <<>>
        /\ frames'[1].kind = "line"
    BY <1>5, <2>1 DEF ReadLine
  <2>3. QED
    BY <1>1, <1>2, <1>5, <2>2
    DEF ReadLine, SessionOK, PromptTypeOK, PhaseOK, Phases
<1>6. QED
  BY <1>3, <1>4, <1>5 DEF Prompt

\* What an action of the parser or the interpreter has to show
LEMMA BusyStep ==
  ASSUME SessionOK, phase \in {"parse", "run"}, phase' = phase,
         gcState' = gcState, HeapOK',
         stack' \in Seq(Value), frames' \in Seq(Frame),
         frames' # <<>>, frames'[1].kind = frames[1].kind,
         defined' \subseteq Names, code' \in [Names -> Seq(Value)]
  PROVE  SessionOK'
<1>1. gcState = "idle"
  BY IdleOutsideCollect
<1>2. QED
  BY <1>1 DEF SessionOK, PromptTypeOK, PhaseOK

\* The same for one that adds a value in the innermost of some calls
LEMMA AddValueStep ==
  ASSUME SessionOK, phase = "parse", phase' = phase, gcState' = gcState,
         NEW v \in Value, NEW fs \in Seq(Frame), fs # <<>>,
         fs[1].kind = frames[1].kind,
         NEW h \in [Obj -> Seq(Value)], AddValue(v, fs, h),
         holds' \in [Obj -> Seq(Value)] => HeapOK',
         UNCHANGED <<stack, defined, code>>
  PROVE  SessionOK'
<1>1. /\ frames' \in Seq(Frame)
      /\ Len(frames') = Len(fs)
      /\ holds' \in [Obj -> Seq(Value)]
      /\ \A i \in 1..Len(fs) : frames'[i].kind = fs[i].kind
  BY AddValueAdds
<1>2. Len(fs) \in Nat \ {0}
  BY EmptySeq
<1>3. frames' # <<>> /\ frames'[1].kind = frames[1].kind
  BY <1>1, <1>2
<1>4. QED
  BY <1>1, <1>3, BusyStep DEF SessionOK, PromptTypeOK

LEMMA ParseKeepsSession ==
  ASSUME SessionOK, Parse
  PROVE  SessionOK'
<1>1. /\ phase = "parse" /\ gcState = "idle" /\ HeapOK
      /\ frames \in Seq(Frame) /\ frames # <<>> /\ frames[1].kind = "line"
      /\ stack \in Seq(Value) /\ defined \subseteq Names
      /\ code \in [Names -> Seq(Value)]
      /\ holds \in [Obj -> Seq(Value)]
  BY IdleOutsideCollect
  DEF Parse, SimpleLiteral, StringLiteral, OpenArray, CloseArray, OpenQuote,
      CloseQuote, CompileError, Uncaught, BeginRun, SessionOK, PhaseOK,
      PromptTypeOK, HeapOK, HeapTypeOK
<1>2. {"String", "Array", "Quote"} \subseteq ObjTypes /\ <<>> \in Seq(Value)
  BY DEF ObjTypes
<1>3. CASE SimpleLiteral
  <2>1. PICK v \in {Double(0, t) : t \in Doubles} \cup {InlineString} :
          AddValue(v, frames, holds)
    BY <1>3 DEF SimpleLiteral
  <2>2. v \in Value
    BY <2>1, NoPointer, ReplAssumption
  <2>3. holds' \in [Obj -> Seq(Value)] => HeapOK'
    BY <1>1, <1>3, HoldsDoNotMatter DEF SimpleLiteral, SameObjects
  <2>4. QED
    BY <1>1, <1>3, <2>1, <2>2, <2>3, AddValueStep
    DEF SimpleLiteral, SameObjects
<1>4. CASE StringLiteral
  <2>1. PICK p \in Obj :
          /\ NewObject(p, "String")
          /\ AddValue(StringValue(p), frames, [holds EXCEPT ![p] = <<>>])
    BY <1>4 DEF StringLiteral
  <2>2. [holds EXCEPT ![p] = <<>>] \in [Obj -> Seq(Value)]
    BY <1>1, <1>2
  <2>3. holds' \in [Obj -> Seq(Value)] => HeapOK'
    BY <1>1, <1>2, <2>1, NewObjectKeepsHeap
  <2>4. StringValue(p) \in Value
    BY Constructed
  <2>5. QED
    BY <1>1, <1>4, <2>1, <2>2, <2>3, <2>4, AddValueStep
    DEF StringLiteral, NewObject
<1>5. CASE OpenArray
  <2>1. PICK p \in Obj :
          /\ NewObject(p, "Array")
          /\ holds' = [holds EXCEPT ![p] = <<>>]
          /\ frames' = Append(frames, Call("array", p))
    BY <1>5 DEF OpenArray
  <2>2. HeapOK'
    BY <1>1, <1>2, <2>1, NewObjectKeepsHeap
  <2>3. frames' \in Seq(Frame) /\ frames' # <<>> /\ frames'[1] = frames[1]
    <3>1. 1 \in 1..Len(frames)
      BY <1>1, EmptySeq
    <3>2. QED
      BY <1>1, <2>1, <3>1, PushedFrame
  <2>4. QED
    BY <1>1, <1>5, <2>1, <2>2, <2>3, BusyStep DEF OpenArray, NewObject
<1>6. CASE CloseArray
  <2>1. /\ Callers \in Seq(Frame) /\ Callers # <<>>
        /\ Callers[1].kind = frames[1].kind
    BY <1>1, <1>6, CallersAreFrames, EmptySeq
    DEF CloseArray, SessionOK
  <2>2. ArrayValue(Top.array) \in Value
    <3>1. Top.array \in Obj \cup {NoObj}
      BY <1>1, TopIsFrame DEF Top
    <3>2. setPointer(Top.array) \in Value
      BY <3>1 DEF setPointer, Value
    <3>3. QED
      BY <3>2, WithTags DEF ArrayValue, kArrayTag
  <2>3. holds' \in [Obj -> Seq(Value)] => HeapOK'
    BY <1>1, <1>6, HoldsDoNotMatter DEF CloseArray, SameObjects
  <2>4. QED
    BY <1>1, <1>6, <2>1, <2>2, <2>3, AddValueStep
    DEF CloseArray, SameObjects
<1>7. CASE OpenQuote
  <2>1. frames' \in Seq(Frame) /\ frames' # <<>> /\ frames'[1] = frames[1]
    BY <1>1, <1>7, PushedFrame, EmptySeq DEF OpenQuote
  <2>2. HeapOK'
    BY <1>1, <1>7, UnchangedHeap DEF OpenQuote
  <2>3. QED
    BY <1>1, <1>7, <2>1, <2>2, BusyStep DEF OpenQuote, heapVars
<1>8. CASE CloseQuote
  <2>1. PICK p \in Obj :
          /\ NewObject(p, "Quote")
          /\ AddValue(QuoteValue(p), Callers,
                      [holds EXCEPT ![p] = Top.literals])
    BY <1>8 DEF CloseQuote
  <2>2. /\ Callers \in Seq(Frame) /\ Callers # <<>>
        /\ Callers[1].kind = frames[1].kind
    <3>1. Top.kind # "line"
      BY <1>8 DEF CloseQuote
    <3>2. QED
      BY <1>1, <3>1, CallersAreFrames, EmptySeq DEF SessionOK
  <2>3. Top.literals \in Seq(Value)
    BY <1>1, TopIsFrame DEF Top
  <2>4. [holds EXCEPT ![p] = Top.literals] \in [Obj -> Seq(Value)]
    BY <1>1, <2>3
  <2>5. holds' \in [Obj -> Seq(Value)] => HeapOK'
    BY <1>1, <1>2, <2>1, NewObjectKeepsHeap
  <2>6. QuoteValue(p) \in Value
    BY Constructed
  <2>7. QED
    BY <1>1, <1>8, <2>1, <2>2, <2>4, <2>5, <2>6, AddValueStep
    DEF CloseQuote, NewObject
<1>9. CASE CompileError \/ Uncaught
  <2>1. HeapOK' /\ gcState' = "idle"
    BY <1>1, <1>9, UnchangedHeap DEF CompileError, Uncaught, heapVars
  <2>2. <<>> \in Seq(Frame)
    OBVIOUS
  <2>3. QED
    BY <1>1, <1>9, <2>1, <2>2
    DEF CompileError, Uncaught, SessionOK, PromptTypeOK, PhaseOK, Phases
<1>10. CASE BeginRun
  <2>1. HeapOK' /\ gcState' = "idle"
    BY <1>1, <1>10, UnchangedHeap DEF BeginRun, heapVars
  <2>2. QED
    BY <1>1, <1>10, <2>1
    DEF BeginRun, SessionOK, PromptTypeOK, PhaseOK, Phases
<1>11. QED
  BY <1>3, <1>4, <1>5, <1>6, <1>7, <1>8, <1>9, <1>10 DEF Parse

LEMMA RunKeepsSession ==
  ASSUME SessionOK, Run
  PROVE  SessionOK'
<1>1. /\ phase = "run" /\ gcState = "idle" /\ HeapOK
      /\ frames \in Seq(Frame) /\ frames # <<>> /\ frames[1].kind = "line"
      /\ stack \in Seq(Value) /\ defined \subseteq Names
      /\ code \in [Names -> Seq(Value)]
      /\ holds \in [Obj -> Seq(Value)]
  BY IdleOutsideCollect
  DEF Run, RunLiteral, RunDup, RunDrop, RunSwap, RunNull, RunArithmetic,
      RunConcat, RunAddItem, RunDefine, EndRun, SessionOK, PhaseOK,
      PromptTypeOK, HeapOK, HeapTypeOK
<1>2. {"String", "Array", "Quote"} \subseteq ObjTypes /\ <<>> \in Seq(Value)
  BY DEF ObjTypes
<1>3. ASSUME UNCHANGED heapVars, phase' = phase, frames' = frames,
             stack' \in Seq(Value),
             defined' \subseteq Names, code' \in [Names -> Seq(Value)]
      PROVE  SessionOK'
  <2>1. HeapOK' /\ gcState' = gcState
    BY <1>1, <1>3, UnchangedHeap DEF heapVars
  <2>2. QED
    BY <1>1, <1>3, <2>1, BusyStep
<1>4. CASE RunLiteral
  <2>1. PICK v \in RunLiterals : stack' = Append(stack, v)
    BY <1>4 DEF RunLiteral
  <2>2. v \in Value
    BY <1>1, <2>1, RunLiteralsAreValues DEF SessionOK, HeapOK
  <2>3. stack' \in Seq(Value)
    BY <1>1, <2>1, <2>2
  <2>4. QED
    BY <1>1, <1>3, <1>4, <2>3 DEF RunLiteral
<1>5. CASE RunDup
  <2>1. Len(stack) > 0
    BY <1>1, <1>5, ReplAssumption DEF RunDup
  <2>2. stack' \in Seq(Value)
    BY <1>1, <1>5, <2>1, PeekIsOnStack DEF RunDup
  <2>3. QED
    BY <1>1, <1>3, <1>5, <2>2 DEF RunDup
<1>6. CASE RunDrop
  <2>1. Len(stack) >= 1
    BY <1>1, <1>6, EmptySeq DEF RunDrop
  <2>2. stack' \in Seq(Value)
    BY <1>1, <1>6, <2>1, PopKeepsBottom DEF RunDrop
  <2>3. QED
    BY <1>1, <1>3, <1>6, <2>2 DEF RunDrop
<1>7. CASE RunSwap
  <2>1. Pop(2) \in Seq(Value) /\ Peek(0) \in Value /\ Peek(1) \in Value
    BY <1>1, <1>7, PeekIsOnStack, PopKeepsBottom DEF RunSwap
  <2>2. stack' \in Seq(Value)
    BY <1>7, <2>1 DEF RunSwap
  <2>3. QED
    BY <1>1, <1>3, <1>7, <2>2 DEF RunSwap
<1>8. CASE RunNull
  <2>1. stack' \in Seq(Value)
    BY <1>1, <1>8, NoPointer DEF RunNull
  <2>2. QED
    BY <1>1, <1>3, <1>8, <2>1 DEF RunNull
<1>9. CASE RunArithmetic
  <2>1. Pop(2) \in Seq(Value)
    BY <1>1, <1>9, PopKeepsBottom DEF RunArithmetic
  <2>2. stack' \in Seq(Value)
    <3>1. \A t \in Doubles : Double(0, t) \in Value
      BY NoPointer, ReplAssumption
    <3>2. \/ \E t \in Doubles : stack' = Append(Pop(2), Double(0, t))
          \/ stack' = Append(Pop(2), NullValue)
      BY <1>9 DEF RunArithmetic
    <3>3. QED
      BY <2>1, <3>1, <3>2, NoPointer
  <2>3. QED
    BY <1>1, <1>3, <1>9, <2>2 DEF RunArithmetic
<1>10. CASE RunConcat
  <2>1. Pop(2) \in Seq(Value) /\ Peek(0) \in Value /\ Peek(1) \in Value
    BY <1>1, <1>10, PeekIsOnStack, PopKeepsBottom DEF RunConcat
  <2>2. CASE /\ \E i \in 0..1 : stack' = Append(Pop(2), Peek(1 - i))
             /\ UNCHANGED heapVars
    <3>1. stack' \in Seq(Value)
      BY <2>1, <2>2
    <3>2. QED
      BY <1>1, <1>3, <1>10, <2>2, <3>1 DEF RunConcat
  <2>3. ASSUME NEW p \in Obj, NewObject(p, "String"),
               holds' = [holds EXCEPT ![p] = <<>>],
               stack' = Append(Pop(2), StringValue(p))
        PROVE  SessionOK'
    <3>1. HeapOK'
      BY <1>1, <1>2, <2>3, NewObjectKeepsHeap
    <3>2. stack' \in Seq(Value)
      BY <2>1, <2>3, Constructed
    <3>3. QED
      BY <1>1, <1>10, <2>3, <3>1, <3>2, BusyStep DEF RunConcat, NewObject
  <2>4. QED
    BY <1>10, <2>2, <2>3 DEF RunConcat
<1>11. CASE RunAddItem
  <2>1. Pop(2) \in Seq(Value) /\ Peek(0) \in Value /\ Peek(1) \in Value
    BY <1>1, <1>11, PeekIsOnStack, PopKeepsBottom DEF RunAddItem
  <2>2. asPointer(Peek(1)) \in Obj
    BY <1>11, <2>1, PointerType DEF RunAddItem, isArray
  <2>3. PICK p \in Obj :
          /\ NewObject(p, "Array")
          /\ holds' = [holds EXCEPT ![p] = Append(holds[asPointer(Peek(1))], Peek(0))]
          /\ stack' = Append(Pop(2), ArrayValue(p))
    BY <1>11 DEF RunAddItem
  <2>4. Append(holds[asPointer(Peek(1))], Peek(0)) \in Seq(Value)
    BY <1>1, <2>1, <2>2
  <2>5. HeapOK'
    BY <1>1, <1>2, <2>3, <2>4, NewObjectKeepsHeap
  <2>6. stack' \in Seq(Value)
    BY <2>1, <2>3, Constructed
  <2>7. QED
    BY <1>1, <1>11, <2>3, <2>5, <2>6, BusyStep DEF RunAddItem, NewObject
<1>12. CASE RunDefine
  <2>1. Pop(2) \in Seq(Value) /\ Peek(1) \in Value
    BY <1>1, <1>12, PeekIsOnStack, PopKeepsBottom DEF RunDefine
  <2>2. asPointer(Peek(1)) \in Obj
    BY <1>12, <2>1, PointerType DEF RunDefine, isQuote
  <2>3. holds[asPointer(Peek(1))] \in Seq(Value)
    BY <1>1, <2>2
  <2>4. defined' \subseteq Names /\ code' \in [Names -> Seq(Value)]
    BY <1>1, <1>12, <2>3 DEF RunDefine
  <2>5. QED
    BY <1>1, <1>3, <1>12, <2>1, <2>4 DEF RunDefine
<1>13. CASE EndRun
  <2>1. PICK literals \in Orders(ScannedLiterals) :
          BeginMark(literals \o ScannedStack)
    BY <1>13 DEF EndRun
  <2>2. literals = <<>>
    BY <2>1, NothingScanned
  <2>3. BeginMark(stack)
    BY <1>1, <2>1, <2>2, ConcatEmptySeq DEF ScannedStack
  <2>4. HeapOK'
    BY <1>1, <2>3, BeginMarkKeepsHeap
  <2>5. <<>> \in Seq(Frame)
    OBVIOUS
  <2>6. QED
    BY <1>1, <1>13, <2>3, <2>4, <2>5
    DEF EndRun, BeginMark, SessionOK, PromptTypeOK, PhaseOK, Phases
<1>14. QED
  BY <1>4, <1>5, <1>6, <1>7, <1>8, <1>9, <1>10, <1>11, <1>12, <1>13 DEF Run

LEMMA CollectKeepsSession ==
  ASSUME SessionOK, Collect
  PROVE  SessionOK'
<1>1. HeapOK'
  BY CollectStepKeepsHeap DEF SessionOK, Collect
<1>2. /\ gcState' \in GCStates
      /\ gcState' = "fault" => Fault
  BY <1>1
  DEF HeapOK, HeapTypeOK, Collect, CollectStep, Fault, Mark, BeginSweep,
      KeepMarked, FreeUnmarked, EndSweep, SessionOK, PhaseOK
<1>3. PromptTypeOK'
  BY DEF SessionOK, Collect, PromptTypeOK, Phases
<1>4. gcState' = "fault" => (agenda # <<>> /\ MarkFaults(Head(agenda)))'
  BY <1>2 DEF Fault, MarkFaults, objects
<1>5. PhaseOK'
  <2>1. CASE gcState' = "fault"
    BY <1>4, <2>1 DEF SessionOK, Collect, PhaseOK
  <2>2. CASE gcState' = "idle"
    BY <2>2 DEF SessionOK, Collect, PhaseOK
  <2>3. CASE gcState' \in {"mark", "sweep"}
    BY <2>3 DEF SessionOK, Collect, PhaseOK
  <2>4. QED
    BY <1>2, <2>1, <2>2, <2>3 DEF GCStates
<1>6. QED
  BY <1>1, <1>3, <1>5 DEF SessionOK

LEMMA UnchangedSession ==
  SessionOK /\ UNCHANGED vars => SessionOK'
<1> SUFFICES ASSUME SessionOK, UNCHANGED vars PROVE SessionOK'
  OBVIOUS
<1>1. HeapOK'
  BY UnchangedHeap DEF SessionOK, vars
<1>2. QED
  BY <1>1
  DEF SessionOK, vars, heapVars, objects, promptVars, PromptTypeOK, PhaseOK,
      MarkFaults

LEMMA StepKeepsSession ==
  SessionOK /\ [Next]_vars => SessionOK'
BY PromptKeepsSession, ParseKeepsSession, RunKeepsSession, CollectKeepsSession,
   UnchangedSession
DEF Next

LEMMA SessionInvariant ==
  Spec => []SessionOK
BY InitialSession, StepKeepsSession, PTL DEF Spec

(***************************************************************************)
(* All variables keep their types; sInstanceCount, from which sweep()      *)
(* subtracts what it freed, never becomes negative (gc.cc:89).             *)
(***************************************************************************)
THEOREM SessionTypeCorrect ==
  Spec => []SessionTypeOK
BY SessionInvariant, SessionOKImpliesTypes, PTL

(***************************************************************************)
(* The list of objects stays whole, and the assertion of sweep() about its *)
(* counters holds, however many objects there are and whichever of them    *)
(* are freed (gc.cc:60-90).                                                *)
(***************************************************************************)
THEOREM ListStaysWhole ==
  Spec => []ListWhole
<1>1. SessionOK => ListWhole
  BY HeapOKImpliesListWhole DEF SessionOK
<1>2. QED
  BY <1>1, SessionInvariant, PTL

-----------------------------------------------------------------------------
(* The collector advances *)

LEMMA StepAdvances ==
  ASSUME SessionOK, Next
  PROVE  /\ gcState = "mark" /\ gcState' = "mark" =>
              \/ Unmarked' \subseteq Unmarked /\ Unmarked' # Unmarked
              \/ Unmarked' = Unmarked /\ Len(agenda') < Len(agenda)
         /\ gcState = "sweep" /\ gcState' = "sweep" =>
              Unswept' \subseteq Unswept /\ Unswept' # Unswept
<1>1. gcState \in {"mark", "sweep"} => CollectStep
  <2>1. gcState \in {"mark", "sweep"} => phase = "collect"
    BY DEF SessionOK, PhaseOK
  <2>2. QED
    BY <2>1
    DEF Next, Prompt, EndOfInput, ClearStack, ReadLine, Parse, SimpleLiteral,
        StringLiteral, OpenArray, CloseArray, OpenQuote, CloseQuote,
        CompileError, Uncaught, BeginRun, Run, RunLiteral, RunDup, RunDrop,
        RunSwap, RunNull, RunArithmetic, RunConcat, RunAddItem, RunDefine,
        EndRun, Collect
<1>2. ASSUME gcState = "mark", gcState' = "mark"
      PROVE  \/ Unmarked' \subseteq Unmarked /\ Unmarked' # Unmarked
             \/ Unmarked' = Unmarked /\ Len(agenda') < Len(agenda)
  <2> DEFINE v == Head(agenda)
             p == asPointer(v)
  <2>1. Mark
    BY <1>1, <1>2
    DEF CollectStep, Fault, BeginSweep, KeepMarked, FreeUnmarked, EndSweep
  <2>2. v \in Value /\ Len(Tail(agenda)) < Len(agenda)
    BY <2>1, HeadTailProperties, EmptySeq
    DEF Mark, SessionOK, HeapOK, HeapTypeOK
  <2>3. CASE MarksNow(v)
    <3>1. p \in allocated /\ ~marked[p]
      BY <2>1, <2>2, <2>3, MarksNowIsObject DEF Mark, MarksNow
    <3>2. Unmarked' = Unmarked \ {p}
      BY <2>1, <2>3, <3>1
      DEF Mark, Unmarked, objects, SessionOK, HeapOK, HeapTypeOK
    <3>3. QED
      BY <3>1, <3>2 DEF Unmarked
  <2>4. CASE ~MarksNow(v)
    BY <2>1, <2>2, <2>4 DEF Mark, Unmarked, objects
  <2>5. QED
    BY <2>3, <2>4
<1>3. ASSUME gcState = "sweep", gcState' = "sweep"
      PROVE  Unswept' \subseteq Unswept /\ Unswept' # Unswept
  <2>1. KeepMarked \/ FreeUnmarked
    BY <1>1, <1>3 DEF CollectStep, Fault, Mark, BeginSweep, EndSweep
  <2>2. o \in allocated /\ ~Passed(o)
    BY <1>3, <2>1, NextPassesOne
    DEF KeepMarked, FreeUnmarked, SessionOK, HeapOK, SweepOK
  <2>3. CASE KeepMarked
    BY <2>2, <2>3, KeepMarkedKeepsHeap
    DEF SessionOK, Unswept, KeepMarked, objects
  <2>4. CASE FreeUnmarked
    BY <2>2, <2>4, FreeUnmarkedKeepsHeap DEF SessionOK, Unswept, FreeUnmarked
  <2>5. QED
    BY <2>1, <2>3, <2>4
<1>4. QED
  BY <1>2, <1>3

(***************************************************************************)
(* Every step of a collection brings its end nearer, whatever graph the    *)
(* objects form (gc.cc:72-87): by the lexicographic order of the unmarked  *)
(* objects and the calls left, and then by the objects left to sweep.      *)
(***************************************************************************)
THEOREM CollectorProgress ==
  Spec => CollectorAdvances
<1> DEFINE A == /\ gcState = "mark" /\ gcState' = "mark" =>
                     \/ Unmarked' \subseteq Unmarked /\ Unmarked' # Unmarked
                     \/ Unmarked' = Unmarked /\ Len(agenda') < Len(agenda)
                /\ gcState = "sweep" /\ gcState' = "sweep" =>
                     Unswept' \subseteq Unswept /\ Unswept' # Unswept
<1>1. SessionOK /\ [Next]_vars => [A]_vars
  BY StepAdvances
<1>2. QED
  BY <1>1, SessionInvariant, PTL DEF Spec, CollectorAdvances
=============================================================================
