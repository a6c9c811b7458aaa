--------------------------- MODULE CompilerProofs ---------------------------
(***************************************************************************)
(* Proofs about the front end: whatever tokens come, the list of words and *)
(* the control stack stay well formed, branches get their targets, and     *)
(* control flow stays structured.  The last section has what code          *)
(* generation needs to know of branch targets.                             *)
(***************************************************************************)
EXTENDS Compiler, TLAPS

(***************************************************************************)
(* The words with the Inline flag contain no branches.  compiler.cc:123    *)
(* copies such a word without the targets of its branches, so with one the *)
(* theorems below would fail.                                              *)
(***************************************************************************)
InlinesAreStraight ==
  \A w \in DOMAIN InlineBody : InlineBody[w] \in Seq(PlainRef)

\* A word add() has stored in the list
Stored(sw) ==
  /\ sw.word \in Words \cup {"_LITERAL", "_BRANCH", "_ZBRANCH", "_RECURSE"}
  /\ sw.word = "_LITERAL" => sw.lit \in Literals

\* Control entries point into the list, the ones that await a target at
\* branches, no two at the same one.
ControlShape(ws, ctrl) ==
  /\ \A k \in DOMAIN ctrl :
       /\ ctrl[k].at \in 1..Len(ws)
       /\ ctrl[k].id # "b" => ctrl[k].at < Len(ws)
  /\ \A j, k \in DOMAIN ctrl :
       j # k /\ ctrl[j].id # "b" /\ ctrl[k].id # "b" => ctrl[j].at # ctrl[k].at

\* The inductive invariant of parsing, as a predicate of the two lists
WellFormed(ws, ctrl) ==
  /\ ws \in Seq(SourceWord)
  /\ ctrl \in Seq(Control)
  /\ Len(ws) >= 1
  /\ ws[Len(ws)].word = "NOP"
  /\ ws[Len(ws)].branchTo = 0
  /\ \A i \in 1..(Len(ws) - 1) : Stored(ws[i])
  /\ \A i \in 1..Len(ws) : ws[i].branchTo \in 0..Len(ws)
  /\ ControlShape(ws, ctrl)
  /\ Resolved(ws, ctrl)

\* add() stores the new word where the placeholder was and moves that up.
LEMMA AddShape ==
  ASSUME NEW ws \in Seq(SourceWord), Len(ws) >= 1,
         NEW ref \in PlainRef \cup BranchRef
  PROVE  /\ Add(ws, ref) \in Seq(SourceWord)
         /\ Len(Add(ws, ref)) = Len(ws) + 1
         /\ \A i \in 1..(Len(ws) - 1) : Add(ws, ref)[i] = ws[i]
         /\ Add(ws, ref)[Len(ws)] = NewSourceWord(ref, ws[Len(ws)].isDst)
         /\ Add(ws, ref)[Len(ws) + 1] = Placeholder
<1> DEFINE sw == NewSourceWord(ref, ws[Len(ws)].isDst)
<1>1. ws[Len(ws)] \in SourceWord
  OBVIOUS
<1>2. sw \in SourceWord
  BY <1>1 DEF SourceWord, NewSourceWord, PlainRef, BranchRef, SpecialWords
<1>3. Placeholder \in SourceWord
  BY DEF SourceWord, Placeholder, NewSourceWord, Ref
<1>4. Add(ws, ref) = Append([ws EXCEPT ![Len(ws)] = sw], Placeholder)
  BY DEF Add, Here
<1> HIDE DEF sw
<1>5. [ws EXCEPT ![Len(ws)] = sw] \in Seq(SourceWord)
  BY <1>2
<1>6. QED
  BY <1>2, <1>3, <1>4, <1>5 DEF sw

\* branchesTo() changes nothing but one target and one flag.
LEMMA BranchesToShape ==
  ASSUME NEW ws \in Seq(SourceWord),
         NEW src \in 1..Len(ws), NEW dst \in 1..Len(ws)
  PROVE  /\ BranchesTo(ws, src, dst) \in Seq(SourceWord)
         /\ Len(BranchesTo(ws, src, dst)) = Len(ws)
         /\ \A i \in 1..Len(ws) :
              /\ BranchesTo(ws, src, dst)[i].word = ws[i].word
              /\ BranchesTo(ws, src, dst)[i].lit = ws[i].lit
              /\ BranchesTo(ws, src, dst)[i].branchTo =
                   IF i = src THEN dst ELSE ws[i].branchTo
<1> DEFINE el(i) == [word |-> ws[i].word, lit |-> ws[i].lit,
                    branchTo |-> IF i = src THEN dst ELSE ws[i].branchTo,
                    isDst |-> (i = dst) \/ ws[i].isDst]
<1>1. ASSUME NEW i \in 1..Len(ws) PROVE el(i) \in SourceWord
  <2>1. ws[i] \in SourceWord
    OBVIOUS
  <2>2. ((i = dst) \/ ws[i].isDst) \in BOOLEAN
    OBVIOUS
  <2> DEFINE to == IF i = src THEN dst ELSE ws[i].branchTo
             flag == (i = dst) \/ ws[i].isDst
  <2>3. to \in Nat
    BY <2>1 DEF SourceWord
  <2> HIDE DEF to, flag
  <2>4. [word |-> ws[i].word, lit |-> ws[i].lit, branchTo |-> to,
         isDst |-> flag] \in SourceWord
    BY <2>1, <2>2, <2>3 DEF SourceWord, flag
  <2>5. QED
    BY <2>4 DEF to, flag
<1>2. \A i \in 1..Len(ws) :
        /\ el(i).word = ws[i].word
        /\ el(i).lit = ws[i].lit
        /\ el(i).branchTo = IF i = src THEN dst ELSE ws[i].branchTo
  BY DEF SourceWord
<1>3. BranchesTo(ws, src, dst) = [i \in 1..Len(ws) |-> el(i)]
  BY DEF BranchesTo
<1> HIDE DEF el
<1>4. QED
  BY <1>1, <1>2, <1>3

\* addInline() stores the words of a straight body one after the other.
LEMMA AddAllShape ==
  ASSUME NEW ws \in Seq(SourceWord), Len(ws) >= 1,
         NEW refs \in Seq(PlainRef), refs # <<>>
  PROVE  /\ AddAll(ws, refs) \in Seq(SourceWord)
         /\ Len(AddAll(ws, refs)) = Len(ws) + Len(refs)
         /\ \A i \in 1..(Len(ws) - 1) : AddAll(ws, refs)[i] = ws[i]
         /\ \A i \in Len(ws)..(Len(ws) + Len(refs) - 1) :
              /\ Stored(AddAll(ws, refs)[i])
              /\ ~IsBranch(AddAll(ws, refs)[i].word)
              /\ AddAll(ws, refs)[i].branchTo = 0
         /\ AddAll(ws, refs)[Len(ws) + Len(refs)] = Placeholder
<1> DEFINE last == Len(ws) + Len(refs)
           sw(i) == NewSourceWord(refs[i - Len(ws) + 1],
                                  i = Len(ws) /\ ws[i].isDst)
           el(i) == IF i < Len(ws) THEN ws[i]
                    ELSE IF i = last THEN Placeholder
                    ELSE sw(i)
<1>1. AddAll(ws, refs) = [i \in 1..last |-> el(i)]
  BY DEF AddAll, Here
<1>2. ASSUME NEW i \in Len(ws)..(last - 1)
      PROVE  /\ sw(i) \in SourceWord
             /\ Stored(sw(i))
             /\ ~IsBranch(sw(i).word)
             /\ sw(i).branchTo = 0
  <2>1. refs[i - Len(ws) + 1] \in PlainRef
    OBVIOUS
  <2>2. QED
    BY <2>1, CompilerAssumption
       DEF PlainRef, SourceWord, NewSourceWord, Stored, IsBranch, SpecialWords
<1>3. Placeholder \in SourceWord
  BY DEF SourceWord, Placeholder, NewSourceWord, Ref
<1> HIDE DEF sw
<1>4. ASSUME NEW i \in 1..last PROVE el(i) \in SourceWord
  <2>1. CASE i < Len(ws)
    BY <2>1
  <2>2. CASE i = last
    BY <2>2, <1>3
  <2>3. CASE i \in Len(ws)..(last - 1)
    BY <2>3, <1>2
  <2>4. QED
    BY <2>1, <2>2, <2>3
<1>5. /\ \A i \in 1..(Len(ws) - 1) : el(i) = ws[i]
      /\ \A i \in Len(ws)..(last - 1) : el(i) = sw(i)
      /\ el(last) = Placeholder
  OBVIOUS
<1> HIDE DEF el
<1>6. QED
  BY <1>1, <1>2, <1>4, <1>5

\* Membership in OpenBranches, pointwise
LEMMA OpenBranchesOf ==
  \A ctrl, i :
    i \in OpenBranches(ctrl) <=>
      \E k \in DOMAIN ctrl : ctrl[k].id # "b" /\ ctrl[k].at = i
BY DEF OpenBranches

-----------------------------------------------------------------------------
(* The steps a token handler is made of keep the two lists well formed. *)

\* add() of a word that needs no target from the control stack
LEMMA AddWellFormed ==
  ASSUME NEW ws, NEW ctrl, WellFormed(ws, ctrl),
         NEW ref \in PlainRef \cup {Ref("_RECURSE")}
  PROVE  WellFormed(Add(ws, ref), ctrl)
<1> DEFINE new == Add(ws, ref)
           sw == NewSourceWord(ref, ws[Len(ws)].isDst)
<1>1. ref \in PlainRef \cup BranchRef
  BY DEF BranchRef, Ref
<1>2. /\ ws \in Seq(SourceWord) /\ Len(ws) \in Nat /\ Len(ws) >= 1
      /\ ctrl \in Seq(Control)
  BY DEF WellFormed
<1>3. /\ new \in Seq(SourceWord)
      /\ Len(new) = Len(ws) + 1
      /\ \A i \in 1..(Len(ws) - 1) : new[i] = ws[i]
      /\ new[Len(ws)] = sw
      /\ new[Len(ws) + 1] = Placeholder
  BY <1>1, <1>2, AddShape
<1>4. /\ Stored(sw) /\ ~IsBranch(sw.word) /\ sw.branchTo = 0
      /\ Placeholder.word = "NOP" /\ Placeholder.branchTo = 0
  BY CompilerAssumption DEF Stored, PlainRef, Ref, NewSourceWord, IsBranch,
     SpecialWords, Placeholder
<1>5. /\ ws[Len(ws)].word = "NOP"
      /\ \A i \in 1..(Len(ws) - 1) : Stored(ws[i])
      /\ \A i \in 1..Len(ws) : ws[i].branchTo \in 0..Len(ws)
      /\ ControlShape(ws, ctrl)
      /\ Resolved(ws, ctrl)
  BY DEF WellFormed
<1> HIDE DEF new, sw
<1>6. ControlShape(new, ctrl)
  BY <1>2, <1>3, <1>5 DEF ControlShape
<1>7. Resolved(new, ctrl)
  <2> SUFFICES ASSUME NEW i \in 1..(Len(ws) + 1)
               PROVE  IsBranch(new[i].word) /\ new[i].branchTo = 0
                        <=> i \in OpenBranches(ctrl)
    BY <1>3 DEF Resolved
  <2>1. CASE i \in 1..(Len(ws) - 1)
    BY <2>1, <1>2, <1>3, <1>5 DEF Resolved
  <2>2. CASE i = Len(ws)
    BY <2>2, <1>2, <1>3, <1>4, <1>5 DEF ControlShape, OpenBranches
  <2>3. CASE i = Len(ws) + 1
    <3>1. ~IsBranch(new[i].word)
      BY <2>3, <1>3, <1>4 DEF IsBranch
    <3>2. i \notin OpenBranches(ctrl)
      BY <2>3, <1>2, <1>5 DEF ControlShape, OpenBranches
    <3>3. QED
      BY <3>1, <3>2
  <2>4. QED
    BY <1>2, <2>1, <2>2, <2>3
<1>8. \A i \in 1..(Len(new) - 1) : Stored(new[i])
  BY <1>2, <1>3, <1>4, <1>5
<1>9. ASSUME NEW i \in 1..Len(new)
      PROVE  new[i].branchTo \in 0..Len(new)
  <2>1. CASE i \in 1..(Len(ws) - 1)
    BY <2>1, <1>2, <1>3, <1>5
  <2>2. CASE i \in {Len(ws), Len(ws) + 1}
    BY <2>2, <1>2, <1>3, <1>4
  <2>3. QED
    BY <1>2, <1>3, <2>1, <2>2
<1>10. WellFormed(new, ctrl)
  BY <1>2, <1>3, <1>4, <1>6, <1>7, <1>8, <1>9 DEF WellFormed
<1>11. QED
  BY <1>10 DEF new

\* addInline() of a word without branches
LEMMA AddAllWellFormed ==
  ASSUME NEW ws, NEW ctrl, WellFormed(ws, ctrl), NEW refs \in Seq(PlainRef)
  PROVE  WellFormed(AddAll(ws, refs), ctrl)
<1> DEFINE new == AddAll(ws, refs)
           last == Len(ws) + Len(refs)
<1>1. CASE refs = <<>>
  BY <1>1 DEF AddAll
<1>2. CASE refs # <<>>
  <2>1. /\ ws \in Seq(SourceWord) /\ Len(ws) \in Nat /\ Len(ws) >= 1
        /\ ctrl \in Seq(Control) /\ Len(refs) \in Nat /\ Len(refs) >= 1
    BY <1>2 DEF WellFormed
  <2>2. /\ new \in Seq(SourceWord)
        /\ Len(new) = last
        /\ \A i \in 1..(Len(ws) - 1) : new[i] = ws[i]
        /\ \A i \in Len(ws)..(last - 1) :
             Stored(new[i]) /\ ~IsBranch(new[i].word) /\ new[i].branchTo = 0
        /\ new[last] = Placeholder
    BY <1>2, <2>1, AddAllShape
  <2>3. Placeholder.word = "NOP" /\ Placeholder.branchTo = 0
    BY DEF Ref, NewSourceWord, Placeholder
  <2>4. /\ \A i \in 1..(Len(ws) - 1) : Stored(ws[i])
        /\ \A i \in 1..Len(ws) : ws[i].branchTo \in 0..Len(ws)
        /\ ws[Len(ws)].word = "NOP"
        /\ ControlShape(ws, ctrl)
        /\ Resolved(ws, ctrl)
    BY DEF WellFormed
  <2> HIDE DEF new
  <2>5. ControlShape(new, ctrl)
    BY <2>1, <2>2, <2>4 DEF ControlShape
  <2>6. ~IsBranch(new[last].word)
    BY <2>2, <2>3 DEF IsBranch
  <2>7. Resolved(new, ctrl)
    <3> SUFFICES ASSUME NEW i \in 1..last
                 PROVE  IsBranch(new[i].word) /\ new[i].branchTo = 0
                          <=> i \in OpenBranches(ctrl)
      BY <2>2 DEF Resolved
    <3>1. CASE i \in 1..(Len(ws) - 1)
      <4>1. new[i] = ws[i] /\ i \in DOMAIN ws
        BY <3>1, <2>1, <2>2
      <4>2. QED
        BY <4>1, <2>4 DEF Resolved
    <3>2. CASE i \in Len(ws)..last
      <4>1. ~IsBranch(new[i].word)
        <5>1. CASE i = last
          BY <5>1, <2>6
        <5>2. CASE i \in Len(ws)..(last - 1)
          BY <5>2, <2>2
        <5>3. i = last \/ i \in Len(ws)..(last - 1)
          BY <3>2, <2>1
        <5>4. QED
          BY <5>1, <5>2, <5>3
      <4>2. i \notin OpenBranches(ctrl)
        BY <3>2, <2>1, <2>4 DEF ControlShape, OpenBranches
      <4>3. QED
        BY <4>1, <4>2
    <3>3. QED
      BY <2>1, <3>1, <3>2
  <2>8. ASSUME NEW i \in 1..(Len(new) - 1) PROVE Stored(new[i])
    <3>1. CASE i \in 1..(Len(ws) - 1)
      BY <3>1, <2>2, <2>4
    <3>2. CASE i \in Len(ws)..(last - 1)
      BY <3>2, <2>2
    <3>3. QED
      BY <2>1, <2>2, <3>1, <3>2
  <2>9. ASSUME NEW i \in 1..Len(new) PROVE new[i].branchTo \in 0..Len(new)
    <3>1. CASE i \in 1..(Len(ws) - 1)
      BY <3>1, <2>1, <2>2, <2>4
    <3>2. CASE i \in Len(ws)..last
      <4>1. new[i].branchTo = 0
        <5>1. CASE i = last
          BY <5>1, <2>2, <2>3
        <5>2. CASE i \in Len(ws)..(last - 1)
          BY <5>2, <2>2
        <5>3. i = last \/ i \in Len(ws)..(last - 1)
          BY <3>2, <2>1
        <5>4. QED
          BY <5>1, <5>2, <5>3
      <4>2. Len(new) \in Nat
        BY <2>1, <2>2
      <4>3. QED
        BY <4>1, <4>2
    <3>3. QED
      BY <2>1, <2>2, <3>1, <3>2
  <2>10. WellFormed(new, ctrl)
    BY <2>1, <2>2, <2>3, <2>5, <2>7, <2>8, <2>9 DEF WellFormed
  <2>11. QED
    BY <2>10 DEF new
<1>3. QED
  BY <1>1, <1>2

\* pushBranch(): a branch is added and the control stack owes it a target.
LEMMA PushBranchWellFormed ==
  ASSUME NEW ws, NEW ctrl, WellFormed(ws, ctrl),
         NEW w \in {"_BRANCH", "_ZBRANCH"}, NEW id \in {"i", "e", "w"}
  PROVE  WellFormed(Add(ws, Ref(w)), Append(ctrl, [id |-> id, at |-> Len(ws)]))
<1> DEFINE new == Add(ws, Ref(w))
           sw == NewSourceWord(Ref(w), ws[Len(ws)].isDst)
           entry == [id |-> id, at |-> Len(ws)]
           ctrl2 == Append(ctrl, entry)
<1>1. Ref(w) \in PlainRef \cup BranchRef
  BY DEF BranchRef, Ref
<1>2. /\ ws \in Seq(SourceWord) /\ Len(ws) \in Nat /\ Len(ws) >= 1
      /\ ctrl \in Seq(Control)
  BY DEF WellFormed
<1>3. /\ new \in Seq(SourceWord)
      /\ Len(new) = Len(ws) + 1
      /\ \A i \in 1..(Len(ws) - 1) : new[i] = ws[i]
      /\ new[Len(ws)] = sw
      /\ new[Len(ws) + 1] = Placeholder
  BY <1>1, <1>2, AddShape
<1>4. /\ Stored(sw) /\ IsBranch(sw.word) /\ sw.branchTo = 0
      /\ Placeholder.word = "NOP" /\ Placeholder.branchTo = 0
  BY DEF Stored, Ref, NewSourceWord, IsBranch, Placeholder
<1>5. /\ \A i \in 1..(Len(ws) - 1) : Stored(ws[i])
      /\ \A i \in 1..Len(ws) : ws[i].branchTo \in 0..Len(ws)
      /\ ControlShape(ws, ctrl)
      /\ Resolved(ws, ctrl)
  BY DEF WellFormed
<1>6. entry \in Control /\ entry.id # "b" /\ entry.at = Len(ws)
  BY <1>2 DEF Control
<1> HIDE DEF new, sw, entry
<1>7. /\ ctrl2 \in Seq(Control)
      /\ Len(ctrl2) = Len(ctrl) + 1
      /\ \A k \in 1..Len(ctrl) : ctrl2[k] = ctrl[k]
      /\ ctrl2[Len(ctrl) + 1] = entry
  BY <1>2, <1>6
<1> HIDE DEF ctrl2
<1>8. ControlShape(new, ctrl2)
  <2>1. ASSUME NEW k \in DOMAIN ctrl2
        PROVE  /\ ctrl2[k].at \in 1..Len(new)
               /\ ctrl2[k].id # "b" => ctrl2[k].at < Len(new)
    <3>1. CASE k \in 1..Len(ctrl)
      <4>1. ctrl2[k] = ctrl[k] /\ k \in DOMAIN ctrl
        BY <3>1, <1>2, <1>7
      <4>2. QED
        BY <4>1, <1>2, <1>3, <1>5 DEF ControlShape
    <3>2. CASE k = Len(ctrl) + 1
      BY <3>2, <1>2, <1>3, <1>6, <1>7
    <3>3. QED
      BY <1>2, <1>7, <3>1, <3>2
  <2>2. ASSUME NEW j \in DOMAIN ctrl2, NEW k \in DOMAIN ctrl2, j # k,
               ctrl2[j].id # "b", ctrl2[k].id # "b"
        PROVE  ctrl2[j].at # ctrl2[k].at
    <3>1. \A m \in DOMAIN ctrl2 :
            \/ m \in DOMAIN ctrl /\ ctrl2[m] = ctrl[m]
            \/ m = Len(ctrl) + 1 /\ ctrl2[m].at = Len(ws)
      BY <1>2, <1>6, <1>7
    <3>2. \A m \in DOMAIN ctrl : ctrl[m].id # "b" => ctrl[m].at # Len(ws)
      BY <1>2, <1>5 DEF ControlShape
    <3>3. CASE j \in DOMAIN ctrl /\ k \in DOMAIN ctrl
                 /\ ctrl2[j] = ctrl[j] /\ ctrl2[k] = ctrl[k]
      BY <1>5, <2>2, <3>3 DEF ControlShape
    <3>4. QED
      BY <2>2, <3>1, <3>2, <3>3
  <2>3. QED
    BY <2>1, <2>2 DEF ControlShape
<1>9. Resolved(new, ctrl2)
  <2> SUFFICES ASSUME NEW i \in 1..(Len(ws) + 1)
               PROVE  IsBranch(new[i].word) /\ new[i].branchTo = 0
                        <=> i \in OpenBranches(ctrl2)
    BY <1>3 DEF Resolved
  <2>1. CASE i \in 1..(Len(ws) - 1)
    <3>1. i # entry.at
      BY <2>1, <1>2, <1>6
    <3>2. \A k \in DOMAIN ctrl2 : \/ k \in DOMAIN ctrl /\ ctrl2[k] = ctrl[k]
                                  \/ ctrl2[k] = entry
      BY <1>2, <1>7
    <3>3. \A k \in DOMAIN ctrl : k \in DOMAIN ctrl2 /\ ctrl2[k] = ctrl[k]
      BY <1>2, <1>7
    <3>4. i \in OpenBranches(ctrl2) <=> i \in OpenBranches(ctrl)
      <4>1. ASSUME NEW m \in DOMAIN ctrl2, ctrl2[m].id # "b", ctrl2[m].at = i
            PROVE  m \in DOMAIN ctrl /\ ctrl2[m] = ctrl[m]
        BY <3>1, <3>2, <4>1
      <4>2. QED
        BY <4>1, <3>3, OpenBranchesOf
    <3>5. QED
      BY <2>1, <3>4, <1>2, <1>3, <1>5 DEF Resolved
  <2>2. CASE i = Len(ws)
    <3>1. IsBranch(new[i].word) /\ new[i].branchTo = 0
      BY <2>2, <1>3, <1>4
    <3>2. Len(ctrl) + 1 \in DOMAIN ctrl2
      BY <1>2, <1>7
    <3>3. i \in OpenBranches(ctrl2)
      BY <2>2, <3>2, <1>6, <1>7, OpenBranchesOf
    <3>4. QED
      BY <3>1, <3>3
  <2>3. CASE i = Len(ws) + 1
    <3>1. ~IsBranch(new[i].word)
      BY <2>3, <1>3, <1>4 DEF IsBranch
    <3>2. i \notin OpenBranches(ctrl2)
      BY <2>3, <1>2, <1>3, <1>8 DEF ControlShape, OpenBranches
    <3>3. QED
      BY <3>1, <3>2
  <2>4. QED
    BY <1>2, <2>1, <2>2, <2>3
<1>10. \A i \in 1..(Len(new) - 1) : Stored(new[i])
  BY <1>2, <1>3, <1>4, <1>5
<1>11. ASSUME NEW i \in 1..Len(new) PROVE new[i].branchTo \in 0..Len(new)
  <2>1. CASE i \in 1..(Len(ws) - 1)
    BY <2>1, <1>2, <1>3, <1>5
  <2>2. CASE i \in {Len(ws), Len(ws) + 1}
    BY <2>2, <1>2, <1>3, <1>4
  <2>3. QED
    BY <1>2, <1>3, <2>1, <2>2
<1>12. WellFormed(new, ctrl2)
  BY <1>2, <1>3, <1>4, <1>7, <1>8, <1>9, <1>10, <1>11 DEF WellFormed
<1>13. QED
  BY <1>12 DEF new, ctrl2, entry

\* BEGIN only notes a position on the control stack.
LEMMA BeginWellFormed ==
  ASSUME NEW ws, NEW ctrl, WellFormed(ws, ctrl)
  PROVE  WellFormed(ws, Append(ctrl, [id |-> "b", at |-> Len(ws)]))
<1> DEFINE entry == [id |-> "b", at |-> Len(ws)]
           ctrl2 == Append(ctrl, entry)
<1>1. /\ ws \in Seq(SourceWord) /\ Len(ws) \in Nat /\ Len(ws) >= 1
      /\ ctrl \in Seq(Control) /\ ControlShape(ws, ctrl) /\ Resolved(ws, ctrl)
  BY DEF WellFormed
<1>2. entry \in Control /\ entry.id = "b" /\ entry.at = Len(ws)
  BY <1>1 DEF Control
<1> HIDE DEF entry
<1>3. /\ ctrl2 \in Seq(Control)
      /\ Len(ctrl2) = Len(ctrl) + 1
      /\ \A k \in 1..Len(ctrl) : ctrl2[k] = ctrl[k]
      /\ ctrl2[Len(ctrl) + 1] = entry
  BY <1>1, <1>2
<1> HIDE DEF ctrl2
<1>4. ASSUME NEW k \in DOMAIN ctrl2
      PROVE  \/ k \in DOMAIN ctrl /\ ctrl2[k] = ctrl[k]
             \/ ctrl2[k] = entry
  BY <1>1, <1>3
<1>5. ControlShape(ws, ctrl2)
  BY <1>1, <1>2, <1>4 DEF ControlShape
<1>6. ASSUME NEW i
      PROVE  i \in OpenBranches(ctrl2) <=> i \in OpenBranches(ctrl)
  <2>1. \A k \in DOMAIN ctrl : k \in DOMAIN ctrl2 /\ ctrl2[k] = ctrl[k]
    BY <1>1, <1>3
  <2>2. \A k \in DOMAIN ctrl2 :
          ctrl2[k].id # "b" => k \in DOMAIN ctrl /\ ctrl2[k] = ctrl[k]
    BY <1>2, <1>4
  <2>3. QED
    BY <2>1, <2>2, OpenBranchesOf
<1>7. Resolved(ws, ctrl2)
  BY <1>1, <1>6 DEF Resolved
<1>8. WellFormed(ws, ctrl2)
  BY <1>3, <1>5, <1>7 DEF WellFormed
<1>9. QED
  BY <1>8 DEF ctrl2, entry

(***************************************************************************)
(* branchesTo() for the branch of control entry k, once popBranch() has    *)
(* removed that entry from the control stack                               *)
(***************************************************************************)
LEMMA FixWellFormed ==
  ASSUME NEW ws, NEW ctrl, WellFormed(ws, ctrl),
         NEW k \in DOMAIN ctrl, ctrl[k].id # "b",
         NEW dst \in 1..Len(ws),
         NEW ctrl2 \in Seq(Control), Len(ctrl2) = Len(ctrl) - 1,
         \A m \in 1..(Len(ctrl) - 1) :
           ctrl2[m] = ctrl[IF m < k THEN m ELSE m + 1]
  PROVE  WellFormed(BranchesTo(ws, ctrl[k].at, dst), ctrl2)
<1> DEFINE src == ctrl[k].at
           new == BranchesTo(ws, src, dst)
<1>1. /\ ws \in Seq(SourceWord) /\ Len(ws) \in Nat /\ Len(ws) >= 1
      /\ ctrl \in Seq(Control) /\ Len(ctrl) \in Nat /\ k \in 1..Len(ctrl)
      /\ ws[Len(ws)].word = "NOP"
      /\ ws[Len(ws)].branchTo = 0
      /\ \A i \in 1..(Len(ws) - 1) : Stored(ws[i])
      /\ \A i \in 1..Len(ws) : ws[i].branchTo \in 0..Len(ws)
      /\ ControlShape(ws, ctrl)
      /\ Resolved(ws, ctrl)
  BY DEF WellFormed
<1>2. src \in 1..(Len(ws) - 1)
  BY <1>1 DEF ControlShape
<1>3. /\ new \in Seq(SourceWord)
      /\ Len(new) = Len(ws)
      /\ \A i \in 1..Len(ws) :
           /\ new[i].word = ws[i].word
           /\ new[i].lit = ws[i].lit
           /\ new[i].branchTo = IF i = src THEN dst ELSE ws[i].branchTo
  BY <1>1, <1>2, BranchesToShape
\* The entries left are those of ctrl other than k, in another place.
<1> DEFINE old(m) == IF m < k THEN m ELSE m + 1
<1>4. /\ DOMAIN ctrl2 = 1..(Len(ctrl) - 1)
      /\ \A m \in DOMAIN ctrl2 : /\ old(m) \in DOMAIN ctrl /\ old(m) # k
                                 /\ ctrl2[m] = ctrl[old(m)]
      /\ \A m, n \in DOMAIN ctrl2 : m # n => old(m) # old(n)
  <2>1. DOMAIN ctrl2 = 1..(Len(ctrl) - 1) /\ DOMAIN ctrl = 1..Len(ctrl)
    BY <1>1
  <2>2. \A m \in 1..(Len(ctrl) - 1) : old(m) \in 1..Len(ctrl) /\ old(m) # k
    BY <1>1
  <2>3. \A m, n \in 1..(Len(ctrl) - 1) : m # n => old(m) # old(n)
    BY <1>1
  <2>4. QED
    BY <2>1, <2>2, <2>3
<1>5. \A j \in DOMAIN ctrl : j # k => \E m \in DOMAIN ctrl2 : ctrl2[m] = ctrl[j]
  <2> SUFFICES ASSUME NEW j \in DOMAIN ctrl, j # k
               PROVE  \E m \in DOMAIN ctrl2 : ctrl2[m] = ctrl[j]
    OBVIOUS
  <2>1. CASE j < k
    BY <2>1, <1>1
  <2>2. CASE j > k
    <3>1. j - 1 \in 1..(Len(ctrl) - 1) /\ old(j - 1) = j
      BY <2>2, <1>1
    <3>2. QED
      BY <3>1, <1>4
  <2>3. QED
    BY <1>1, <2>1, <2>2
<1>6. \A m \in DOMAIN ctrl2 : ctrl2[m].id # "b" => ctrl2[m].at # src
  <2> HIDE DEF old
  <2>1. QED
    BY <1>1, <1>4 DEF ControlShape
<1> HIDE DEF old, src, new
<1>7. ControlShape(new, ctrl2)
  <2>1. ASSUME NEW m \in DOMAIN ctrl2
        PROVE  /\ ctrl2[m].at \in 1..Len(new)
               /\ ctrl2[m].id # "b" => ctrl2[m].at < Len(new)
    BY <1>1, <1>3, <1>4 DEF ControlShape
  <2>2. ASSUME NEW m \in DOMAIN ctrl2, NEW n \in DOMAIN ctrl2, m # n,
               ctrl2[m].id # "b", ctrl2[n].id # "b"
        PROVE  ctrl2[m].at # ctrl2[n].at
    BY <1>1, <1>4, <2>2 DEF ControlShape
  <2>3. QED
    BY <2>1, <2>2 DEF ControlShape
<1>8. ASSUME NEW i, i # src
      PROVE  i \in OpenBranches(ctrl2) <=> i \in OpenBranches(ctrl)
  <2>1. ASSUME NEW j \in DOMAIN ctrl, ctrl[j].at = i PROVE j # k
    BY <1>8, <2>1 DEF src
  <2>2. ASSUME i \in OpenBranches(ctrl2) PROVE i \in OpenBranches(ctrl)
    <3>1. PICK m \in DOMAIN ctrl2 : ctrl2[m].id # "b" /\ ctrl2[m].at = i
      BY <2>2, OpenBranchesOf
    <3>2. old(m) \in DOMAIN ctrl /\ ctrl2[m] = ctrl[old(m)]
      BY <1>4
    <3>3. QED
      BY <3>1, <3>2, OpenBranchesOf
  <2>3. ASSUME i \in OpenBranches(ctrl) PROVE i \in OpenBranches(ctrl2)
    <3>1. PICK j \in DOMAIN ctrl : ctrl[j].id # "b" /\ ctrl[j].at = i
      BY <2>3, OpenBranchesOf
    <3>2. PICK m \in DOMAIN ctrl2 : ctrl2[m] = ctrl[j]
      BY <1>5, <2>1, <3>1
    <3>3. QED
      BY <3>1, <3>2, OpenBranchesOf
  <2>4. QED
    BY <2>2, <2>3
<1>9. src \notin OpenBranches(ctrl2)
  BY <1>6, OpenBranchesOf
<1>10. Resolved(new, ctrl2)
  <2> SUFFICES ASSUME NEW i \in 1..Len(ws)
               PROVE  IsBranch(new[i].word) /\ new[i].branchTo = 0
                        <=> i \in OpenBranches(ctrl2)
    BY <1>3 DEF Resolved
  <2>1. CASE i = src
    BY <2>1, <1>1, <1>3, <1>9
  <2>2. CASE i # src
    <3>1. i \in DOMAIN ws
      BY <1>1
    <3>2. new[i].word = ws[i].word /\ new[i].branchTo = ws[i].branchTo
      BY <2>2, <1>3
    <3>3. QED
      BY <3>1, <3>2, <2>2, <1>1, <1>8 DEF Resolved
  <2>3. QED
    BY <2>1, <2>2
<1>11. ASSUME NEW i \in 1..(Len(new) - 1) PROVE Stored(new[i])
  <2>1. i \in 1..Len(ws) /\ Stored(ws[i])
    BY <1>1, <1>3
  <2>2. QED
    BY <2>1, <1>3 DEF Stored
<1>12. \A i \in 1..Len(new) : new[i].branchTo \in 0..Len(new)
  BY <1>1, <1>3
<1>13. new[Len(new)].word = "NOP" /\ new[Len(new)].branchTo = 0
  <2>1. Len(ws) \in 1..Len(ws) /\ Len(ws) # src
    BY <1>1, <1>2
  <2>2. QED
    BY <2>1, <1>1, <1>3
<1>14. WellFormed(new, ctrl2)
  BY <1>1, <1>3, <1>7, <1>10, <1>11, <1>12, <1>13 DEF WellFormed
<1>15. QED
  BY <1>14 DEF new, src

\* branchesTo() for a word that is no branch, as addRecurse() uses it
LEMMA RecurseWellFormed ==
  ASSUME NEW ws, NEW ctrl, WellFormed(ws, ctrl),
         NEW src \in 1..(Len(ws) - 1), ~IsBranch(ws[src].word),
         NEW dst \in 1..Len(ws)
  PROVE  WellFormed(BranchesTo(ws, src, dst), ctrl)
<1> DEFINE new == BranchesTo(ws, src, dst)
<1>1. /\ ws \in Seq(SourceWord) /\ Len(ws) \in Nat /\ Len(ws) >= 1
      /\ ctrl \in Seq(Control)
      /\ ws[Len(ws)].word = "NOP"
      /\ ws[Len(ws)].branchTo = 0
      /\ \A i \in 1..(Len(ws) - 1) : Stored(ws[i])
      /\ \A i \in 1..Len(ws) : ws[i].branchTo \in 0..Len(ws)
      /\ ControlShape(ws, ctrl)
      /\ Resolved(ws, ctrl)
  BY DEF WellFormed
<1>2. /\ new \in Seq(SourceWord)
      /\ Len(new) = Len(ws)
      /\ \A i \in 1..Len(ws) :
           /\ new[i].word = ws[i].word
           /\ new[i].lit = ws[i].lit
           /\ new[i].branchTo = IF i = src THEN dst ELSE ws[i].branchTo
  BY <1>1, BranchesToShape
<1> HIDE DEF new
<1>3. ControlShape(new, ctrl)
  BY <1>1, <1>2 DEF ControlShape
<1>4. Resolved(new, ctrl)
  <2> SUFFICES ASSUME NEW i \in 1..Len(ws)
               PROVE  IsBranch(new[i].word) /\ new[i].branchTo = 0
                        <=> i \in OpenBranches(ctrl)
    BY <1>2 DEF Resolved
  <2>1. QED
    BY <1>1, <1>2 DEF Resolved
<1>5. \A i \in 1..(Len(new) - 1) : Stored(new[i])
  BY <1>1, <1>2 DEF Stored
<1>6. ASSUME NEW i \in 1..Len(new) PROVE new[i].branchTo \in 0..Len(new)
  <2>1. ws[i].branchTo \in 0..Len(ws) /\ dst \in 0..Len(ws)
    BY <1>1, <1>2
  <2>2. QED
    BY <2>1, <1>2
<1>7. new[Len(new)].word = "NOP" /\ new[Len(new)].branchTo = 0
  BY <1>1, <1>2
<1>8. WellFormed(new, ctrl)
  BY <1>1, <1>2, <1>3, <1>4, <1>5, <1>6, <1>7 DEF WellFormed
<1>9. QED
  BY <1>8 DEF new

\* What popBranch() leaves of the control stack
LEMMA PopShape ==
  ASSUME NEW ctrl \in Seq(Control), ctrl # <<>>
  PROVE  /\ Len(ctrl) \in 1..Len(ctrl)
         /\ Pop(ctrl) \in Seq(Control)
         /\ Len(Pop(ctrl)) = Len(ctrl) - 1
         /\ \A m \in 1..(Len(ctrl) - 1) : Pop(ctrl)[m] = ctrl[m]
<1>1. Len(ctrl) \in Nat /\ Len(ctrl) >= 1
  OBVIOUS
<1>2. Pop(ctrl) = [m \in 1..(Len(ctrl) - 1) |-> ctrl[m]]
  BY <1>1 DEF Pop
<1>3. QED
  BY <1>1, <1>2

\* REPEAT takes the entry of its BEGIN off the control stack.
LEMMA PopBeginWellFormed ==
  ASSUME NEW ws, NEW ctrl, WellFormed(ws, ctrl), CanPop(ctrl, {"b"})
  PROVE  WellFormed(ws, Pop(ctrl))
<1> DEFINE ctrl2 == Pop(ctrl)
<1>1. /\ ctrl \in Seq(Control) /\ ctrl # <<>> /\ ctrl[Len(ctrl)].id = "b"
      /\ Len(ws) \in Nat /\ ControlShape(ws, ctrl) /\ Resolved(ws, ctrl)
  BY DEF WellFormed, CanPop
<1>2. /\ ctrl2 \in Seq(Control)
      /\ \A m \in DOMAIN ctrl2 : m \in DOMAIN ctrl /\ ctrl2[m] = ctrl[m]
      /\ \A m \in DOMAIN ctrl : m \in DOMAIN ctrl2 \/ m = Len(ctrl)
  <2>1. /\ Len(ctrl) \in 1..Len(ctrl) /\ ctrl2 \in Seq(Control)
        /\ Len(ctrl2) = Len(ctrl) - 1
        /\ \A m \in 1..(Len(ctrl) - 1) : ctrl2[m] = ctrl[m]
    BY <1>1, PopShape
  <2> HIDE DEF ctrl2
  <2>2. QED
    BY <1>1, <2>1
<1> HIDE DEF ctrl2
<1>3. ControlShape(ws, ctrl2)
  BY <1>1, <1>2 DEF ControlShape
<1>4. \A i : i \in OpenBranches(ctrl2) <=> i \in OpenBranches(ctrl)
  BY <1>1, <1>2, OpenBranchesOf
<1>5. Resolved(ws, ctrl2)
  BY <1>1, <1>4 DEF Resolved
<1>6. WellFormed(ws, ctrl2)
  BY <1>2, <1>3, <1>5 DEF WellFormed
<1>7. QED
  BY <1>6 DEF ctrl2

-----------------------------------------------------------------------------
(* The inductive invariant and the theorems *)

\* The finished list: what Finish made of a well-formed one
Finished(ws) ==
  /\ ws \in Seq(SourceWord)
  /\ Len(ws) >= 1
  /\ ws[Len(ws)].word = "_RETURN"
  /\ \A i \in 1..(Len(ws) - 1) : Stored(ws[i])
  /\ \A i \in 1..Len(ws) : ws[i].branchTo \in 0..Len(ws)
  /\ Resolved(ws, <<>>)

SetupOK ==
  /\ effect \in StackEffect
  /\ canAddInputs \in BOOLEAN
  /\ canAddOutputs \in BOOLEAN
  /\ inline \in BOOLEAN

ListsOK ==
  /\ phase = "parsing" => WellFormed(words, controlStack)
  /\ phase = "error" => words = <<>> /\ controlStack = <<>>
  /\ phase \notin {"parsing", "error"} =>
       Finished(words) /\ controlStack = <<>>

\* ELSE: a new branch, then the IF's branch is fixed to go behind it.
LEMMA ElseWellFormed ==
  ASSUME NEW ws, NEW ctrl, WellFormed(ws, ctrl), CanPop(ctrl, ElseMatches)
  PROVE  WellFormed(FixBranch(Add(ws, Ref("_BRANCH")), Top(ctrl)),
                    Append(Pop(ctrl), [id |-> "e", at |-> Len(ws)]))
<1> DEFINE entry == [id |-> "e", at |-> Len(ws)]
           added == Add(ws, Ref("_BRANCH"))
           pushed == Append(ctrl, entry)
           ctrl2 == Append(Pop(ctrl), entry)
           k == Len(ctrl)
<1>1. /\ ctrl \in Seq(Control) /\ ctrl # <<>> /\ ctrl[k].id # "b"
      /\ k \in Nat /\ k >= 1 /\ Len(ws) \in Nat
  BY DEF WellFormed, CanPop, ElseMatches
<1>2. entry \in Control
  BY <1>1 DEF Control
<1>3. WellFormed(added, pushed)
  BY PushBranchWellFormed
<1> HIDE DEF entry
<1>4. /\ Pop(ctrl) \in Seq(Control)
      /\ Len(Pop(ctrl)) = k - 1
      /\ \A m \in 1..(k - 1) : Pop(ctrl)[m] = ctrl[m]
  BY <1>1, PopShape
<1>5. /\ k \in DOMAIN pushed /\ pushed[k] = ctrl[k] /\ Len(pushed) = k + 1
      /\ pushed[k + 1] = entry
      /\ \A m \in 1..(k - 1) : pushed[m] = ctrl[m]
  BY <1>1, <1>2
<1>6. /\ ctrl2 \in Seq(Control) /\ Len(ctrl2) = k
      /\ ctrl2[k] = entry
      /\ \A m \in 1..(k - 1) : ctrl2[m] = ctrl[m]
  BY <1>1, <1>2, <1>4
<1>7. Len(added) \in 1..Len(added)
  BY <1>3 DEF WellFormed
<1> HIDE DEF pushed, ctrl2, added
<1>8. \A m \in 1..(Len(pushed) - 1) :
        ctrl2[m] = pushed[IF m < k THEN m ELSE m + 1]
  BY <1>1, <1>5, <1>6
<1>9. WellFormed(BranchesTo(added, pushed[k].at, Len(added)), ctrl2)
  <2> HIDE DEF k
  <2>1. Len(ctrl2) = Len(pushed) - 1
    BY <1>1, <1>5, <1>6
  <2>2. pushed[k].id # "b"
    BY <1>1, <1>5
  <2>3. QED
    BY <1>3, <1>5, <1>6, <1>7, <1>8, <2>1, <2>2, FixWellFormed
<1>10. QED
  BY <1>5, <1>9 DEF FixBranch, Here, Top, added, ctrl2, entry

\* THEN, or the end of a REPEAT: the branch of the top entry is fixed.
LEMMA PopBranchWellFormed ==
  ASSUME NEW ws, NEW ctrl, WellFormed(ws, ctrl), CanPop(ctrl, {"i", "e", "w"}),
         NEW dst \in 1..Len(ws)
  PROVE  WellFormed(BranchesTo(ws, Top(ctrl), dst), Pop(ctrl))
<1> DEFINE k == Len(ctrl)
           ctrl2 == Pop(ctrl)
<1>1. /\ ctrl \in Seq(Control) /\ ctrl # <<>> /\ ctrl[k].id # "b"
      /\ k \in DOMAIN ctrl /\ k \in Nat
  BY DEF WellFormed, CanPop
<1>2. /\ ctrl2 \in Seq(Control)
      /\ Len(ctrl2) = k - 1
      /\ \A m \in 1..(k - 1) : ctrl2[m] = ctrl[m]
  BY <1>1, PopShape
<1> HIDE DEF ctrl2
<1>3. \A m \in 1..(Len(ctrl) - 1) : ctrl2[m] = ctrl[IF m < k THEN m ELSE m + 1]
  BY <1>1, <1>2
<1>4. WellFormed(BranchesTo(ws, ctrl[k].at, dst), ctrl2)
  BY <1>1, <1>2, <1>3, FixWellFormed
<1>5. QED
  BY <1>4 DEF Top, ctrl2

\* REPEAT: a branch back to the BEGIN, and the WHILE's branch goes behind it.
LEMMA RepeatWellFormed ==
  ASSUME NEW ws, NEW ctrl, WellFormed(ws, ctrl),
         CanPop(ctrl, {"w"}), CanPop(Pop(ctrl), {"b"})
  PROVE  WellFormed(FixBranch(BranchesTo(Add(ws, Ref("_BRANCH")), Len(ws),
                                         Top(Pop(ctrl))),
                              Top(ctrl)),
                    Pop(Pop(ctrl)))
<1> DEFINE entry == [id |-> "w", at |-> Len(ws)]
           added == Add(ws, Ref("_BRANCH"))
           pushed == Append(ctrl, entry)
           begin == Top(Pop(ctrl))
           looped == BranchesTo(added, Len(ws), begin)
<1>1. /\ ctrl \in Seq(Control) /\ ctrl # <<>> /\ ctrl[Len(ctrl)].id = "w"
      /\ Len(ctrl) \in Nat /\ ws \in Seq(SourceWord) /\ Len(ws) >= 1
      /\ Len(ws) \in Nat /\ ControlShape(ws, ctrl)
  BY DEF WellFormed, CanPop
<1>2. entry \in Control /\ entry.id = "w" /\ entry.at = Len(ws)
  BY <1>1 DEF Control
<1>3. WellFormed(added, pushed)
  BY PushBranchWellFormed
<1>4. Len(added) = Len(ws) + 1
  <2>1. Ref("_BRANCH") \in PlainRef \cup BranchRef
    BY DEF Ref, BranchRef
  <2>2. QED
    BY <1>1, <2>1, AddShape
<1> HIDE DEF entry, added
<1>5. /\ pushed # <<>> /\ Len(pushed) = Len(ctrl) + 1
      /\ pushed[Len(pushed)] = entry /\ Pop(pushed) = ctrl
  BY <1>1, <1>2 DEF Pop
<1>6. begin \in 1..Len(added)
  <2>1. /\ Pop(ctrl) \in Seq(Control) /\ Len(Pop(ctrl)) = Len(ctrl) - 1
        /\ \A m \in 1..(Len(ctrl) - 1) : Pop(ctrl)[m] = ctrl[m]
    BY <1>1, PopShape
  <2>2. Pop(ctrl) # <<>>
    BY DEF CanPop
  <2>3. Len(Pop(ctrl)) \in 1..(Len(ctrl) - 1)
    BY <1>1, <2>1, <2>2
  <2>4. ctrl[Len(ctrl) - 1].at \in 1..Len(ws)
    BY <1>1, <2>1, <2>3 DEF ControlShape
  <2>5. QED
    BY <1>1, <1>4, <2>1, <2>3, <2>4 DEF Top
<1> HIDE DEF pushed, begin
<1>7. CanPop(pushed, {"i", "e", "w"}) /\ Top(pushed) = Len(ws)
  BY <1>2, <1>5 DEF CanPop, Top
<1>8. WellFormed(looped, ctrl)
  BY <1>3, <1>5, <1>6, <1>7, PopBranchWellFormed
<1>9. Len(looped) \in 1..Len(looped)
  BY <1>8 DEF WellFormed
<1>10. CanPop(ctrl, {"i", "e", "w"})
  BY DEF CanPop
<1> HIDE DEF looped
<1>11. WellFormed(BranchesTo(looped, Top(ctrl), Len(looped)), Pop(ctrl))
  BY <1>8, <1>9, <1>10, PopBranchWellFormed
<1>12. WellFormed(BranchesTo(looped, Top(ctrl), Len(looped)), Pop(Pop(ctrl)))
  BY <1>11, PopBeginWellFormed
<1>13. QED
  BY <1>12 DEF FixBranch, Here, looped, added, begin

\* Finish: the placeholder becomes RETURN, and no branch is open any more.
LEMMA FinishWellFormed ==
  ASSUME NEW ws, WellFormed(ws, <<>>)
  PROVE  Finished(AddReturn(ws))
<1> DEFINE sw == NewSourceWord(Ref("_RETURN"), FALSE)
           new == AddReturn(ws)
<1>1. /\ ws \in Seq(SourceWord) /\ Len(ws) \in Nat /\ Len(ws) >= 1
      /\ \A i \in 1..(Len(ws) - 1) : Stored(ws[i])
      /\ \A i \in 1..Len(ws) : ws[i].branchTo \in 0..Len(ws)
      /\ Resolved(ws, <<>>)
  BY DEF WellFormed
<1>2. sw \in SourceWord /\ sw.word = "_RETURN" /\ sw.branchTo = 0
  BY DEF SourceWord, NewSourceWord, Ref, SpecialWords
<1>3. new = [ws EXCEPT ![Len(ws)] = sw]
  BY DEF AddReturn, Here
<1> HIDE DEF sw, new
<1>4. /\ new \in Seq(SourceWord) /\ Len(new) = Len(ws)
      /\ \A i \in 1..(Len(ws) - 1) : new[i] = ws[i]
      /\ new[Len(ws)] = sw
  BY <1>1, <1>2, <1>3
<1>5. Resolved(new, <<>>)
  <2> SUFFICES ASSUME NEW i \in 1..Len(ws)
               PROVE  IsBranch(new[i].word) /\ new[i].branchTo = 0
                        <=> i \in OpenBranches(<<>>)
    BY <1>4 DEF Resolved
  <2>1. CASE i \in 1..(Len(ws) - 1)
    BY <2>1, <1>1, <1>4 DEF Resolved
  <2>2. CASE i = Len(ws)
    BY <2>2, <1>2, <1>4, OpenBranchesOf DEF IsBranch
  <2>3. QED
    BY <1>1, <2>1, <2>2
<1>6. ASSUME NEW i \in 1..Len(new) PROVE new[i].branchTo \in 0..Len(new)
  <2>1. CASE i \in 1..(Len(ws) - 1)
    BY <2>1, <1>1, <1>4
  <2>2. CASE i = Len(ws)
    BY <2>2, <1>1, <1>2, <1>4
  <2>3. QED
    BY <1>1, <1>4, <2>1, <2>2
<1>7. Finished(new)
  BY <1>1, <1>2, <1>4, <1>5, <1>6 DEF Finished
<1>8. QED
  BY <1>7 DEF new

\* The empty list that a new Compiler starts with
LEMMA InitWellFormed == WellFormed(<<Placeholder>>, <<>>)
<1> DEFINE ws == <<Placeholder>>
<1>1. /\ Placeholder \in SourceWord /\ Placeholder.word = "NOP"
      /\ Placeholder.branchTo = 0
  BY DEF SourceWord, Placeholder, NewSourceWord, Ref
<1>2. ws \in Seq(SourceWord) /\ Len(ws) = 1 /\ ws[1] = Placeholder
  BY <1>1
<1>3. <<>> \in Seq(Control) /\ ControlShape(ws, <<>>)
  BY DEF ControlShape
<1>4. Resolved(ws, <<>>)
  BY <1>1, <1>2, OpenBranchesOf DEF Resolved, IsBranch
<1> HIDE DEF ws
<1>5. WellFormed(ws, <<>>)
  BY <1>1, <1>2, <1>3, <1>4 DEF WellFormed
<1>6. QED
  BY <1>5 DEF ws

\* Every step of the front end keeps the lists as the invariant wants them.
LEMMA ParseKeepsLists ==
  ASSUME InlinesAreStraight, ListsOK, ParseNext
  PROVE  ListsOK'
<1>1. ASSUME NEW what, ParseFails(what) PROVE ListsOK'
  BY <1>1 DEF ParseFails, Fail, ListsOK
<1>2. ASSUME NEW ws, NEW ctrl, Parsed(ws, ctrl),
             phase = "parsing" => WellFormed(ws, ctrl)
      PROVE  ListsOK'
  BY <1>2 DEF Parsed, ListsOK
<1>3. phase = "parsing" => WellFormed(words, controlStack)
  BY DEF ListsOK
<1>4. phase = "parsing" => Here(words) = Len(words) /\ Len(words) \in 1..Len(words)
  BY <1>3 DEF Here, WellFormed
<1>5. ASSUME NEW v \in Literals, ParseLiteral(v) PROVE ListsOK'
  <2>1. LiteralRef(v) \in PlainRef
    BY DEF LiteralRef, PlainRef
  <2>2. QED
    BY <1>2, <1>3, <1>5, <2>1, AddWellFormed DEF ParseLiteral
<1>6. ASSUME NEW w \in Words, ParseWord(w) PROVE ListsOK'
  <2>1. Ref(w) \in PlainRef
    BY DEF Ref, PlainRef
  <2>2. QED
    BY <1>2, <1>3, <1>6, <2>1, AddWellFormed DEF ParseWord
<1>7. ASSUME NEW w \in DOMAIN InlineBody, ParseInlineWord(w) PROVE ListsOK'
  <2>1. InlineBody[w] \in Seq(PlainRef)
    BY DEF InlinesAreStraight
  <2>2. QED
    BY <1>2, <1>3, <1>7, <2>1, AddAllWellFormed DEF ParseInlineWord
<1>8. CASE ParseIf
  BY <1>2, <1>3, <1>4, <1>8, PushBranchWellFormed DEF ParseIf, Push
<1>9. CASE ParseElse
  BY <1>2, <1>3, <1>4, <1>9, ElseWellFormed DEF ParseElse
<1>10. CASE ParseThen
  <2>1. CanPop(controlStack, {"i", "e", "w"})
    BY <1>10 DEF ParseThen, CanPop, ThenMatches
  <2>2. QED
    BY <1>2, <1>3, <1>4, <1>10, <2>1, PopBranchWellFormed
       DEF ParseThen, FixBranch
<1>11. CASE ParseBegin
  BY <1>2, <1>3, <1>4, <1>11, BeginWellFormed DEF ParseBegin, Push
<1>12. CASE ParseWhile
  BY <1>2, <1>3, <1>4, <1>12, PushBranchWellFormed DEF ParseWhile, Push
<1>13. CASE ParseRepeat
  BY <1>2, <1>3, <1>4, <1>13, RepeatWellFormed DEF ParseRepeat
<1>14. CASE ParseRecurse
  <2> DEFINE added == Add(words, Ref("_RECURSE"))
  <2>1. phase = "parsing" => WellFormed(added, controlStack)
    BY <1>3, AddWellFormed
  <2>2. phase = "parsing" =>
          /\ Len(added) = Len(words) + 1
          /\ added[Len(words)].word = "_RECURSE"
    <3>1. Ref("_RECURSE") \in PlainRef \cup BranchRef
      BY DEF Ref, BranchRef
    <3>2. NewSourceWord(Ref("_RECURSE"), words[Len(words)].isDst).word = "_RECURSE"
      BY DEF NewSourceWord, Ref
    <3>3. phase = "parsing" => words \in Seq(SourceWord) /\ Len(words) >= 1
      BY <1>3 DEF WellFormed
    <3>4. QED
      BY <3>1, <3>2, <3>3, AddShape
  <2> HIDE DEF added
  <2>3. phase = "parsing" =>
          WellFormed(BranchesTo(added, Len(words), 1), controlStack)
    BY <1>4, <2>1, <2>2, RecurseWellFormed DEF IsBranch
  <2>4. QED
    BY <1>2, <1>4, <1>14, <2>3 DEF ParseRecurse, added
<1>15. CASE Finish
  BY <1>3, <1>15, FinishWellFormed DEF Finish, ListsOK
<1>16. CASE ParseUnknownWord \/ ParseUnmatched \/ FinishTooEarly
  BY <1>1, <1>16 DEF ParseUnknownWord, ParseUnmatched, FinishTooEarly
<1>17. QED
  BY <1>5, <1>6, <1>7, <1>8, <1>9, <1>10, <1>11, <1>12, <1>13, <1>14, <1>15,
     <1>16 DEF ParseNext, ParseToken

\* The front end leaves the Compiler's declaration alone.
LEMMA ParseKeepsSetup ==
  ASSUME ParseNext
  PROVE  UNCHANGED setup
BY DEF ParseNext, ParseToken, ParseLiteral, ParseWord, ParseInlineWord,
  ParseUnknownWord, ParseIf, ParseElse, ParseThen, ParseBegin, ParseWhile,
  ParseRepeat, ParseRecurse, ParseUnmatched, Finish, FinishTooEarly, Parsed,
  ParseFails, Fail

\* What a Compiler starts with satisfies the invariant.
LEMMA InitOK == Init => ListsOK /\ SetupOK
<1> SUFFICES ASSUME Init PROVE ListsOK /\ SetupOK
  OBVIOUS
<1>1. ListsOK
  BY InitWellFormed DEF Init, ListsOK
<1>2. SetupOK
  BY CompilerAssumption DEF Init, SetupOK, Declaration
<1>3. QED
  BY <1>1, <1>2

\* The invariant implies the properties.
LEMMA ListsOKImplies == ListsOK => BranchesResolved
<1>1. OpenBranches(<<>>) = {}
  BY DEF OpenBranches
<1>2. QED
  BY <1>1 DEF ListsOK, BranchesResolved, WellFormed, Finished, Resolved

\* The invariant implies type correctness.
LEMMA ListsTypeOK == ListsOK /\ SetupOK => CompilerTypeOK
<1> SUFFICES ASSUME ListsOK, SetupOK PROVE CompilerTypeOK
  OBVIOUS
<1>1. words \in Seq(SourceWord) /\ controlStack \in Seq(Control)
  <2>1. CASE phase = "parsing"
    BY <2>1 DEF ListsOK, WellFormed
  <2>2. CASE phase = "error"
    BY <2>2 DEF ListsOK
  <2>3. CASE phase \notin {"parsing", "error"}
    BY <2>3 DEF ListsOK, Finished
  <2>4. QED
    BY <2>1, <2>2, <2>3
<1>2. QED
  BY <1>1 DEF SetupOK, CompilerTypeOK

(***************************************************************************)
(* Whatever tokens come and however deep IF and BEGIN are nested, the      *)
(* fields of the Compiler keep their types (compiler.hh).                  *)
(***************************************************************************)
THEOREM ParseTypeCorrect ==
  ASSUME InlinesAreStraight
  PROVE  ParseSpec => []CompilerTypeOK
<1>1. Init => ListsOK /\ SetupOK
  BY InitOK
<1>2. ListsOK /\ SetupOK /\ [ParseNext]_compilerVars => (ListsOK /\ SetupOK)'
  <2> SUFFICES ASSUME ListsOK, SetupOK, [ParseNext]_compilerVars
               PROVE  ListsOK' /\ SetupOK'
    OBVIOUS
  <2>1. CASE ParseNext
    BY <2>1, ParseKeepsLists, ParseKeepsSetup DEF SetupOK, setup
  <2>2. CASE UNCHANGED compilerVars
    BY <2>2 DEF compilerVars, setup, ListsOK, SetupOK
  <2>3. QED
    BY <2>1, <2>2
<1>3. QED
  BY <1>1, <1>2, ListsTypeOK, PTL DEF ParseSpec

(***************************************************************************)
(* A branch lacks its target exactly while the control stack holds it, for *)
(* every program text: the list that Finish hands to the checker satisfies *)
(* assert(i->branchTo) at every branch, provided no Inline word has one.   *)
(***************************************************************************)
THEOREM ParseResolvesBranches ==
  ASSUME InlinesAreStraight
  PROVE  ParseSpec => []BranchesResolved
<1>1. Init => ListsOK
  BY InitOK
<1>2. ListsOK /\ [ParseNext]_compilerVars => ListsOK'
  <2>1. ASSUME ListsOK, UNCHANGED compilerVars PROVE ListsOK'
    BY <2>1 DEF compilerVars, ListsOK
  <2>2. QED
    BY <2>1, ParseKeepsLists
<1>3. QED
  BY <1>1, <1>2, ListsOKImplies, PTL DEF ParseSpec
-----------------------------------------------------------------------------
(* Structured control flow *)

(***************************************************************************)
(* The branches of a list that have a target, with the target: all that    *)
(* ControlFlowStructured depends on.                                       *)
(***************************************************************************)
Flow(ws) ==
  [i \in {i \in DOMAIN ws : IsBranch(ws[i].word) /\ ws[i].branchTo # 0} |->
     ws[i].branchTo]

\* Positions and targets of the branches before the placeholder at h
FlowBefore(F, h) ==
  \A i \in DOMAIN F : i \in Nat /\ i < h /\ F[i] \in Nat /\ F[i] <= h

\* F2 is F with a branch from p to t added.
AddsBranch(F2, F, p, t) ==
  /\ DOMAIN F2 = DOMAIN F \cup {p}
  /\ F2[p] = t
  /\ \A i \in DOMAIN F : F2[i] = F[i]

\* Entries higher on the control stack are further on in the list.
Ordered(ctrl) ==
  \A j, k \in DOMAIN ctrl :
    j < k => /\ ctrl[j].at <= ctrl[k].at
             /\ ctrl[j].id # "b" => ctrl[j].at < ctrl[k].at

\* The branch at p still awaits its target: no branch before it goes further
\* than to the word behind it, and it is in no finished loop.
OpenApart(F, p) ==
  \A i \in DOMAIN F : /\ F[i] > i /\ i < p => F[i] <= p + 1
                      /\ F[i] <= i => p < F[i] \/ p > i

\* The loop that begins at b is unfinished: no branch enters it but at b, none
\* leaves it backwards, and no finished loop contains b but at its own start.
BeginApart(F, b) ==
  \A i \in DOMAIN F : /\ i < b => F[i] <= b
                      /\ i >= b => F[i] >= b
                      /\ F[i] <= i => b <= F[i] \/ b > i

\* ControlFlowStructured, in terms of positions and targets
FlowNested(F) ==
  /\ \A i, j \in DOMAIN F :
       i < j /\ F[i] > i /\ F[j] > j => F[j] <= F[i] \/ F[i] <= j + 1
  /\ \A r, i \in DOMAIN F :
       F[r] <= r => IF F[r] <= i /\ i <= r
                      THEN F[r] <= F[i] /\ F[i] <= r + 1
                      ELSE F[i] <= F[r] \/ F[i] > r

\* The inductive invariant that makes control flow structured
Nested(F, ctrl) ==
  /\ Ordered(ctrl)
  /\ FlowNested(F)
  /\ \A k \in DOMAIN ctrl :
       IF ctrl[k].id = "b" THEN BeginApart(F, ctrl[k].at)
                           ELSE OpenApart(F, ctrl[k].at)

\* In a well-formed list the branches come before the placeholder.
LEMMA FlowIsBefore ==
  ASSUME NEW ws, NEW ctrl, WellFormed(ws, ctrl)
  PROVE  FlowBefore(Flow(ws), Len(ws))
<1>1. /\ ws \in Seq(SourceWord) /\ Len(ws) \in Nat
      /\ ws[Len(ws)].branchTo = 0
      /\ \A i \in 1..Len(ws) : ws[i].branchTo \in 0..Len(ws)
  BY DEF WellFormed
<1> SUFFICES ASSUME NEW i \in DOMAIN Flow(ws)
             PROVE  /\ i \in Nat /\ i < Len(ws)
                    /\ Flow(ws)[i] \in Nat /\ Flow(ws)[i] <= Len(ws)
  BY DEF FlowBefore
<1>2. i \in 1..Len(ws) /\ ws[i].branchTo # 0 /\ Flow(ws)[i] = ws[i].branchTo
  BY <1>1 DEF Flow
<1>3. QED
  BY <1>1, <1>2

\* Lists with the same branches have the same flow.
LEMMA SameFlow ==
  ASSUME NEW ws, NEW new,
         \A i \in DOMAIN ws : i \in DOMAIN new,
         \A i \in DOMAIN new :
           IF i \in DOMAIN ws /\ IsBranch(ws[i].word) /\ ws[i].branchTo # 0
             THEN IsBranch(new[i].word) /\ new[i].branchTo = ws[i].branchTo
             ELSE ~(IsBranch(new[i].word) /\ new[i].branchTo # 0)
  PROVE  Flow(new) = Flow(ws)
<1> DEFINE D(v) == {i \in DOMAIN v : IsBranch(v[i].word) /\ v[i].branchTo # 0}
<1>1. D(new) = D(ws)
  OBVIOUS
<1>2. \A i \in D(ws) : new[i].branchTo = ws[i].branchTo
  OBVIOUS
<1>3. QED
  BY <1>1, <1>2 DEF Flow

\* add() adds no branch that has a target.
LEMMA AddFlow ==
  ASSUME NEW ws \in Seq(SourceWord), Len(ws) >= 1, ws[Len(ws)].branchTo = 0,
         NEW ref \in PlainRef \cup BranchRef
  PROVE  Flow(Add(ws, ref)) = Flow(ws)
<1> DEFINE new == Add(ws, ref)
           sw == NewSourceWord(ref, ws[Len(ws)].isDst)
<1>1. /\ new \in Seq(SourceWord) /\ Len(new) = Len(ws) + 1
      /\ \A i \in 1..(Len(ws) - 1) : new[i] = ws[i]
      /\ new[Len(ws)] = sw /\ new[Len(ws) + 1] = Placeholder
  BY AddShape
<1>2. sw.branchTo = 0 /\ Placeholder.branchTo = 0
  BY DEF NewSourceWord, Placeholder
<1> HIDE DEF new, sw
<1>3. ASSUME NEW i \in DOMAIN new
      PROVE  \/ i \in 1..(Len(ws) - 1) /\ i \in DOMAIN ws /\ new[i] = ws[i]
             \/ new[i].branchTo = 0 /\ ~(i \in DOMAIN ws /\ ws[i].branchTo # 0)
  BY <1>1, <1>2
<1>4. DOMAIN ws \subseteq DOMAIN new
  BY <1>1
<1>5. Flow(new) = Flow(ws)
  BY <1>3, <1>4, SameFlow
<1>6. QED
  BY <1>5 DEF new

\* addInline() of a straight body adds none either.
LEMMA AddAllFlow ==
  ASSUME NEW ws \in Seq(SourceWord), Len(ws) >= 1, ws[Len(ws)].branchTo = 0,
         NEW refs \in Seq(PlainRef)
  PROVE  Flow(AddAll(ws, refs)) = Flow(ws)
<1>1. CASE refs = <<>>
  BY <1>1 DEF AddAll
<1>2. CASE refs # <<>>
  <2> DEFINE new == AddAll(ws, refs)
             n == Len(refs)
  <2>1. /\ new \in Seq(SourceWord) /\ Len(new) = Len(ws) + n
        /\ \A i \in 1..(Len(ws) - 1) : new[i] = ws[i]
        /\ \A i \in Len(ws)..(Len(ws) + n - 1) : new[i].branchTo = 0
        /\ new[Len(ws) + n] = Placeholder
    BY <1>2, AddAllShape
  <2>2. n \in Nat /\ n >= 1 /\ Placeholder.branchTo = 0
    BY <1>2 DEF NewSourceWord, Placeholder
  <2> HIDE DEF new, n
  <2>3. ASSUME NEW i \in DOMAIN new
        PROVE  \/ i \in 1..(Len(ws) - 1) /\ i \in DOMAIN ws /\ new[i] = ws[i]
               \/ new[i].branchTo = 0 /\ ~(i \in DOMAIN ws /\ ws[i].branchTo # 0)
    BY <2>1, <2>2
  <2>4. DOMAIN ws \subseteq DOMAIN new
    BY <2>1, <2>2
  <2>5. Flow(new) = Flow(ws)
    BY <2>3, <2>4, SameFlow
  <2>6. QED
    BY <2>5 DEF new
<1>3. QED
  BY <1>1, <1>2

\* branchesTo() gives one branch its target; for RECURSE that is no branch.
LEMMA BranchFlow ==
  ASSUME NEW ws \in Seq(SourceWord),
         NEW src \in 1..Len(ws), NEW dst \in 1..Len(ws), ws[src].branchTo = 0
  PROVE  /\ IsBranch(ws[src].word) =>
              AddsBranch(Flow(BranchesTo(ws, src, dst)), Flow(ws), src, dst)
         /\ ~IsBranch(ws[src].word) => Flow(BranchesTo(ws, src, dst)) = Flow(ws)
         /\ src \notin DOMAIN Flow(ws)
<1> DEFINE new == BranchesTo(ws, src, dst)
           D(v) == {i \in DOMAIN v : IsBranch(v[i].word) /\ v[i].branchTo # 0}
<1>1. /\ new \in Seq(SourceWord) /\ Len(new) = Len(ws)
      /\ \A i \in 1..Len(ws) :
           /\ new[i].word = ws[i].word
           /\ new[i].branchTo = IF i = src THEN dst ELSE ws[i].branchTo
  BY BranchesToShape
<1> HIDE DEF new
<1>2. DOMAIN new = 1..Len(ws) /\ DOMAIN ws = 1..Len(ws) /\ dst # 0
  BY <1>1
<1>3. src \notin D(ws)
  OBVIOUS
<1>4. /\ DOMAIN Flow(ws) = D(ws) /\ \A i \in D(ws) : Flow(ws)[i] = ws[i].branchTo
      /\ DOMAIN Flow(new) = D(new)
      /\ \A i \in D(new) : Flow(new)[i] = new[i].branchTo
  BY DEF Flow
<1>5. ASSUME IsBranch(ws[src].word) PROVE AddsBranch(Flow(new), Flow(ws), src, dst)
  <2>1. D(new) = D(ws) \cup {src}
    BY <1>1, <1>2, <1>5
  <2>2. \A i \in D(ws) : new[i].branchTo = ws[i].branchTo
    BY <1>1, <1>2, <1>3
  <2>3. new[src].branchTo = dst
    BY <1>1
  <2> HIDE DEF D
  <2>4. QED
    BY <1>4, <2>1, <2>2, <2>3 DEF AddsBranch
<1>6. ASSUME ~IsBranch(ws[src].word) PROVE Flow(new) = Flow(ws)
  <2>1. ASSUME NEW i \in DOMAIN new
        PROVE  IF i \in DOMAIN ws /\ IsBranch(ws[i].word) /\ ws[i].branchTo # 0
                 THEN IsBranch(new[i].word) /\ new[i].branchTo = ws[i].branchTo
                 ELSE ~(IsBranch(new[i].word) /\ new[i].branchTo # 0)
    BY <1>1, <1>2, <1>6
  <2>2. QED
    BY <1>2, <2>1, SameFlow
<1>7. QED
  BY <1>3, <1>4, <1>5, <1>6 DEF new

\* The control stack with an entry added
LEMMA PushShape ==
  ASSUME NEW ctrl \in Seq(Control), NEW entry \in Control
  PROVE  /\ Append(ctrl, entry) \in Seq(Control)
         /\ DOMAIN Append(ctrl, entry) = 1..(Len(ctrl) + 1)
         /\ Len(ctrl) \in Nat /\ DOMAIN ctrl = 1..Len(ctrl)
         /\ \A k \in 1..Len(ctrl) : Append(ctrl, entry)[k] = ctrl[k]
         /\ Append(ctrl, entry)[Len(ctrl) + 1] = entry
         /\ \A k \in 1..Len(ctrl) : ctrl[k].at \in Nat
<1>1. \A k \in 1..Len(ctrl) : ctrl[k] \in Control
  OBVIOUS
<1>2. \A c \in Control : c.at \in Nat
  BY DEF Control
<1>3. QED
  BY <1>1, <1>2

\* An entry pushed at p keeps the order if the others lie before p.
LEMMA PushOrdered ==
  ASSUME NEW ctrl \in Seq(Control), NEW entry \in Control, Ordered(ctrl),
         \A k \in DOMAIN ctrl : /\ ctrl[k].at <= entry.at
                                /\ ctrl[k].id # "b" => ctrl[k].at < entry.at
  PROVE  Ordered(Append(ctrl, entry))
<1> DEFINE new == Append(ctrl, entry)
           n == Len(ctrl)
<1>1. /\ DOMAIN new = 1..(n + 1) /\ n \in Nat /\ DOMAIN ctrl = 1..n
      /\ \A k \in 1..n : new[k] = ctrl[k]
      /\ new[n + 1] = entry
  BY PushShape
<1> HIDE DEF new, n
<1>2. ASSUME NEW j \in DOMAIN new, NEW k \in DOMAIN new, j < k
      PROVE  /\ new[j].at <= new[k].at
             /\ new[j].id # "b" => new[j].at < new[k].at
  <2>1. j \in 1..n /\ (k \in 1..n \/ k = n + 1)
    BY <1>1, <1>2
  <2>2. CASE k \in 1..n
    BY <1>1, <1>2, <2>1, <2>2 DEF Ordered
  <2>3. CASE k = n + 1
    BY <1>1, <2>1, <2>3
  <2>4. QED
    BY <2>1, <2>2, <2>3
<1>3. QED
  BY <1>2 DEF Ordered, new

\* IF, WHILE and ELSE push a branch that lies behind all others.
LEMMA PushNested ==
  ASSUME NEW F, NEW ctrl \in Seq(Control), Nested(F, ctrl),
         NEW entry \in Control, entry.id # "b",
         \A k \in DOMAIN ctrl : /\ ctrl[k].at <= entry.at
                                /\ ctrl[k].id # "b" => ctrl[k].at < entry.at,
         \A i \in DOMAIN F : i < entry.at /\ F[i] <= entry.at + 1
  PROVE  Nested(F, Append(ctrl, entry))
<1> DEFINE new == Append(ctrl, entry)
           n == Len(ctrl)
<1>1. /\ DOMAIN new = 1..(n + 1) /\ n \in Nat /\ DOMAIN ctrl = 1..n
      /\ \A k \in 1..n : new[k] = ctrl[k]
      /\ new[n + 1] = entry
  BY PushShape
<1>2. Ordered(new)
  BY PushOrdered DEF Nested
<1> HIDE DEF new, n
<1>3. OpenApart(F, entry.at)
  BY DEF OpenApart
<1>4. ASSUME NEW k \in DOMAIN new
      PROVE  IF new[k].id = "b" THEN BeginApart(F, new[k].at)
                                ELSE OpenApart(F, new[k].at)
  <2>1. CASE k \in 1..n
    BY <1>1, <2>1 DEF Nested
  <2>2. CASE k = n + 1
    BY <1>1, <1>3, <2>2
  <2>3. QED
    BY <1>1, <2>1, <2>2
<1>5. QED
  BY <1>2, <1>4 DEF Nested, new

\* BEGIN pushes the placeholder's position.
LEMMA BeginNested ==
  ASSUME NEW F, NEW ctrl \in Seq(Control), Nested(F, ctrl),
         NEW entry \in Control, entry.id = "b",
         \A k \in DOMAIN ctrl : /\ ctrl[k].at <= entry.at
                                /\ ctrl[k].id # "b" => ctrl[k].at < entry.at,
         FlowBefore(F, entry.at)
  PROVE  Nested(F, Append(ctrl, entry))
<1> DEFINE new == Append(ctrl, entry)
           n == Len(ctrl)
<1>1. /\ DOMAIN new = 1..(n + 1) /\ n \in Nat /\ DOMAIN ctrl = 1..n
      /\ \A k \in 1..n : new[k] = ctrl[k]
      /\ new[n + 1] = entry
  BY PushShape
<1>2. Ordered(new)
  BY PushOrdered DEF Nested
<1> HIDE DEF new, n
<1>3. entry.at \in Nat
  BY DEF Control
<1>4. BeginApart(F, entry.at)
  BY <1>3 DEF BeginApart, FlowBefore
<1>5. ASSUME NEW k \in DOMAIN new
      PROVE  IF new[k].id = "b" THEN BeginApart(F, new[k].at)
                                ELSE OpenApart(F, new[k].at)
  <2>1. CASE k \in 1..n
    BY <1>1, <2>1 DEF Nested
  <2>2. CASE k = n + 1
    BY <1>1, <1>4, <2>2
  <2>3. QED
    BY <1>1, <2>1, <2>2
<1>6. QED
  BY <1>2, <1>5 DEF Nested, new

\* The entries below the top of the control stack, once that is popped
LEMMA BelowTop ==
  ASSUME NEW F, NEW ctrl \in Seq(Control), ctrl # <<>>, Nested(F, ctrl)
  PROVE  /\ Top(ctrl) \in Nat
         /\ Ordered(Pop(ctrl))
         /\ IF ctrl[Len(ctrl)].id = "b" THEN BeginApart(F, Top(ctrl))
                                        ELSE OpenApart(F, Top(ctrl))
         /\ \A k \in DOMAIN Pop(ctrl) :
              /\ Pop(ctrl)[k] \in Control
              /\ Pop(ctrl)[k].at \in Nat
              /\ Pop(ctrl)[k].at <= Top(ctrl)
              /\ IF Pop(ctrl)[k].id = "b"
                   THEN BeginApart(F, Pop(ctrl)[k].at)
                   ELSE /\ OpenApart(F, Pop(ctrl)[k].at)
                        /\ Pop(ctrl)[k].at < Top(ctrl)
<1> DEFINE n == Len(ctrl)
           new == Pop(ctrl)
<1>1. /\ n \in Nat /\ n \in DOMAIN ctrl /\ DOMAIN ctrl = 1..n
      /\ new \in Seq(Control) /\ Len(new) = n - 1
      /\ \A m \in 1..(n - 1) : new[m] = ctrl[m]
  BY PopShape
<1>2. Top(ctrl) = ctrl[n].at
  BY DEF Top
<1> HIDE DEF n, new
<1>3. \A k \in DOMAIN ctrl : ctrl[k] \in Control /\ ctrl[k].at \in Nat
  <2>1. \A k \in DOMAIN ctrl : ctrl[k] \in Control
    OBVIOUS
  <2>2. \A c \in Control : c.at \in Nat
    BY DEF Control
  <2>3. QED
    BY <2>1, <2>2
<1>4. ASSUME NEW k \in DOMAIN new
      PROVE  new[k] = ctrl[k] /\ k \in DOMAIN ctrl /\ k \in Nat /\ k < n
  BY <1>1
<1>5. Ordered(new)
  BY <1>4 DEF Nested, Ordered
<1>6. ASSUME NEW k \in DOMAIN new
      PROVE  /\ ctrl[k].at <= ctrl[n].at
             /\ ctrl[k].id # "b" => ctrl[k].at < ctrl[n].at
  BY <1>1, <1>4 DEF Nested, Ordered
<1>7. QED
  BY <1>1, <1>2, <1>3, <1>4, <1>5, <1>6 DEF Nested, new, n

(***************************************************************************)
(* fixBranch() of the branch on top of the control stack, to a position    *)
(* behind all branches and targets                                         *)
(***************************************************************************)
LEMMA FixNested ==
  ASSUME NEW F, NEW F2, NEW ctrl \in Seq(Control), ctrl # <<>>,
         Nested(F, ctrl), ctrl[Len(ctrl)].id # "b",
         NEW t \in Nat, FlowBefore(F, t), Top(ctrl) < t,
         AddsBranch(F2, F, Top(ctrl), t), Top(ctrl) \notin DOMAIN F
  PROVE  Nested(F2, Pop(ctrl))
<1> DEFINE p == Top(ctrl)
           new == Pop(ctrl)
<1>1. /\ p \in Nat /\ Ordered(new) /\ OpenApart(F, p)
      /\ \A k \in DOMAIN new :
           /\ new[k].at \in Nat /\ new[k].at <= p
           /\ IF new[k].id = "b" THEN BeginApart(F, new[k].at)
              ELSE OpenApart(F, new[k].at) /\ new[k].at < p
  BY BelowTop
<1>2. /\ DOMAIN F2 = DOMAIN F \cup {p} /\ F2[p] = t /\ p < t
      /\ \A i \in DOMAIN F : F2[i] = F[i] /\ i # p
  BY DEF AddsBranch
<1>3. \A i \in DOMAIN F : i \in Nat /\ i < t /\ F[i] \in Nat /\ F[i] <= t
  BY DEF FlowBefore
<1> HIDE DEF p, new
<1>4. \A i \in DOMAIN F : /\ F[i] > i /\ i < p => F[i] <= p + 1
                          /\ F[i] <= i => p < F[i] \/ p > i
  BY <1>1 DEF OpenApart
<1>5. FlowNested(F)
  BY DEF Nested
<1>6. ASSUME NEW i \in DOMAIN F2, NEW j \in DOMAIN F2,
             i < j, F2[i] > i, F2[j] > j
      PROVE  F2[j] <= F2[i] \/ F2[i] <= j + 1
  <2>1. CASE i \in DOMAIN F /\ j \in DOMAIN F
    BY <1>2, <1>5, <1>6, <2>1 DEF FlowNested
  <2>2. CASE i \in DOMAIN F /\ j = p
    BY <1>2, <1>4, <1>6, <2>2
  <2>3. CASE i = p /\ j \in DOMAIN F
    BY <1>2, <1>3, <2>3
  <2>4. CASE i = p /\ j = p
    BY <1>1, <1>6, <2>4
  <2>5. QED
    BY <1>2, <2>1, <2>2, <2>3, <2>4
<1>7. ASSUME NEW r \in DOMAIN F2, NEW i \in DOMAIN F2, F2[r] <= r
      PROVE  IF F2[r] <= i /\ i <= r THEN F2[r] <= F2[i] /\ F2[i] <= r + 1
             ELSE F2[i] <= F2[r] \/ F2[i] > r
  <2>1. r \in DOMAIN F /\ F2[r] = F[r] /\ F[r] <= r
    BY <1>1, <1>2, <1>7
  <2>2. CASE i \in DOMAIN F
    BY <1>2, <1>5, <2>1, <2>2 DEF FlowNested
  <2>3. CASE i = p
    <3>1. p < F[r] \/ p > r
      BY <1>4, <2>1
    <3>2. r \in Nat /\ r < t /\ F[r] \in Nat
      BY <1>3, <2>1
    <3>3. QED
      BY <1>1, <1>2, <2>1, <2>3, <3>1, <3>2
  <2>4. QED
    BY <1>2, <2>2, <2>3
<1>8. ASSUME NEW k \in DOMAIN new
      PROVE  IF new[k].id = "b" THEN BeginApart(F2, new[k].at)
                                ELSE OpenApart(F2, new[k].at)
  <2> DEFINE q == new[k].at
  <2>1. /\ q \in Nat /\ q <= p
        /\ IF new[k].id = "b" THEN BeginApart(F, q)
                              ELSE OpenApart(F, q) /\ q < p
    BY <1>1
  <2> HIDE DEF q
  <2>2. CASE new[k].id = "b"
    <3>1. ASSUME NEW i \in DOMAIN F2
          PROVE  /\ i < q => F2[i] <= q
                 /\ i >= q => F2[i] >= q
                 /\ F2[i] <= i => q <= F2[i] \/ q > i
      <4>1. CASE i \in DOMAIN F
        BY <1>2, <2>1, <2>2, <4>1 DEF BeginApart
      <4>2. CASE i = p
        BY <1>1, <1>2, <2>1, <4>2
      <4>3. QED
        BY <1>2, <4>1, <4>2
    <3>2. QED
      BY <2>2, <3>1 DEF BeginApart, q
  <2>3. CASE new[k].id # "b"
    <3>1. ASSUME NEW i \in DOMAIN F2
          PROVE  /\ F2[i] > i /\ i < q => F2[i] <= q + 1
                 /\ F2[i] <= i => q < F2[i] \/ q > i
      <4>1. CASE i \in DOMAIN F
        BY <1>2, <2>1, <2>3, <4>1 DEF OpenApart
      <4>2. CASE i = p
        BY <1>1, <1>2, <2>1, <2>3, <4>2
      <4>3. QED
        BY <1>2, <4>1, <4>2
    <3>2. QED
      BY <2>3, <3>1 DEF OpenApart, q
  <2>4. QED
    BY <2>2, <2>3
<1>9. FlowNested(F2)
  BY <1>6, <1>7 DEF FlowNested
<1>10. QED
  BY <1>1, <1>8, <1>9 DEF Nested, new

(***************************************************************************)
(* REPEAT's branch back from r, behind all others, to the BEGIN on top of  *)
(* the control stack                                                       *)
(***************************************************************************)
LEMMA LoopNested ==
  ASSUME NEW F, NEW F2, NEW ctrl \in Seq(Control), ctrl # <<>>,
         Nested(F, ctrl), ctrl[Len(ctrl)].id = "b",
         NEW r \in Nat, Top(ctrl) <= r,
         \A i \in DOMAIN F : /\ i \in Nat /\ i < r
                             /\ F[i] \in Nat /\ F[i] <= r + 1,
         AddsBranch(F2, F, r, Top(ctrl))
  PROVE  Nested(F2, Pop(ctrl))
<1> DEFINE b == Top(ctrl)
           new == Pop(ctrl)
<1>1. /\ b \in Nat /\ Ordered(new) /\ BeginApart(F, b)
      /\ \A k \in DOMAIN new :
           /\ new[k].at \in Nat /\ new[k].at <= b
           /\ IF new[k].id = "b" THEN BeginApart(F, new[k].at)
              ELSE OpenApart(F, new[k].at) /\ new[k].at < b
  BY BelowTop
<1>2. /\ DOMAIN F2 = DOMAIN F \cup {r} /\ F2[r] = b /\ b <= r
      /\ \A i \in DOMAIN F : F2[i] = F[i]
      /\ \A i \in DOMAIN F : i \in Nat /\ i < r /\ F[i] \in Nat /\ F[i] <= r + 1
  BY DEF AddsBranch
<1> HIDE DEF b, new
<1>3. \A i \in DOMAIN F : /\ i < b => F[i] <= b
                          /\ i >= b => F[i] >= b
                          /\ F[i] <= i => b <= F[i] \/ b > i
  BY <1>1 DEF BeginApart
<1>4. FlowNested(F)
  BY DEF Nested
<1>5. ASSUME NEW i \in DOMAIN F2, NEW j \in DOMAIN F2,
             i < j, F2[i] > i, F2[j] > j
      PROVE  F2[j] <= F2[i] \/ F2[i] <= j + 1
  <2>1. i \in DOMAIN F /\ j \in DOMAIN F
    BY <1>1, <1>2, <1>5
  <2>2. QED
    BY <1>2, <1>4, <1>5, <2>1 DEF FlowNested
<1>6. ASSUME NEW s \in DOMAIN F2, NEW i \in DOMAIN F2, F2[s] <= s
      PROVE  IF F2[s] <= i /\ i <= s THEN F2[s] <= F2[i] /\ F2[i] <= s + 1
             ELSE F2[i] <= F2[s] \/ F2[i] > s
  <2>1. CASE s \in DOMAIN F /\ i \in DOMAIN F
    BY <1>2, <1>4, <1>6, <2>1 DEF FlowNested
  <2>2. CASE s \in DOMAIN F /\ i = r
    <3>1. /\ s \in Nat /\ s < r /\ F[s] \in Nat /\ F2[s] = F[s]
          /\ b <= F[s] \/ b > s
      BY <1>2, <1>3, <1>6, <2>2
    <3>2. QED
      BY <1>1, <1>2, <2>2, <3>1
  <2>3. CASE s = r /\ i \in DOMAIN F
    <3>1. /\ i \in Nat /\ i < r /\ F[i] \in Nat /\ F[i] <= r + 1 /\ F2[i] = F[i]
          /\ i < b => F[i] <= b
          /\ i >= b => F[i] >= b
      BY <1>2, <1>3, <2>3
    <3>2. QED
      BY <1>1, <1>2, <2>3, <3>1
  <2>4. CASE s = r /\ i = r
    BY <1>1, <1>2, <2>4
  <2>5. QED
    BY <1>2, <2>1, <2>2, <2>3, <2>4
<1>7. ASSUME NEW k \in DOMAIN new
      PROVE  IF new[k].id = "b" THEN BeginApart(F2, new[k].at)
                                ELSE OpenApart(F2, new[k].at)
  <2> DEFINE q == new[k].at
  <2>1. /\ q \in Nat /\ q <= b
        /\ IF new[k].id = "b" THEN BeginApart(F, q)
                              ELSE OpenApart(F, q) /\ q < b
    BY <1>1
  <2> HIDE DEF q
  <2>2. CASE new[k].id = "b"
    <3>1. ASSUME NEW i \in DOMAIN F2
          PROVE  /\ i < q => F2[i] <= q
                 /\ i >= q => F2[i] >= q
                 /\ F2[i] <= i => q <= F2[i] \/ q > i
      <4>1. CASE i \in DOMAIN F
        BY <1>2, <2>1, <2>2, <4>1 DEF BeginApart
      <4>2. CASE i = r
        BY <1>1, <1>2, <2>1, <4>2
      <4>3. QED
        BY <1>2, <4>1, <4>2
    <3>2. QED
      BY <2>2, <3>1 DEF BeginApart, q
  <2>3. CASE new[k].id # "b"
    <3>1. ASSUME NEW i \in DOMAIN F2
          PROVE  /\ F2[i] > i /\ i < q => F2[i] <= q + 1
                 /\ F2[i] <= i => q < F2[i] \/ q > i
      <4>1. CASE i \in DOMAIN F
        BY <1>2, <2>1, <2>3, <4>1 DEF OpenApart
      <4>2. CASE i = r
        BY <1>1, <1>2, <2>1, <2>3, <4>2
      <4>3. QED
        BY <1>2, <4>1, <4>2
    <3>2. QED
      BY <2>3, <3>1 DEF OpenApart, q
  <2>4. QED
    BY <2>2, <2>3
<1>8. FlowNested(F2)
  BY <1>5, <1>6 DEF FlowNested
<1>9. QED
  BY <1>1, <1>7, <1>8 DEF Nested, new

\* Where the entries of a well-formed control stack are
LEMMA ControlBefore ==
  ASSUME NEW ws, NEW ctrl, WellFormed(ws, ctrl), NEW n, n = Len(ws)
  PROVE  \A k \in DOMAIN ctrl : /\ ctrl[k].at \in 1..n /\ ctrl[k].at <= n
                                /\ ctrl[k].id # "b" => ctrl[k].at < n
BY DEF WellFormed, ControlShape

\* The top entry of a well-formed control stack, when it awaits a target
LEMMA TopBranch ==
  ASSUME NEW ws, NEW ctrl, WellFormed(ws, ctrl), ctrl # <<>>,
         ctrl[Len(ctrl)].id # "b"
  PROVE  /\ Top(ctrl) \in 1..(Len(ws) - 1)
         /\ IsBranch(ws[Top(ctrl)].word) /\ ws[Top(ctrl)].branchTo = 0
<1>1. ctrl \in Seq(Control) /\ Len(ws) \in Nat /\ DOMAIN ws = 1..Len(ws)
  BY DEF WellFormed
<1>2. Len(ctrl) \in DOMAIN ctrl
  BY <1>1
<1>3. Top(ctrl) \in 1..Len(ws) /\ Top(ctrl) < Len(ws)
  BY <1>2, ControlBefore DEF Top
<1>4. Top(ctrl) \in OpenBranches(ctrl)
  BY <1>2, OpenBranchesOf DEF Top
<1>5. QED
  BY <1>1, <1>3, <1>4 DEF WellFormed, Resolved

\* ELSE
LEMMA ElseNested ==
  ASSUME NEW ws, NEW ctrl, WellFormed(ws, ctrl), CanPop(ctrl, ElseMatches),
         Nested(Flow(ws), ctrl)
  PROVE  Nested(Flow(FixBranch(Add(ws, Ref("_BRANCH")), Top(ctrl))),
                Append(Pop(ctrl), [id |-> "e", at |-> Len(ws)]))
<1> DEFINE n == Len(ws)
           p == Top(ctrl)
           F == Flow(ws)
           added == Add(ws, Ref("_BRANCH"))
           fixed == FixBranch(added, p)
           entry == [id |-> "e", at |-> n]
<1>1. /\ ctrl \in Seq(Control) /\ ctrl # <<>> /\ ctrl[Len(ctrl)].id # "b"
      /\ ws \in Seq(SourceWord) /\ n \in Nat /\ n >= 1 /\ ws[n].branchTo = 0
  BY DEF WellFormed, CanPop, ElseMatches
<1>2. p \in 1..(n - 1) /\ IsBranch(ws[p].word) /\ ws[p].branchTo = 0
  BY <1>1, TopBranch
<1>3. Ref("_BRANCH") \in PlainRef \cup BranchRef
  BY DEF Ref, BranchRef
<1>4. /\ added \in Seq(SourceWord) /\ Len(added) = n + 1 /\ added[p] = ws[p]
      /\ Flow(added) = F
  BY <1>1, <1>2, <1>3, AddShape, AddFlow
<1>5. FlowBefore(F, n)
  BY FlowIsBefore
<1>6. entry \in Control /\ entry.id = "e" /\ entry.at = n
  BY <1>1 DEF Control
<1>7. fixed = BranchesTo(added, p, n + 1)
  BY <1>4 DEF FixBranch, Here
<1> HIDE DEF added, n, p, F, entry, fixed
<1>8. AddsBranch(Flow(fixed), F, p, n + 1) /\ p \notin DOMAIN F
  <2>1. p \in 1..Len(added) /\ n + 1 \in 1..Len(added)
    BY <1>1, <1>2, <1>4
  <2>2. QED
    BY <1>2, <1>4, <1>7, <2>1, BranchFlow
<1>9. FlowBefore(F, n + 1)
  BY <1>1, <1>5 DEF FlowBefore
<1>10. Nested(Flow(fixed), Pop(ctrl))
  <2>1. n + 1 \in Nat /\ p < n + 1 /\ Nested(F, ctrl) /\ p = Top(ctrl)
    BY <1>1, <1>2 DEF F, p
  <2>2. QED
    BY <1>1, <1>8, <1>9, <2>1, FixNested
<1>11. /\ Pop(ctrl) \in Seq(Control)
       /\ \A k \in DOMAIN Pop(ctrl) : /\ Pop(ctrl)[k].at <= n
                                      /\ Pop(ctrl)[k].at < n
  <2>1. /\ Pop(ctrl) \in Seq(Control)
        /\ \A k \in DOMAIN Pop(ctrl) :
             Pop(ctrl)[k].at \in Nat /\ Pop(ctrl)[k].at <= p
    BY <1>1, BelowTop, PopShape DEF p
  <2>2. QED
    BY <1>1, <1>2, <2>1
<1>12. \A i \in DOMAIN Flow(fixed) : i < n /\ Flow(fixed)[i] <= n + 1
  <2> SUFFICES ASSUME NEW i \in DOMAIN Flow(fixed)
               PROVE  i < n /\ Flow(fixed)[i] <= n + 1
    OBVIOUS
  <2>1. CASE i = p
    BY <1>1, <1>2, <1>8, <2>1 DEF AddsBranch
  <2>2. CASE i \in DOMAIN F
    BY <1>1, <1>5, <1>8, <2>2 DEF AddsBranch, FlowBefore
  <2>3. QED
    BY <1>8, <2>1, <2>2 DEF AddsBranch
<1>13. Nested(Flow(fixed), Append(Pop(ctrl), entry))
  BY <1>6, <1>10, <1>11, <1>12, PushNested
<1>14. QED
  BY <1>13 DEF fixed, added, p, n, entry

\* THEN
LEMMA ThenNested ==
  ASSUME NEW ws, NEW ctrl, WellFormed(ws, ctrl), CanPop(ctrl, ThenMatches),
         Nested(Flow(ws), ctrl)
  PROVE  Nested(Flow(FixBranch(ws, Top(ctrl))), Pop(ctrl))
<1> DEFINE n == Len(ws)
           p == Top(ctrl)
           F == Flow(ws)
           fixed == FixBranch(ws, p)
<1>1. /\ ctrl \in Seq(Control) /\ ctrl # <<>> /\ ctrl[Len(ctrl)].id # "b"
      /\ ws \in Seq(SourceWord) /\ n \in Nat /\ n >= 1
  BY DEF WellFormed, CanPop, ThenMatches
<1>2. p \in 1..(n - 1) /\ IsBranch(ws[p].word) /\ ws[p].branchTo = 0
  BY <1>1, TopBranch
<1>3. FlowBefore(F, n)
  BY FlowIsBefore
<1>4. fixed = BranchesTo(ws, p, n)
  BY DEF FixBranch, Here
<1>5. p \in 1..n /\ n \in 1..n /\ p < n
  BY <1>1, <1>2
<1>6. AddsBranch(Flow(fixed), F, p, n) /\ p \notin DOMAIN F
  BY <1>1, <1>2, <1>4, <1>5, BranchFlow
<1>7. QED
  BY <1>1, <1>3, <1>5, <1>6, FixNested

\* REPEAT: the flow is the one of fixing the WHILE, then closing the loop.
LEMMA RepeatNested ==
  ASSUME NEW ws, NEW ctrl, WellFormed(ws, ctrl),
         CanPop(ctrl, {"w"}), CanPop(Pop(ctrl), {"b"}), Nested(Flow(ws), ctrl)
  PROVE  Nested(Flow(FixBranch(BranchesTo(Add(ws, Ref("_BRANCH")), Len(ws),
                                          Top(Pop(ctrl))),
                               Top(ctrl))),
                Pop(Pop(ctrl)))
<1> DEFINE n == Len(ws)
           p == Top(ctrl)
           b == Top(Pop(ctrl))
           F == Flow(ws)
           added == Add(ws, Ref("_BRANCH"))
           looped == BranchesTo(added, n, b)
           fixed == FixBranch(looped, p)
           G == [i \in DOMAIN F \cup {p} |-> IF i = p THEN n + 1 ELSE F[i]]
<1>1. /\ ctrl \in Seq(Control) /\ ctrl # <<>> /\ ctrl[Len(ctrl)].id # "b"
      /\ ws \in Seq(SourceWord) /\ n \in Nat /\ n >= 1 /\ ws[n].branchTo = 0
      /\ Pop(ctrl) # <<>> /\ Pop(ctrl)[Len(Pop(ctrl))].id = "b"
  BY DEF WellFormed, CanPop
<1>2. p \in 1..(n - 1) /\ IsBranch(ws[p].word) /\ ws[p].branchTo = 0
  BY <1>1, TopBranch
<1>3. Ref("_BRANCH") \in PlainRef \cup BranchRef
  BY DEF Ref, BranchRef
<1>4. /\ added \in Seq(SourceWord) /\ Len(added) = n + 1 /\ added[p] = ws[p]
      /\ added[n] = NewSourceWord(Ref("_BRANCH"), ws[n].isDst)
      /\ Flow(added) = F
  BY <1>1, <1>2, <1>3, AddShape, AddFlow
<1>5. IsBranch(added[n].word) /\ added[n].branchTo = 0
  BY <1>4 DEF NewSourceWord, Ref, IsBranch
<1>6. FlowBefore(F, n)
  BY FlowIsBefore
<1>7. Pop(ctrl) \in Seq(Control) /\ b \in 1..(n - 1) /\ b <= p
  <2>1. /\ Pop(ctrl) \in Seq(Control) /\ Len(Pop(ctrl)) = Len(ctrl) - 1
        /\ \A m \in 1..(Len(ctrl) - 1) : Pop(ctrl)[m] = ctrl[m]
    BY <1>1, PopShape
  <2>2. /\ Len(Pop(ctrl)) \in DOMAIN Pop(ctrl) /\ Len(Pop(ctrl)) \in DOMAIN ctrl
        /\ b = Pop(ctrl)[Len(Pop(ctrl))].at /\ b = ctrl[Len(Pop(ctrl))].at
    BY <1>1, <2>1 DEF Top
  <2>3. b \in 1..n
    BY <2>2, ControlBefore
  <2>4. \A k \in DOMAIN Pop(ctrl) :
          Pop(ctrl)[k].at \in Nat /\ Pop(ctrl)[k].at <= p
    BY <1>1, BelowTop
  <2>5. b <= p
    BY <2>2, <2>4
  <2>6. QED
    BY <1>1, <1>2, <2>1, <2>3, <2>5
<1> HIDE DEF added, n, p, b, F, G
<1>8. /\ looped \in Seq(SourceWord) /\ Len(looped) = n + 1
      /\ looped[p].word = ws[p].word /\ looped[p].branchTo = 0
      /\ AddsBranch(Flow(looped), F, n, b)
  <2>1. n \in 1..Len(added) /\ b \in 1..Len(added) /\ p \in 1..Len(added) /\ p # n
    BY <1>1, <1>2, <1>4, <1>7
  <2>2. AddsBranch(Flow(looped), F, n, b)
    BY <1>4, <1>5, <2>1, BranchFlow
  <2>3. /\ looped \in Seq(SourceWord) /\ Len(looped) = Len(added)
        /\ \A i \in 1..Len(added) :
             /\ looped[i].word = added[i].word
             /\ looped[i].branchTo = IF i = n THEN b ELSE added[i].branchTo
    BY <1>4, <2>1, BranchesToShape
  <2>4. QED
    BY <1>2, <1>4, <2>1, <2>2, <2>3
<1> HIDE DEF looped
<1>9. AddsBranch(Flow(fixed), Flow(looped), p, n + 1) /\ p \notin DOMAIN Flow(looped)
  <2>1. fixed = BranchesTo(looped, p, n + 1)
    BY <1>8 DEF FixBranch, Here
  <2>2. p \in 1..Len(looped) /\ n + 1 \in 1..Len(looped)
    BY <1>1, <1>2, <1>8
  <2>3. QED
    BY <1>2, <1>8, <2>1, <2>2, BranchFlow
<1> HIDE DEF fixed
<1>10. AddsBranch(G, F, p, n + 1) /\ p \notin DOMAIN F
  BY <1>8, <1>9 DEF AddsBranch, G
<1>11. Nested(G, Pop(ctrl))
  <2>1. n + 1 \in Nat /\ p < n + 1 /\ Nested(F, ctrl) /\ p = Top(ctrl)
    BY <1>1, <1>2 DEF F, p
  <2>2. FlowBefore(F, n + 1)
    BY <1>1, <1>6 DEF FlowBefore
  <2>3. QED
    BY <1>1, <1>10, <2>1, <2>2, FixNested
<1>12. AddsBranch(Flow(fixed), G, n, b)
  BY <1>2, <1>8, <1>9, <1>10 DEF AddsBranch
<1>13. \A i \in DOMAIN G : i \in Nat /\ i < n /\ G[i] \in Nat /\ G[i] <= n + 1
  <2> SUFFICES ASSUME NEW i \in DOMAIN G
               PROVE  i \in Nat /\ i < n /\ G[i] \in Nat /\ G[i] <= n + 1
    OBVIOUS
  <2>1. CASE i = p
    BY <1>1, <1>2, <1>10, <2>1 DEF AddsBranch
  <2>2. CASE i \in DOMAIN F
    BY <1>1, <1>6, <1>10, <2>2 DEF AddsBranch, FlowBefore
  <2>3. QED
    BY <1>10, <2>1, <2>2 DEF AddsBranch
<1>14. b <= n /\ b = Top(Pop(ctrl))
  BY <1>1, <1>7 DEF b
<1>15. Nested(Flow(fixed), Pop(Pop(ctrl)))
  BY <1>1, <1>7, <1>11, <1>12, <1>13, <1>14, LoopNested
<1>16. QED
  BY <1>15 DEF fixed, looped, added, b, p, n

\* The invariant of the state
FlowOK == Nested(Flow(words), controlStack)

\* Without branches and open control structures there is nothing to nest.
LEMMA NothingNested ==
  ASSUME NEW ws, \A i \in DOMAIN ws : ws[i].branchTo = 0
  PROVE  Nested(Flow(ws), <<>>)
<1>1. DOMAIN Flow(ws) = {}
  BY DEF Flow
<1>2. QED
  BY <1>1 DEF Nested, Ordered, FlowNested

\* Every step of the front end keeps control flow nested.
LEMMA ParseKeepsNested ==
  ASSUME InlinesAreStraight, ListsOK, FlowOK, ParseNext
  PROVE  FlowOK'
<1> DEFINE F == Flow(words)
           n == Len(words)
<1>1. ASSUME NEW what, ParseFails(what) PROVE FlowOK'
  <2>1. words' = <<>> /\ controlStack' = <<>>
    BY <1>1 DEF ParseFails, Fail
  <2>2. Nested(Flow(<<>>), <<>>)
    BY NothingNested
  <2>3. QED
    BY <2>1, <2>2 DEF FlowOK
<1>2. ASSUME NEW ws, NEW ctrl, Parsed(ws, ctrl), Nested(Flow(ws), ctrl)
      PROVE  FlowOK'
  <2>1. words' = ws /\ controlStack' = ctrl
    BY <1>2 DEF Parsed
  <2>2. QED
    BY <1>2, <2>1 DEF FlowOK
<1> SUFFICES ASSUME WellFormed(words, controlStack)
               PROVE  FlowOK'
  <2>1. phase = "parsing"
    BY DEF ParseNext, ParseToken, ParseLiteral, ParseWord, ParseInlineWord,
      ParseUnknownWord, ParseIf, ParseElse, ParseThen, ParseBegin, ParseWhile,
      ParseRepeat, ParseRecurse, ParseUnmatched, Finish, FinishTooEarly,
      Parsed, ParseFails
  <2>2. QED
    BY <2>1 DEF ListsOK
<1>3. /\ words \in Seq(SourceWord) /\ n \in Nat /\ n >= 1 /\ Here(words) = n
      /\ words[n].branchTo = 0 /\ controlStack \in Seq(Control)
  BY DEF WellFormed, Here
<1>4. Nested(F, controlStack) /\ FlowBefore(F, n)
  BY FlowIsBefore DEF FlowOK
<1>5. ASSUME NEW ref \in PlainRef \cup BranchRef
      PROVE  Flow(Add(words, ref)) = F
  BY <1>3, AddFlow
<1>6. ASSUME NEW id \in {"i", "w"}
      PROVE  Nested(F, Append(controlStack, [id |-> id, at |-> n]))
  <2> DEFINE entry == [id |-> id, at |-> n]
  <2>1. entry \in Control /\ entry.id # "b" /\ entry.at = n
    BY <1>3, <1>6 DEF Control
  <2>2. \A k \in DOMAIN controlStack :
          /\ controlStack[k].at <= n
          /\ controlStack[k].id # "b" => controlStack[k].at < n
    BY ControlBefore
  <2>3. \A i \in DOMAIN F : i < n /\ F[i] <= n + 1
    BY <1>3, <1>4 DEF FlowBefore
  <2> HIDE DEF entry, F, n
  <2>4. Nested(F, Append(controlStack, entry))
    BY <1>3, <1>4, <2>1, <2>2, <2>3, PushNested
  <2>5. QED
    BY <2>4 DEF entry
<1>7. ASSUME NEW v \in Literals, ParseLiteral(v) PROVE FlowOK'
  <2>1. LiteralRef(v) \in PlainRef
    BY DEF LiteralRef, PlainRef
  <2>2. QED
    BY <1>2, <1>4, <1>5, <1>7, <2>1 DEF ParseLiteral
<1>8. ASSUME NEW w \in Words, ParseWord(w) PROVE FlowOK'
  <2>1. Ref(w) \in PlainRef
    BY DEF Ref, PlainRef
  <2>2. QED
    BY <1>2, <1>4, <1>5, <1>8, <2>1 DEF ParseWord
<1>9. ASSUME NEW w \in DOMAIN InlineBody, ParseInlineWord(w) PROVE FlowOK'
  <2>1. InlineBody[w] \in Seq(PlainRef)
    BY DEF InlinesAreStraight
  <2>2. Flow(AddAll(words, InlineBody[w])) = F
    BY <1>3, <2>1, AddAllFlow
  <2>3. QED
    BY <1>2, <1>4, <1>9, <2>2 DEF ParseInlineWord
<1>10. ASSUME NEW w \in {"_BRANCH", "_ZBRANCH", "_RECURSE"}
       PROVE  Ref(w) \in PlainRef \cup BranchRef
  BY <1>10 DEF Ref, BranchRef
<1>11. CASE ParseIf
  BY <1>2, <1>3, <1>5, <1>6, <1>10, <1>11 DEF ParseIf, Push
<1>12. CASE ParseElse
  BY <1>2, <1>3, <1>4, <1>12, ElseNested DEF ParseElse
<1>13. CASE ParseThen
  BY <1>2, <1>4, <1>13, ThenNested DEF ParseThen
<1>14. CASE ParseBegin
  <2> DEFINE entry == [id |-> "b", at |-> n]
  <2>1. entry \in Control /\ entry.id = "b" /\ entry.at = n
    BY <1>3 DEF Control
  <2>2. \A k \in DOMAIN controlStack :
          /\ controlStack[k].at <= n
          /\ controlStack[k].id # "b" => controlStack[k].at < n
    BY ControlBefore
  <2>3. Parsed(words, Append(controlStack, entry))
    BY <1>3, <1>14 DEF ParseBegin, Push
  <2> HIDE DEF entry
  <2>4. Nested(F, Append(controlStack, entry))
    BY <1>3, <1>4, <2>1, <2>2, BeginNested
  <2>5. QED
    BY <1>2, <2>3, <2>4
<1>15. CASE ParseWhile
  BY <1>2, <1>3, <1>5, <1>6, <1>10, <1>15 DEF ParseWhile, Push
<1>16. CASE ParseRepeat
  BY <1>2, <1>3, <1>4, <1>16, RepeatNested DEF ParseRepeat
<1>17. CASE ParseRecurse
  <2> DEFINE added == Add(words, Ref("_RECURSE"))
  <2>1. /\ added \in Seq(SourceWord) /\ Len(added) = n + 1
        /\ added[n] = NewSourceWord(Ref("_RECURSE"), words[n].isDst)
    BY <1>3, <1>10, AddShape
  <2>2. ~IsBranch(added[n].word) /\ added[n].branchTo = 0
    BY <2>1 DEF NewSourceWord, Ref, IsBranch
  <2>3. Flow(added) = F
    BY <1>5, <1>10
  <2>4. Parsed(BranchesTo(added, n, 1), controlStack)
    BY <1>3, <1>17 DEF ParseRecurse
  <2> HIDE DEF added
  <2>5. n \in 1..Len(added) /\ 1 \in 1..Len(added)
    BY <1>3, <2>1
  <2>6. Flow(BranchesTo(added, n, 1)) = F
    BY <2>1, <2>2, <2>3, <2>5, BranchFlow
  <2>7. QED
    BY <1>2, <1>4, <2>4, <2>6
<1>18. CASE Finish
  <2> DEFINE sw == NewSourceWord(Ref("_RETURN"), FALSE)
             new == AddReturn(words)
  <2>1. sw \in SourceWord /\ sw.branchTo = 0
    BY DEF SourceWord, NewSourceWord, Ref, SpecialWords
  <2>2. new = [words EXCEPT ![n] = sw]
    BY DEF AddReturn, Here
  <2>3. words' = new /\ controlStack' = controlStack
    BY <1>18 DEF Finish
  <2> HIDE DEF sw, new
  <2>4. /\ DOMAIN new = DOMAIN words /\ new[n] = sw
        /\ \A i \in DOMAIN words : i # n => new[i] = words[i]
    BY <1>3, <2>2
  <2>5. Flow(new) = F
    BY <1>3, <2>1, <2>4, SameFlow
  <2>6. QED
    BY <1>4, <2>3, <2>5 DEF FlowOK
<1>19. CASE ParseUnknownWord \/ ParseUnmatched \/ FinishTooEarly
  BY <1>1, <1>19 DEF ParseUnknownWord, ParseUnmatched, FinishTooEarly
<1>20. QED
  BY <1>7, <1>8, <1>9, <1>11, <1>12, <1>13, <1>14, <1>15, <1>16, <1>17,
     <1>18, <1>19 DEF ParseNext, ParseToken

\* The invariant implies the property: from positions to what is skipped.
LEMMA NestedIsStructured ==
  ASSUME ListsOK, FlowOK
  PROVE  ControlFlowStructured
<1> DEFINE F == Flow(words)
           branches == {i \in DOMAIN words : IsBranch(words[i].word)}
           resolved == {i \in branches : words[i].branchTo # 0}
           forward  == {i \in resolved : words[i].branchTo > i}
<1>1. /\ DOMAIN F = resolved
      /\ \A i \in resolved : F[i] = words[i].branchTo
  BY DEF Flow
<1>2. \A i \in resolved : i \in Nat /\ words[i].branchTo \in Nat
  <2>1. words \in Seq(SourceWord)
    <3>1. CASE phase = "parsing"
      BY <3>1 DEF ListsOK, WellFormed
    <3>2. CASE phase = "error"
      BY <3>2 DEF ListsOK
    <3>3. CASE phase \notin {"parsing", "error"}
      BY <3>3 DEF ListsOK, Finished
    <3>4. QED
      BY <3>1, <3>2, <3>3
  <2>2. \A i \in DOMAIN words : i \in Nat /\ words[i] \in SourceWord
    BY <2>1
  <2>3. \A sw \in SourceWord : sw.branchTo \in Nat
    BY DEF SourceWord
  <2>4. QED
    BY <2>2, <2>3
<1>3. FlowNested(F)
  BY DEF FlowOK, Nested
<1> HIDE DEF F
<1>4. ASSUME NEW i \in forward, NEW j \in forward
      PROVE  \/ Skips(i) \cap Skips(j) = {}
             \/ Skips(i) \subseteq Skips(j)
             \/ Skips(j) \subseteq Skips(i)
  <2> DEFINE s == words[i].branchTo
             t == words[j].branchTo
  <2>1. i \in Nat /\ j \in Nat /\ s \in Nat /\ t \in Nat /\ s > i /\ t > j
    BY <1>2
  <2>2. /\ i < j => t <= s \/ s <= j + 1
        /\ j < i => s <= t \/ t <= i + 1
    BY <1>1, <1>3, <2>1 DEF FlowNested
  <2>3. Skips(i) = (i + 1)..(s - 1) /\ Skips(j) = (j + 1)..(t - 1)
    BY DEF Skips
  <2>4. i = j => Skips(i) \subseteq Skips(j)
    OBVIOUS
  <2> HIDE DEF s, t
  <2>5. i < j \/ i = j \/ j < i
    BY <2>1
  <2>6. CASE i < j /\ t <= s
    BY <2>1, <2>3, <2>6
  <2>7. CASE i < j /\ s <= j + 1
    BY <2>1, <2>3, <2>7
  <2>8. CASE j < i /\ s <= t
    BY <2>1, <2>3, <2>8
  <2>9. CASE j < i /\ t <= i + 1
    BY <2>1, <2>3, <2>9
  <2>10. QED
    BY <2>2, <2>4, <2>5, <2>6, <2>7, <2>8, <2>9
<1>5. ASSUME NEW r \in resolved \ forward, NEW i \in resolved
      PROVE  IF i \in Loop(r)
               THEN words[i].branchTo \in Loop(r) \cup {r + 1}
               ELSE words[i].branchTo \notin Loop(r) \ {words[r].branchTo}
  <2> DEFINE b == words[r].branchTo
             t == words[i].branchTo
  <2>1. i \in Nat /\ r \in Nat /\ b \in Nat /\ t \in Nat /\ b <= r
    BY <1>2
  <2>2. IF b <= i /\ i <= r THEN b <= t /\ t <= r + 1 ELSE t <= b \/ t > r
    BY <1>1, <1>3, <2>1 DEF FlowNested
  <2>3. Loop(r) = b..r
    BY DEF Loop
  <2> HIDE DEF b, t
  <2>4. IF i \in Loop(r) THEN t \in Loop(r) \cup {r + 1}
                         ELSE t \notin Loop(r) \ {b}
    BY <2>1, <2>2, <2>3
  <2>5. QED
    BY <2>4 DEF b, t
<1>6. QED
  BY <1>4, <1>5 DEF ControlFlowStructured

(***************************************************************************)
(* However IF, ELSE, THEN, BEGIN, WHILE and REPEAT are nested, the list    *)
(* they share one control stack to build is structured: forward branches   *)
(* skip nested or disjoint stretches, a loop is entered at its BEGIN only  *)
(* and left to the word behind its REPEAT only.                            *)
(***************************************************************************)
THEOREM ParseStructured ==
  ASSUME InlinesAreStraight
  PROVE  ParseSpec => []ControlFlowStructured
<1>1. Init => ListsOK /\ FlowOK
  <2> SUFFICES ASSUME Init PROVE FlowOK
    BY InitOK
  <2>1. words = <<Placeholder>> /\ controlStack = <<>>
    BY DEF Init
  <2>2. \A i \in DOMAIN words : words[i].branchTo = 0
    BY <2>1 DEF Placeholder, NewSourceWord
  <2>3. QED
    BY <2>1, <2>2, NothingNested DEF FlowOK
<1>2. ListsOK /\ FlowOK /\ [ParseNext]_compilerVars => (ListsOK /\ FlowOK)'
  <2>1. ASSUME ListsOK, FlowOK, UNCHANGED compilerVars PROVE ListsOK' /\ FlowOK'
    BY <2>1 DEF compilerVars, ListsOK, FlowOK
  <2>2. QED
    BY <2>1, ParseKeepsLists, ParseKeepsNested
<1>3. ListsOK /\ FlowOK => ControlFlowStructured
  BY NestedIsStructured
<1>4. QED
  BY <1>1, <1>2, <1>3, PTL DEF ParseSpec

-----------------------------------------------------------------------------
(* What code generation needs to know of branch targets *)

(***************************************************************************)
(* RECURSE leads to the start, only branches and RECURSE have targets, and *)
(* a target carries the isBranchDestination flag -- unless it is the final *)
(* RETURN, whose flag finish() clears.                                     *)
(***************************************************************************)
Targets(ws) ==
  \A i \in DOMAIN ws :
    /\ ws[i].word = "_RECURSE" => ws[i].branchTo \in {0, 1}
    /\ ws[i].branchTo # 0 =>
         /\ ws[i].word \in {"_BRANCH", "_ZBRANCH", "_RECURSE"}
         /\ \/ ws[ws[i].branchTo].isDst
            \/ /\ ws[i].branchTo = Len(ws)
               /\ ws[Len(ws)].word = "_RETURN"

\* branchesTo() sets the flag of its target and clears none.
LEMMA BranchesToFlags ==
  ASSUME NEW ws \in Seq(SourceWord),
         NEW src \in 1..Len(ws), NEW dst \in 1..Len(ws)
  PROVE  /\ \A i \in 1..Len(ws) :
              ws[i].isDst => BranchesTo(ws, src, dst)[i].isDst
         /\ BranchesTo(ws, src, dst)[dst].isDst
<1> DEFINE el(i) == [word |-> ws[i].word, lit |-> ws[i].lit,
                    branchTo |-> IF i = src THEN dst ELSE ws[i].branchTo,
                    isDst |-> (i = dst) \/ ws[i].isDst]
<1>1. BranchesTo(ws, src, dst) = [i \in 1..Len(ws) |-> el(i)]
  BY DEF BranchesTo
<1>2. \A i : el(i).isDst <=> (i = dst) \/ ws[i].isDst
  OBVIOUS
<1> HIDE DEF el
<1>3. QED
  BY <1>1, <1>2

\* addInline() keeps the flag of the placeholder and adds plain words.
LEMMA AddAllFlags ==
  ASSUME NEW ws \in Seq(SourceWord), Len(ws) >= 1,
         NEW refs \in Seq(PlainRef), refs # <<>>
  PROVE  /\ ws[Len(ws)].isDst => AddAll(ws, refs)[Len(ws)].isDst
         /\ \A i \in Len(ws)..(Len(ws) + Len(refs) - 1) :
              AddAll(ws, refs)[i].word # "_RECURSE"
<1> DEFINE n == Len(ws)
           last == n + Len(refs)
           sw(i) == NewSourceWord(refs[i - n + 1], i = n /\ ws[i].isDst)
           el(i) == IF i < n THEN ws[i]
                    ELSE IF i = last THEN Placeholder
                    ELSE sw(i)
<1>1. AddAll(ws, refs) = [i \in 1..last |-> el(i)]
  BY DEF AddAll, Here
<1>2. n \in Nat /\ Len(refs) \in Nat /\ Len(refs) >= 1
  OBVIOUS
<1>3. ASSUME NEW i \in n..(last - 1) PROVE sw(i).word # "_RECURSE"
  <2>1. refs[i - n + 1] \in PlainRef
    BY <1>2
  <2>2. QED
    BY <2>1, CompilerAssumption DEF PlainRef, NewSourceWord, SpecialWords
<1>4. sw(n).isDst <=> n = n /\ ws[n].isDst
  BY DEF NewSourceWord
<1> HIDE DEF sw, n, last
<1>5. n \in 1..last /\ el(n) = sw(n)
  BY <1>2 DEF last, n
<1>6. ASSUME NEW i \in n..(last - 1) PROVE el(i) = sw(i) /\ i \in 1..last
  BY <1>2 DEF last, n
<1> HIDE DEF el
<1>7. ws[n].isDst => AddAll(ws, refs)[n].isDst
  BY <1>1, <1>4, <1>5
<1>8. \A i \in n..(last - 1) : AddAll(ws, refs)[i].word # "_RECURSE"
  BY <1>1, <1>3, <1>6
<1>9. QED
  BY <1>7, <1>8 DEF n, last

\* A longer list whose new words have no targets
LEMMA LongerTargets ==
  ASSUME NEW ws \in Seq(SourceWord), Len(ws) >= 1, ws[Len(ws)].word = "NOP",
         ws[Len(ws)].branchTo = 0, Targets(ws),
         \A i \in 1..Len(ws) : ws[i].branchTo \in 0..Len(ws),
         NEW new \in Seq(SourceWord), Len(new) >= Len(ws),
         \A i \in 1..(Len(ws) - 1) : new[i] = ws[i],
         ws[Len(ws)].isDst => new[Len(ws)].isDst,
         \A i \in Len(ws)..Len(new) : new[i].branchTo = 0
  PROVE  Targets(new)
<1> DEFINE n == Len(ws)
<1>1. n \in Nat /\ DOMAIN ws = 1..n /\ DOMAIN new = 1..Len(new) /\ Len(new) \in Nat
  OBVIOUS
<1> SUFFICES ASSUME NEW i \in 1..Len(new)
             PROVE  /\ new[i].word = "_RECURSE" => new[i].branchTo \in {0, 1}
                    /\ new[i].branchTo # 0 =>
                         /\ new[i].word \in {"_BRANCH", "_ZBRANCH", "_RECURSE"}
                         /\ new[new[i].branchTo].isDst
  BY <1>1 DEF Targets
<1>2. CASE i \in n..Len(new)
  BY <1>2
<1>3. CASE i \in 1..(n - 1)
  <2> DEFINE t == ws[i].branchTo
  <2>1. new[i] = ws[i] /\ i \in DOMAIN ws /\ t \in 0..n
    BY <1>1, <1>3
  <2>2. /\ ws[i].word = "_RECURSE" => t \in {0, 1}
        /\ t # 0 => /\ ws[i].word \in {"_BRANCH", "_ZBRANCH", "_RECURSE"}
                    /\ ws[t].isDst
    BY <2>1 DEF Targets
  <2> HIDE DEF t
  <2>3. t # 0 => t \in 1..(n - 1) \/ t = n
    <3>1. \A s, k \in Nat : s \in 0..k /\ s # 0 => s \in 1..(k - 1) \/ s = k
      OBVIOUS
    <3>2. t \in Nat
      BY <1>1, <2>1
    <3> HIDE DEF n
    <3>3. QED
      BY <1>1, <2>1, <3>1, <3>2
  <2>4. t # 0 => new[t].isDst
    BY <2>2, <2>3
  <2>5. QED
    BY <2>1, <2>2, <2>4 DEF t
<1>4. QED
  BY <1>1, <1>2, <1>3

\* add() keeps them.
LEMMA AddTargets ==
  ASSUME NEW ws, NEW ctrl, WellFormed(ws, ctrl), Targets(ws),
         NEW ref \in PlainRef \cup BranchRef
  PROVE  Targets(Add(ws, ref))
<1> DEFINE new == Add(ws, ref)
           n == Len(ws)
<1>1. /\ ws \in Seq(SourceWord) /\ n \in Nat /\ n >= 1 /\ ws[n].word = "NOP"
      /\ ws[n].branchTo = 0 /\ \A i \in 1..n : ws[i].branchTo \in 0..n
  BY DEF WellFormed
<1>2. /\ new \in Seq(SourceWord) /\ Len(new) = n + 1
      /\ \A i \in 1..(n - 1) : new[i] = ws[i]
      /\ new[n] = NewSourceWord(ref, ws[n].isDst) /\ new[n + 1] = Placeholder
  BY <1>1, AddShape
<1>3. new[n].branchTo = 0 /\ new[n].isDst = ws[n].isDst
      /\ new[n + 1].branchTo = 0
  BY <1>2 DEF NewSourceWord, Placeholder
<1>4. \A i \in n..Len(new) : new[i].branchTo = 0
  BY <1>1, <1>2, <1>3
<1> HIDE DEF new
<1>5. Targets(new)
  BY <1>1, <1>2, <1>3, <1>4, LongerTargets
<1>6. QED
  BY <1>5 DEF new

\* addInline() keeps them.
LEMMA AddAllTargets ==
  ASSUME NEW ws, NEW ctrl, WellFormed(ws, ctrl), Targets(ws),
         NEW refs \in Seq(PlainRef)
  PROVE  Targets(AddAll(ws, refs))
<1>1. CASE refs = <<>>
  BY <1>1 DEF AddAll
<1>2. CASE refs # <<>>
  <2> DEFINE new == AddAll(ws, refs)
             n == Len(ws)
             m == Len(refs)
  <2>1. /\ ws \in Seq(SourceWord) /\ n \in Nat /\ n >= 1 /\ ws[n].word = "NOP"
        /\ ws[n].branchTo = 0 /\ \A i \in 1..n : ws[i].branchTo \in 0..n
    BY DEF WellFormed
  <2>2. /\ new \in Seq(SourceWord) /\ Len(new) = n + m /\ m \in Nat /\ m >= 1
        /\ \A i \in 1..(n - 1) : new[i] = ws[i]
        /\ \A i \in n..(n + m - 1) : new[i].branchTo = 0
        /\ new[n + m] = Placeholder
    BY <1>2, <2>1, AddAllShape
  <2>3. ws[n].isDst => new[n].isDst
    BY <1>2, <2>1, AddAllFlags
  <2>4. Placeholder.branchTo = 0
    BY DEF NewSourceWord, Placeholder
  <2> HIDE DEF new, m
  <2>5. \A i \in n..Len(new) : new[i].branchTo = 0
    <3> HIDE DEF n
    <3>1. ASSUME NEW i \in n..Len(new) PROVE i \in n..(n + m - 1) \/ i = n + m
      BY <2>1, <2>2
    <3>2. QED
      BY <2>2, <2>4, <3>1
  <2>6. Len(new) >= n
    BY <2>1, <2>2
  <2>7. Targets(new)
    BY <2>1, <2>2, <2>3, <2>5, <2>6, LongerTargets
  <2>8. QED
    BY <2>7 DEF new
<1>3. QED
  BY <1>1, <1>2

\* branchesTo() keeps them.
LEMMA BranchTargets ==
  ASSUME NEW ws \in Seq(SourceWord), ws # <<>>, Targets(ws),
         \A i \in 1..Len(ws) : ws[i].branchTo \in 0..Len(ws),
         NEW src \in 1..Len(ws), NEW dst \in 1..Len(ws),
         IsBranch(ws[src].word) \/ (ws[src].word = "_RECURSE" /\ dst = 1)
  PROVE  Targets(BranchesTo(ws, src, dst))
<1> DEFINE new == BranchesTo(ws, src, dst)
           n == Len(ws)
<1>1. /\ new \in Seq(SourceWord) /\ Len(new) = n /\ n \in Nat /\ n >= 1
      /\ \A i \in 1..n :
           /\ new[i].word = ws[i].word
           /\ new[i].branchTo = IF i = src THEN dst ELSE ws[i].branchTo
  BY BranchesToShape
<1>2. /\ \A i \in 1..n : ws[i].isDst => new[i].isDst
      /\ new[dst].isDst
  BY BranchesToFlags
<1>3. DOMAIN new = 1..n /\ DOMAIN ws = 1..n /\ n \in 1..n
  BY <1>1
<1> HIDE DEF new
<1> SUFFICES ASSUME NEW i \in 1..n
             PROVE  /\ new[i].word = "_RECURSE" => new[i].branchTo \in {0, 1}
                    /\ new[i].branchTo # 0 =>
                         /\ new[i].word \in {"_BRANCH", "_ZBRANCH", "_RECURSE"}
                         /\ \/ new[new[i].branchTo].isDst
                            \/ /\ new[i].branchTo = Len(new)
                               /\ new[Len(new)].word = "_RETURN"
  BY <1>3 DEF Targets, new
<1>4. CASE i = src
  BY <1>1, <1>2, <1>4 DEF IsBranch
<1>5. CASE i # src
  <2> DEFINE t == ws[i].branchTo
  <2>1. new[i].word = ws[i].word /\ new[i].branchTo = t /\ t \in 0..n
    BY <1>1, <1>5
  <2>2. /\ ws[i].word = "_RECURSE" => t \in {0, 1}
        /\ t # 0 => /\ ws[i].word \in {"_BRANCH", "_ZBRANCH", "_RECURSE"}
                    /\ ws[t].isDst \/ (t = n /\ ws[n].word = "_RETURN")
    BY <1>3 DEF Targets
  <2> HIDE DEF t
  <2>3. t # 0 => t \in 1..n
    BY <1>1, <2>1
  <2>4. t # 0 => new[t].isDst \/ (t = n /\ ws[n].word = "_RETURN")
    BY <1>2, <2>2, <2>3
  <2>5. new[Len(new)].word = ws[n].word
    BY <1>1, <1>3
  <2>6. QED
    BY <1>1, <2>1, <2>2, <2>4, <2>5
<1>6. QED
  BY <1>4, <1>5

\* Every step of the front end keeps them, and the bound on the list.
LEMMA ParseKeepsTargets ==
  ASSUME InlinesAreStraight, ListsOK, Targets(words), Len(words) <= MaxWords,
         ParseNext
  PROVE  Targets(words)' /\ Len(words') <= MaxWords
<1> DEFINE n == Len(words)
<1>1. ASSUME NEW what, ParseFails(what)
      PROVE  Targets(words)' /\ Len(words') <= MaxWords
  <2>1. words' = <<>>
    BY <1>1 DEF ParseFails, Fail
  <2>2. QED
    BY <2>1, CompilerAssumption DEF Targets
<1>2. ASSUME NEW ws, NEW ctrl, Parsed(ws, ctrl), Targets(ws)
      PROVE  Targets(words)' /\ Len(words') <= MaxWords
  <2>1. words' = ws /\ Len(ws) <= MaxWords
    BY <1>2 DEF Parsed
  <2>2. QED
    BY <1>2, <2>1
<1> SUFFICES ASSUME WellFormed(words, controlStack)
             PROVE  Targets(words)' /\ Len(words') <= MaxWords
  <2>1. phase = "parsing"
    BY DEF ParseNext, ParseToken, ParseLiteral, ParseWord, ParseInlineWord,
      ParseUnknownWord, ParseIf, ParseElse, ParseThen, ParseBegin, ParseWhile,
      ParseRepeat, ParseRecurse, ParseUnmatched, Finish, FinishTooEarly,
      Parsed, ParseFails
  <2>2. QED
    BY <2>1 DEF ListsOK
<1>3. /\ words \in Seq(SourceWord) /\ n \in Nat /\ n >= 1 /\ Here(words) = n
      /\ controlStack \in Seq(Control) /\ words[n].branchTo = 0
      /\ words[n].word = "NOP"
      /\ \A i \in 1..n : words[i].branchTo \in 0..n
  BY DEF WellFormed, Here
<1>4. ASSUME NEW ref \in PlainRef \cup BranchRef
      PROVE  /\ Targets(Add(words, ref)) /\ Add(words, ref) \in Seq(SourceWord)
             /\ Len(Add(words, ref)) = n + 1
             /\ Add(words, ref)[n].word = ref.word
             /\ \A i \in 1..(n - 1) : Add(words, ref)[i] = words[i]
             /\ \A i \in 1..(n + 1) : Add(words, ref)[i].branchTo \in 0..(n + 1)
  <2> DEFINE new == Add(words, ref)
  <2>1. /\ new \in Seq(SourceWord) /\ Len(new) = n + 1
        /\ \A i \in 1..(n - 1) : new[i] = words[i]
        /\ new[n] = NewSourceWord(ref, words[n].isDst)
        /\ new[n + 1] = Placeholder
    BY <1>3, AddShape
  <2>2. Targets(new)
    BY AddTargets
  <2>3. /\ new[n].branchTo = 0 /\ new[n + 1].branchTo = 0
        /\ new[n].word = ref.word
    BY <2>1 DEF NewSourceWord, Placeholder
  <2> HIDE DEF new
  <2>4. ASSUME NEW i \in 1..(n + 1) PROVE new[i].branchTo \in 0..(n + 1)
    <3>1. CASE i \in 1..(n - 1)
      <4>1. words[i].branchTo \in 0..n /\ new[i] = words[i]
        BY <1>3, <2>1, <3>1
      <4>2. QED
        BY <1>3, <4>1
    <3>2. CASE i = n \/ i = n + 1
      BY <1>3, <2>3, <3>2
    <3>3. QED
      BY <1>3, <3>1, <3>2
  <2>5. QED
    BY <2>1, <2>2, <2>3, <2>4 DEF new
<1>5. ASSUME NEW v \in Literals, ParseLiteral(v)
      PROVE  Targets(words)' /\ Len(words') <= MaxWords
  <2>1. LiteralRef(v) \in PlainRef
    BY DEF LiteralRef, PlainRef
  <2>2. QED
    BY <1>2, <1>4, <1>5, <2>1 DEF ParseLiteral
<1>6. ASSUME NEW w \in Words, ParseWord(w)
      PROVE  Targets(words)' /\ Len(words') <= MaxWords
  <2>1. Ref(w) \in PlainRef
    BY DEF Ref, PlainRef
  <2>2. QED
    BY <1>2, <1>4, <1>6, <2>1 DEF ParseWord
<1>7. ASSUME NEW w \in DOMAIN InlineBody, ParseInlineWord(w)
      PROVE  Targets(words)' /\ Len(words') <= MaxWords
  <2>1. InlineBody[w] \in Seq(PlainRef)
    BY DEF InlinesAreStraight
  <2>2. Targets(AddAll(words, InlineBody[w]))
    BY <2>1, AddAllTargets
  <2>3. QED
    BY <1>2, <1>7, <2>2 DEF ParseInlineWord
<1>8. ASSUME NEW w \in {"_BRANCH", "_ZBRANCH", "_RECURSE"}
      PROVE  Ref(w) \in PlainRef \cup BranchRef /\ Ref(w).word = w
  BY <1>8 DEF Ref, BranchRef
<1>9. CASE ParseIf \/ ParseWhile
  BY <1>2, <1>4, <1>8, <1>9 DEF ParseIf, ParseWhile
<1>10. ASSUME controlStack # <<>>, controlStack[Len(controlStack)].id # "b"
       PROVE  /\ Top(controlStack) \in 1..(n - 1)
              /\ IsBranch(words[Top(controlStack)].word)
  BY <1>10, TopBranch
<1>11. CASE ParseElse
  <2> DEFINE added == Add(words, Ref("_BRANCH"))
             p == Top(controlStack)
  <2>1. /\ Targets(added) /\ added \in Seq(SourceWord) /\ Len(added) = n + 1
        /\ \A i \in 1..(n - 1) : added[i] = words[i]
        /\ \A i \in 1..(n + 1) : added[i].branchTo \in 0..(n + 1)
    BY <1>4, <1>8
  <2>2. p \in 1..(n - 1) /\ IsBranch(words[p].word)
    BY <1>10, <1>11 DEF ParseElse, CanPop, ElseMatches
  <2>3. \E ctrl : Parsed(FixBranch(added, p), ctrl)
    BY <1>11 DEF ParseElse
  <2> HIDE DEF added, p
  <2>4. /\ p \in 1..Len(added) /\ Len(added) \in 1..Len(added)
        /\ IsBranch(added[p].word) /\ added # <<>>
    <3>1. added[p] = words[p]
      BY <2>1, <2>2
    <3> HIDE DEF n
    <3>2. p \in 1..(n + 1) /\ n + 1 \in 1..(n + 1) /\ n + 1 # 0
      BY <1>3, <2>2
    <3>3. QED
      BY <2>1, <2>2, <3>1, <3>2
  <2>5. Targets(BranchesTo(added, p, Len(added)))
    BY <2>1, <2>4, BranchTargets
  <2>6. QED
    BY <1>2, <2>3, <2>5 DEF FixBranch, Here
<1>12. CASE ParseThen
  <2> DEFINE p == Top(controlStack)
  <2>1. p \in 1..(n - 1) /\ IsBranch(words[p].word)
    BY <1>10, <1>12 DEF ParseThen, CanPop, ThenMatches
  <2>2. p \in 1..n /\ n \in 1..n /\ words # <<>>
    BY <1>3, <2>1
  <2>3. Targets(BranchesTo(words, p, n))
    BY <1>3, <2>1, <2>2, BranchTargets
  <2>4. QED
    BY <1>2, <1>12, <2>3 DEF ParseThen, FixBranch, Here
<1>13. CASE ParseBegin
  BY <1>2, <1>13 DEF ParseBegin
<1>14. CASE ParseRepeat
  <2> DEFINE added == Add(words, Ref("_BRANCH"))
             p == Top(controlStack)
             b == Top(Pop(controlStack))
             looped == BranchesTo(added, n, b)
  <2>1. /\ Targets(added) /\ added \in Seq(SourceWord) /\ Len(added) = n + 1
        /\ added[n].word = "_BRANCH"
        /\ \A i \in 1..(n - 1) : added[i] = words[i]
        /\ \A i \in 1..(n + 1) : added[i].branchTo \in 0..(n + 1)
    BY <1>4, <1>8
  <2>2. p \in 1..(n - 1) /\ IsBranch(words[p].word)
    BY <1>10, <1>14 DEF ParseRepeat, CanPop
  <2>3. b \in 1..n
    <3>1. /\ CanPop(controlStack, {"w"}) /\ CanPop(Pop(controlStack), {"b"})
          /\ controlStack # <<>> /\ Pop(controlStack) # <<>>
      BY <1>14 DEF ParseRepeat, CanPop
    <3>2. /\ Pop(controlStack) \in Seq(Control)
          /\ Len(Pop(controlStack)) = Len(controlStack) - 1
          /\ \A m \in 1..(Len(controlStack) - 1) :
               Pop(controlStack)[m] = controlStack[m]
      BY <1>3, <3>1, PopShape
    <3>3. /\ Len(Pop(controlStack)) \in DOMAIN controlStack
          /\ b = controlStack[Len(Pop(controlStack))].at
      BY <1>3, <3>1, <3>2 DEF Top
    <3>4. QED
      BY <3>3, ControlBefore
  <2>4. \E ctrl : Parsed(FixBranch(looped, p), ctrl)
    BY <1>3, <1>14 DEF ParseRepeat
  <2> HIDE DEF added, p, b
  <2>5. /\ n \in 1..Len(added) /\ b \in 1..Len(added) /\ added # <<>>
        /\ p \in 1..Len(added) /\ p # n
        /\ IsBranch(added[n].word) /\ IsBranch(added[p].word)
    BY <1>3, <2>1, <2>2, <2>3 DEF IsBranch
  <2>6. Targets(looped)
    BY <2>1, <2>5, BranchTargets
  <2>7. /\ looped \in Seq(SourceWord) /\ Len(looped) = Len(added)
        /\ \A i \in 1..Len(added) :
             /\ looped[i].word = added[i].word
             /\ looped[i].branchTo = IF i = n THEN b ELSE added[i].branchTo
    BY <2>1, <2>5, BranchesToShape
  <2> HIDE DEF looped
  <2>8. ASSUME NEW i \in 1..Len(looped) PROVE looped[i].branchTo \in 0..Len(looped)
    <3>1. b \in 0..(n + 1)
      BY <1>3, <2>3
    <3>2. QED
      BY <2>1, <2>7, <3>1
  <2>9. /\ p \in 1..Len(looped) /\ Len(looped) \in 1..Len(looped)
        /\ IsBranch(looped[p].word) /\ looped # <<>>
    <3>1. p \in 1..Len(looped) /\ IsBranch(looped[p].word)
      BY <2>5, <2>7
    <3>2. QED
      BY <1>3, <2>1, <2>7, <3>1
  <2>10. Targets(BranchesTo(looped, p, Len(looped)))
    BY <2>6, <2>7, <2>8, <2>9, BranchTargets
  <2>11. QED
    BY <1>2, <2>4, <2>10 DEF FixBranch, Here
<1>15. CASE ParseRecurse
  <2> DEFINE added == Add(words, Ref("_RECURSE"))
  <2>1. /\ Targets(added) /\ added \in Seq(SourceWord) /\ Len(added) = n + 1
        /\ added[n].word = "_RECURSE"
        /\ \A i \in 1..(n + 1) : added[i].branchTo \in 0..(n + 1)
    BY <1>4, <1>8
  <2>2. Parsed(BranchesTo(added, n, 1), controlStack)
    BY <1>3, <1>15 DEF ParseRecurse
  <2> HIDE DEF added
  <2>3. n \in 1..Len(added) /\ 1 \in 1..Len(added) /\ added # <<>>
    BY <1>3, <2>1
  <2>4. Targets(BranchesTo(added, n, 1))
    BY <2>1, <2>3, BranchTargets
  <2>5. QED
    BY <1>2, <2>2, <2>4
<1>16. CASE Finish
  <2> DEFINE sw == NewSourceWord(Ref("_RETURN"), FALSE)
             new == AddReturn(words)
  <2>1. sw \in SourceWord /\ sw.branchTo = 0 /\ sw.word = "_RETURN"
    BY DEF SourceWord, NewSourceWord, Ref, SpecialWords
  <2>2. new = [words EXCEPT ![n] = sw]
    BY DEF AddReturn, Here
  <2>3. words' = new
    BY <1>16 DEF Finish
  <2> HIDE DEF sw, new
  <2>4. /\ DOMAIN new = 1..n /\ DOMAIN words = 1..n /\ Len(new) = n
        /\ new[n] = sw
        /\ \A i \in 1..n : i # n => new[i] = words[i]
    BY <1>3, <2>1, <2>2
  <2>5. ASSUME NEW i \in 1..n
        PROVE  /\ new[i].word = "_RECURSE" => new[i].branchTo \in {0, 1}
               /\ new[i].branchTo # 0 =>
                    /\ new[i].word \in {"_BRANCH", "_ZBRANCH", "_RECURSE"}
                    /\ \/ new[new[i].branchTo].isDst
                       \/ /\ new[i].branchTo = Len(new)
                          /\ new[Len(new)].word = "_RETURN"
    <3>1. CASE i = n
      BY <2>1, <2>4, <3>1
    <3>2. CASE i # n
      <4> DEFINE t == words[i].branchTo
      <4>1. new[i] = words[i] /\ t \in 0..n
        BY <1>3, <2>4, <3>2
      <4>2. /\ words[i].word = "_RECURSE" => t \in {0, 1}
            /\ t # 0 => /\ words[i].word \in {"_BRANCH", "_ZBRANCH", "_RECURSE"}
                        /\ words[t].isDst
        BY <1>3, <2>4 DEF Targets
      <4> HIDE DEF t
      <4>3. t # 0 => t = n \/ (t \in 1..n /\ t # n)
        BY <1>3, <4>1
      <4>4. t # 0 => new[t].isDst \/ (t = Len(new) /\ new[Len(new)].word = "_RETURN")
        BY <2>1, <2>4, <4>2, <4>3
      <4>5. QED
        BY <4>1, <4>2, <4>4 DEF t
    <3>3. QED
      BY <3>1, <3>2
  <2>6. Targets(new)
    BY <2>4, <2>5 DEF Targets
  <2>7. QED
    BY <2>3, <2>4, <2>6
<1>17. CASE ParseUnknownWord \/ ParseUnmatched \/ FinishTooEarly
  BY <1>1, <1>17 DEF ParseUnknownWord, ParseUnmatched, FinishTooEarly
<1>18. QED
  BY <1>5, <1>6, <1>7, <1>9, <1>11, <1>12, <1>13, <1>14, <1>15, <1>16, <1>17
     DEF ParseNext, ParseToken

\* The first word is not a BRANCH: only ELSE and REPEAT add one, behind the
\* branch of their IF or WHILE.
FirstPlain(ws) == ws # <<>> => ws[1].word # "_BRANCH"

\* add() replaces the first word only if it is the placeholder.
LEMMA AddFirst ==
  ASSUME NEW ws, NEW ctrl, WellFormed(ws, ctrl), FirstPlain(ws),
         NEW ref \in PlainRef \cup BranchRef,
         Len(ws) = 1 => ref.word # "_BRANCH"
  PROVE  /\ Add(ws, ref) \in Seq(SourceWord) /\ Add(ws, ref) # <<>>
         /\ Add(ws, ref)[1].word # "_BRANCH"
<1> DEFINE n == Len(ws)
           new == Add(ws, ref)
<1>1. ws \in Seq(SourceWord) /\ n \in Nat /\ n >= 1 /\ ws # <<>>
  BY DEF WellFormed
<1>2. /\ new \in Seq(SourceWord) /\ Len(new) = n + 1
      /\ \A i \in 1..(n - 1) : new[i] = ws[i]
      /\ new[n] = NewSourceWord(ref, ws[n].isDst)
  BY <1>1, AddShape
<1> HIDE DEF new
<1>3. new[1].word # "_BRANCH"
  <2>1. CASE n = 1
    BY <1>2, <2>1 DEF NewSourceWord
  <2>2. CASE n # 1
    <3> HIDE DEF n
    <3>1. 1 \in 1..(n - 1)
      BY <1>1, <2>2
    <3>2. new[1] = ws[1]
      BY <1>2, <3>1
    <3>3. QED
      BY <1>1, <3>2 DEF FirstPlain
  <2>3. QED
    BY <2>1, <2>2
<1>4. new # <<>>
  BY <1>1, <1>2
<1>5. QED
  BY <1>2, <1>3, <1>4 DEF new

\* branchesTo() changes no word.
LEMMA BranchFirst ==
  ASSUME NEW ws \in Seq(SourceWord), ws # <<>>, ws[1].word # "_BRANCH",
         NEW src, NEW dst
  PROVE  /\ FirstPlain(BranchesTo(ws, src, dst))
         /\ BranchesTo(ws, src, dst)[1].word # "_BRANCH"
         /\ DOMAIN BranchesTo(ws, src, dst) = DOMAIN ws
<1>1. 1 \in DOMAIN ws
  OBVIOUS
<1>2. QED
  BY <1>1 DEF FirstPlain, BranchesTo

\* Every step of the front end keeps the first word from being a BRANCH.
LEMMA ParseKeepsFirst ==
  ASSUME InlinesAreStraight, ListsOK, FirstPlain(words), ParseNext
  PROVE  FirstPlain(words)'
<1> DEFINE n == Len(words)
<1>1. ASSUME NEW what, ParseFails(what) PROVE FirstPlain(words)'
  BY <1>1 DEF ParseFails, Fail, FirstPlain
<1>2. ASSUME NEW ws, NEW ctrl, Parsed(ws, ctrl), FirstPlain(ws)
      PROVE  FirstPlain(words)'
  BY <1>2 DEF Parsed
<1> SUFFICES ASSUME WellFormed(words, controlStack) PROVE FirstPlain(words)'
  <2>1. phase = "parsing"
    BY DEF ParseNext, ParseToken, ParseLiteral, ParseWord, ParseInlineWord,
      ParseUnknownWord, ParseIf, ParseElse, ParseThen, ParseBegin, ParseWhile,
      ParseRepeat, ParseRecurse, ParseUnmatched, Finish, FinishTooEarly,
      Parsed, ParseFails
  <2>2. QED
    BY <2>1 DEF ListsOK
<1>3. /\ words \in Seq(SourceWord) /\ n \in Nat /\ n >= 1 /\ words # <<>>
      /\ words[1].word # "_BRANCH"
  BY DEF WellFormed, FirstPlain
<1>4. ASSUME NEW ref \in PlainRef \cup BranchRef,
             n = 1 => ref.word # "_BRANCH"
      PROVE  /\ Add(words, ref) \in Seq(SourceWord) /\ Add(words, ref) # <<>>
             /\ Add(words, ref)[1].word # "_BRANCH"
             /\ FirstPlain(Add(words, ref))
  BY <1>4, AddFirst DEF FirstPlain
<1>5. ASSUME NEW w \in {"_BRANCH", "_ZBRANCH", "_RECURSE"}
      PROVE  Ref(w) \in PlainRef \cup BranchRef /\ Ref(w).word = w
  BY <1>5 DEF Ref, BranchRef
<1>6. ASSUME NEW v \in Literals, ParseLiteral(v) PROVE FirstPlain(words)'
  <2>1. LiteralRef(v) \in PlainRef /\ LiteralRef(v).word # "_BRANCH"
    BY DEF LiteralRef, PlainRef
  <2>2. QED
    BY <1>2, <1>4, <1>6, <2>1 DEF ParseLiteral
<1>7. ASSUME NEW w \in Words, ParseWord(w) PROVE FirstPlain(words)'
  <2>1. Ref(w) \in PlainRef /\ Ref(w).word # "_BRANCH"
    BY CompilerAssumption DEF Ref, PlainRef, SpecialWords
  <2>2. QED
    BY <1>2, <1>4, <1>7, <2>1 DEF ParseWord
<1>8. ASSUME NEW w \in DOMAIN InlineBody, ParseInlineWord(w)
      PROVE  FirstPlain(words)'
  <2> DEFINE refs == InlineBody[w]
             new == AddAll(words, refs)
  <2>1. refs \in Seq(PlainRef)
    BY DEF InlinesAreStraight
  <2>2. CASE refs = <<>>
    BY <1>2, <1>8, <2>2 DEF ParseInlineWord, AddAll
  <2>3. CASE refs # <<>>
    <3>1. /\ \A i \in 1..(n - 1) : new[i] = words[i]
          /\ \A i \in n..(n + Len(refs) - 1) : ~IsBranch(new[i].word)
          /\ Len(refs) \in Nat /\ Len(refs) >= 1
      BY <1>3, <2>1, <2>3, AddAllShape
    <3> HIDE DEF new, refs
    <3>2. 1 \in 1..(n - 1) \/ 1 \in n..(n + Len(refs) - 1)
      BY <1>3, <3>1
    <3>3. new[1].word # "_BRANCH"
      BY <1>3, <3>1, <3>2 DEF IsBranch
    <3>4. QED
      BY <1>2, <1>8, <3>3 DEF ParseInlineWord, FirstPlain, new, refs
  <2>4. QED
    BY <2>2, <2>3
<1>9. CASE ParseIf \/ ParseWhile
  BY <1>2, <1>4, <1>5, <1>9 DEF ParseIf, ParseWhile
<1>10. ASSUME controlStack # <<>>, controlStack[Len(controlStack)].id # "b"
       PROVE  n # 1
  <2>1. Top(controlStack) \in 1..(n - 1)
    BY <1>10, TopBranch
  <2> HIDE DEF n
  <2>2. QED
    BY <1>3, <2>1
<1>11. CASE ParseElse
  <2> DEFINE added == Add(words, Ref("_BRANCH"))
  <2>1. n # 1
    BY <1>10, <1>11 DEF ParseElse, CanPop, ElseMatches
  <2>2. /\ added \in Seq(SourceWord) /\ added # <<>>
        /\ added[1].word # "_BRANCH"
    BY <1>4, <1>5, <2>1
  <2>3. \E p, ctrl : Parsed(BranchesTo(added, p, Here(added)), ctrl)
    BY <1>11 DEF ParseElse, FixBranch
  <2> HIDE DEF added
  <2>4. QED
    BY <1>2, <2>2, <2>3, BranchFirst
<1>12. CASE ParseThen
  BY <1>2, <1>3, <1>12, BranchFirst DEF ParseThen, FixBranch
<1>13. CASE ParseBegin
  BY <1>2, <1>13 DEF ParseBegin
<1>14. CASE ParseRepeat
  <2> DEFINE added == Add(words, Ref("_BRANCH"))
             b == Top(Pop(controlStack))
             looped == BranchesTo(added, n, b)
  <2>1. n # 1
    BY <1>10, <1>14 DEF ParseRepeat, CanPop
  <2>2. /\ added \in Seq(SourceWord) /\ added # <<>>
        /\ added[1].word # "_BRANCH"
    BY <1>4, <1>5, <2>1
  <2>3. \E p, ctrl : Parsed(BranchesTo(looped, p, Here(looped)), ctrl)
    BY <1>14 DEF ParseRepeat, FixBranch, Here
  <2>4. looped[1].word # "_BRANCH" /\ 1 \in DOMAIN looped
    <3> HIDE DEF added, b
    <3>1. 1 \in DOMAIN added
      BY <2>2
    <3>2. QED
      BY <2>2, <3>1, BranchFirst
  <2> HIDE DEF looped
  <2>5. ASSUME NEW p, NEW d PROVE FirstPlain(BranchesTo(looped, p, d))
    BY <2>4 DEF FirstPlain, BranchesTo
  <2>6. QED
    BY <1>2, <2>3, <2>5
<1>15. CASE ParseRecurse
  <2> DEFINE added == Add(words, Ref("_RECURSE"))
  <2>1. /\ added \in Seq(SourceWord) /\ added # <<>>
        /\ added[1].word # "_BRANCH"
    BY <1>4, <1>5
  <2>2. Parsed(BranchesTo(added, n, 1), controlStack)
    BY <1>15 DEF ParseRecurse, Here
  <2> HIDE DEF added
  <2>3. QED
    BY <1>2, <2>1, <2>2, BranchFirst
<1>16. CASE Finish
  <2> DEFINE sw == NewSourceWord(Ref("_RETURN"), FALSE)
  <2>1. sw.word = "_RETURN"
    BY DEF NewSourceWord, Ref
  <2>2. words' = [words EXCEPT ![n] = sw]
    BY <1>16 DEF Finish, AddReturn, Here
  <2> HIDE DEF sw
  <2>3. QED
    BY <1>3, <2>1, <2>2 DEF FirstPlain
<1>17. CASE ParseUnknownWord \/ ParseUnmatched \/ FinishTooEarly
  BY <1>1, <1>17 DEF ParseUnknownWord, ParseUnmatched, FinishTooEarly
<1>18. QED
  BY <1>6, <1>7, <1>8, <1>9, <1>11, <1>12, <1>13, <1>14, <1>15, <1>16, <1>17
     DEF ParseNext, ParseToken

\* RECURSE leads to the start; the position p is left out.
RecursesBut(ws, p) ==
  \A i \in DOMAIN ws : i # p /\ ws[i].word = "_RECURSE" => ws[i].branchTo = 1

Recurses(ws) == RecursesBut(ws, 0)

\* branchesTo() changes one target.
LEMMA BranchRecurses ==
  ASSUME NEW ws \in Seq(SourceWord),
         NEW src \in 1..Len(ws), NEW dst \in 1..Len(ws),
         NEW p, p = src \/ p = 0, RecursesBut(ws, p),
         ws[src].word = "_RECURSE" => dst = 1
  PROVE  Recurses(BranchesTo(ws, src, dst))
<1> DEFINE new == BranchesTo(ws, src, dst)
<1>1. /\ new \in Seq(SourceWord) /\ Len(new) = Len(ws)
      /\ \A i \in 1..Len(ws) :
           /\ new[i].word = ws[i].word
           /\ new[i].branchTo = IF i = src THEN dst ELSE ws[i].branchTo
  BY BranchesToShape
<1> HIDE DEF new
<1>2. DOMAIN new = 1..Len(ws) /\ DOMAIN ws = 1..Len(ws) /\ 0 \notin 1..Len(ws)
  BY <1>1
<1>3. QED
  BY <1>1, <1>2 DEF Recurses, RecursesBut, new

\* add() stores one new word.
LEMMA AddRecurses ==
  ASSUME NEW ws, NEW ctrl, WellFormed(ws, ctrl), Recurses(ws),
         NEW ref \in PlainRef \cup BranchRef
  PROVE  /\ Add(ws, ref) \in Seq(SourceWord) /\ Len(Add(ws, ref)) = Len(ws) + 1
         /\ RecursesBut(Add(ws, ref), Len(ws))
         /\ ref.word # "_RECURSE" => Recurses(Add(ws, ref))
         /\ Add(ws, ref)[Len(ws)].word = ref.word
         /\ \A i \in 1..(Len(ws) - 1) : Add(ws, ref)[i] = ws[i]
<1> DEFINE n == Len(ws)
           new == Add(ws, ref)
<1>1. ws \in Seq(SourceWord) /\ n \in Nat /\ n >= 1 /\ DOMAIN ws = 1..n
  BY DEF WellFormed
<1>2. /\ new \in Seq(SourceWord) /\ Len(new) = n + 1
      /\ \A i \in 1..(n - 1) : new[i] = ws[i]
      /\ new[n] = NewSourceWord(ref, ws[n].isDst)
      /\ new[n + 1] = Placeholder
  BY <1>1, AddShape
<1> HIDE DEF new
<1>3. new[n].word = ref.word /\ new[n + 1].word # "_RECURSE"
  BY <1>2 DEF NewSourceWord, Placeholder, Ref
<1>4. DOMAIN new = 1..(n + 1)
  BY <1>2
<1> HIDE DEF n
<1>5. \A i \in 1..(n + 1) : i \in 1..(n - 1) \/ i = n \/ i = n + 1
  BY <1>1
<1>6. \A i \in 1..(n - 1) : i \in 1..n /\ i # 0
  BY <1>1
<1>7. ASSUME NEW i \in DOMAIN new, i # n, new[i].word = "_RECURSE"
      PROVE  new[i].branchTo = 1
  <2>1. i \in 1..(n - 1)
    BY <1>3, <1>4, <1>5, <1>7
  <2>2. QED
    BY <1>1, <1>2, <1>6, <1>7, <2>1 DEF Recurses, RecursesBut
<1>8. RecursesBut(new, n)
  BY <1>7 DEF RecursesBut
<1>9. ASSUME ref.word # "_RECURSE" PROVE Recurses(new)
  BY <1>3, <1>7, <1>9 DEF Recurses, RecursesBut
<1>10. QED
  BY <1>2, <1>3, <1>8, <1>9 DEF new, n

\* Every step of the front end keeps RECURSE leading to the start.
LEMMA ParseKeepsRecurses ==
  ASSUME InlinesAreStraight, ListsOK, Recurses(words), ParseNext
  PROVE  Recurses(words)'
<1> DEFINE n == Len(words)
<1>1. ASSUME NEW what, ParseFails(what) PROVE Recurses(words)'
  BY <1>1 DEF ParseFails, Fail, Recurses, RecursesBut
<1>2. ASSUME NEW ws, NEW ctrl, Parsed(ws, ctrl), Recurses(ws)
      PROVE  Recurses(words)'
  BY <1>2 DEF Parsed
<1> SUFFICES ASSUME WellFormed(words, controlStack) PROVE Recurses(words)'
  <2>1. phase = "parsing"
    BY DEF ParseNext, ParseToken, ParseLiteral, ParseWord, ParseInlineWord,
      ParseUnknownWord, ParseIf, ParseElse, ParseThen, ParseBegin, ParseWhile,
      ParseRepeat, ParseRecurse, ParseUnmatched, Finish, FinishTooEarly,
      Parsed, ParseFails
  <2>2. QED
    BY <2>1 DEF ListsOK
<1>3. words \in Seq(SourceWord) /\ n \in Nat /\ n >= 1 /\ DOMAIN words = 1..n
  BY DEF WellFormed
<1>4. ASSUME NEW ref \in PlainRef \cup BranchRef
      PROVE  LET new == Add(words, ref)
             IN  /\ new \in Seq(SourceWord) /\ Len(new) = n + 1
                 /\ RecursesBut(new, n)
                 /\ ref.word # "_RECURSE" => Recurses(new)
                 /\ new[n].word = ref.word
                 /\ \A i \in 1..(n - 1) : new[i] = words[i]
  BY <1>4, AddRecurses
<1>5. ASSUME NEW w \in {"_BRANCH", "_ZBRANCH", "_RECURSE"}
      PROVE  Ref(w) \in PlainRef \cup BranchRef /\ Ref(w).word = w
  BY <1>5 DEF Ref, BranchRef
<1>6. ASSUME NEW v \in Literals, ParseLiteral(v) PROVE Recurses(words)'
  <2>1. LiteralRef(v) \in PlainRef /\ LiteralRef(v).word # "_RECURSE"
    BY DEF LiteralRef, PlainRef
  <2>2. QED
    BY <1>2, <1>4, <1>6, <2>1 DEF ParseLiteral
<1>7. ASSUME NEW w \in Words, ParseWord(w) PROVE Recurses(words)'
  <2>1. Ref(w) \in PlainRef /\ Ref(w).word # "_RECURSE"
    BY CompilerAssumption DEF Ref, PlainRef, SpecialWords
  <2>2. QED
    BY <1>2, <1>4, <1>7, <2>1 DEF ParseWord
<1>8. ASSUME NEW w \in DOMAIN InlineBody, ParseInlineWord(w)
      PROVE  Recurses(words)'
  <2> DEFINE refs == InlineBody[w]
             new == AddAll(words, refs)
             m == n + Len(refs)
  <2>1. refs \in Seq(PlainRef)
    BY DEF InlinesAreStraight
  <2>2. CASE refs = <<>>
    BY <1>2, <1>8, <2>2 DEF ParseInlineWord, AddAll
  <2>3. CASE refs # <<>>
    <3>1. /\ new \in Seq(SourceWord) /\ Len(new) = m
          /\ \A i \in 1..(n - 1) : new[i] = words[i]
          /\ new[m] = Placeholder
          /\ Len(refs) \in Nat
      BY <1>3, <2>1, <2>3, AddAllShape
    <3>2. \A i \in n..(m - 1) : new[i].word # "_RECURSE"
      BY <1>3, <2>1, <2>3, AddAllFlags
    <3> HIDE DEF new
    <3>3. DOMAIN new = 1..m /\ m \in Nat
      BY <1>3, <3>1
    <3>4. \A i \in 1..m : i \in 1..(n - 1) \/ i \in n..(m - 1) \/ i = m
      BY <1>3, <3>3
    <3>5. \A i \in 1..(n - 1) : i \in DOMAIN words
      BY <1>3
    <3>6. new[m].word # "_RECURSE"
      BY <3>1 DEF Placeholder, NewSourceWord, Ref
    <3> HIDE DEF m
    <3>7. Recurses(new)
      BY <3>1, <3>2, <3>3, <3>4, <3>5, <3>6 DEF Recurses, RecursesBut
    <3>8. QED
      BY <1>2, <1>8, <3>7 DEF ParseInlineWord, new
  <2>4. QED
    BY <2>2, <2>3
<1>9. CASE ParseIf \/ ParseWhile
  BY <1>2, <1>4, <1>5, <1>9 DEF ParseIf, ParseWhile
<1>10. ASSUME controlStack # <<>>, controlStack[Len(controlStack)].id # "b"
       PROVE  /\ Top(controlStack) \in 1..(n - 1)
              /\ words[Top(controlStack)].word # "_RECURSE"
  BY <1>10, TopBranch DEF IsBranch
<1> DEFINE added == Add(words, Ref("_BRANCH"))
<1>11. /\ added \in Seq(SourceWord) /\ Len(added) = n + 1 /\ Recurses(added)
       /\ added[n].word = "_BRANCH"
       /\ \A i \in 1..(n - 1) : added[i] = words[i]
  BY <1>4, <1>5
<1> HIDE DEF added
<1>12. CASE ParseElse
  <2> DEFINE p == Top(controlStack)
  <2>1. /\ controlStack # <<>> /\ controlStack[Len(controlStack)].id # "b"
    BY <1>12 DEF ParseElse, CanPop, ElseMatches
  <2>2. p \in 1..(n - 1) /\ added[p].word # "_RECURSE"
    BY <1>10, <1>11, <2>1
  <2>3. \E ctrl : Parsed(BranchesTo(added, p, Here(added)), ctrl)
    BY <1>12 DEF ParseElse, FixBranch, added
  <2> HIDE DEF p
  <2>4. p \in 1..Len(added) /\ Here(added) \in 1..Len(added)
    BY <1>3, <1>11, <2>2 DEF Here
  <2>5. Recurses(BranchesTo(added, p, Here(added)))
    BY <1>11, <2>2, <2>4, BranchRecurses DEF Recurses
  <2>6. QED
    BY <1>2, <2>3, <2>5
<1>13. CASE ParseThen
  <2> DEFINE p == Top(controlStack)
  <2>1. /\ controlStack # <<>> /\ controlStack[Len(controlStack)].id # "b"
    BY <1>13 DEF ParseThen, CanPop, ThenMatches
  <2>2. p \in 1..(n - 1) /\ words[p].word # "_RECURSE"
    BY <1>10, <2>1
  <2>3. \E ctrl : Parsed(BranchesTo(words, p, Here(words)), ctrl)
    BY <1>13 DEF ParseThen, FixBranch
  <2> HIDE DEF p
  <2>4. p \in 1..Len(words) /\ Here(words) \in 1..Len(words)
    BY <1>3, <2>2 DEF Here
  <2>5. Recurses(BranchesTo(words, p, Here(words)))
    BY <1>3, <2>2, <2>4, BranchRecurses DEF Recurses
  <2>6. QED
    BY <1>2, <2>3, <2>5
<1>14. CASE ParseBegin
  BY <1>2, <1>14 DEF ParseBegin
<1>15. CASE ParseRepeat
  <2> DEFINE p == Top(controlStack)
             b == Top(Pop(controlStack))
             looped == BranchesTo(added, n, b)
  <2>1. /\ controlStack # <<>> /\ controlStack[Len(controlStack)].id # "b"
    BY <1>15 DEF ParseRepeat, CanPop
  <2>2. p \in 1..(n - 1) /\ added[p].word # "_RECURSE"
    BY <1>10, <1>11, <2>1
  <2>3. b \in 1..n
    <3>1. controlStack \in Seq(Control)
      BY DEF WellFormed
    <3>2. /\ Pop(controlStack) # <<>>
          /\ Pop(controlStack) \in Seq(Control)
          /\ Len(Pop(controlStack)) = Len(controlStack) - 1
          /\ \A m \in 1..(Len(controlStack) - 1) :
               Pop(controlStack)[m] = controlStack[m]
      BY <1>15, <2>1, <3>1, PopShape DEF ParseRepeat, CanPop
    <3>3. PICK c : c = Pop(controlStack)
      OBVIOUS
    <3>4. Len(c) \in 1..(Len(controlStack) - 1)
      BY <3>1, <3>2, <3>3
    <3>5. c[Len(c)] = controlStack[Len(c)] /\ Len(c) \in DOMAIN controlStack
      BY <3>1, <3>2, <3>3, <3>4
    <3>6. controlStack[Len(c)].at \in 1..n
      BY <3>5 DEF WellFormed, ControlShape
    <3>7. QED
      BY <3>3, <3>5, <3>6 DEF Top
  <2>4. \E ctrl : Parsed(BranchesTo(looped, p, Here(looped)), ctrl)
    BY <1>15 DEF ParseRepeat, FixBranch, Here, added
  <2> HIDE DEF p, b
  <2>5. n \in 1..Len(added) /\ b \in 1..Len(added) /\ p \in 1..Len(added) /\ p # n
    <3>1. \A m \in Nat : /\ \A x \in 1..(m - 1) : x \in 1..(m + 1) /\ x # m
                         /\ \A x \in 1..m : x \in 1..(m + 1)
                         /\ m >= 1 => m \in 1..(m + 1)
      OBVIOUS
    <3>2. QED
      BY <1>3, <1>11, <2>2, <2>3, <3>1, Zenon
  <2>6. Recurses(looped)
    BY <1>11, <2>5, BranchRecurses DEF Recurses
  <2>7. /\ looped \in Seq(SourceWord) /\ Len(looped) = Len(added)
        /\ looped[p].word = added[p].word
    BY <1>11, <2>5, BranchesToShape
  <2> HIDE DEF looped
  <2>8. p \in 1..Len(looped) /\ Here(looped) \in 1..Len(looped)
    <3>1. \A m \in Nat : m + 1 \in 1..(m + 1)
      OBVIOUS
    <3>2. QED
      BY <1>3, <1>11, <2>5, <2>7, <3>1, Zenon DEF Here
  <2>9. Recurses(BranchesTo(looped, p, Here(looped)))
    BY <2>2, <2>6, <2>7, <2>8, BranchRecurses DEF Recurses
  <2>10. QED
    BY <1>2, <2>4, <2>9
<1>16. CASE ParseRecurse
  <2> DEFINE new == Add(words, Ref("_RECURSE"))
  <2>1. new \in Seq(SourceWord) /\ Len(new) = n + 1 /\ RecursesBut(new, n)
    BY <1>4, <1>5
  <2>2. Parsed(BranchesTo(new, n, 1), controlStack)
    BY <1>16 DEF ParseRecurse, Here
  <2> HIDE DEF new
  <2>3. n \in 1..Len(new) /\ 1 \in 1..Len(new)
    BY <1>3, <2>1
  <2>4. Recurses(BranchesTo(new, n, 1))
    BY <2>1, <2>3, BranchRecurses
  <2>5. QED
    BY <1>2, <2>2, <2>4
<1>17. CASE Finish
  <2> DEFINE sw == NewSourceWord(Ref("_RETURN"), FALSE)
  <2>1. sw.word = "_RETURN"
    BY DEF NewSourceWord, Ref
  <2>2. words' = [words EXCEPT ![n] = sw]
    BY <1>17 DEF Finish, AddReturn, Here
  <2> HIDE DEF sw
  <2>3. QED
    BY <1>3, <2>1, <2>2 DEF Recurses, RecursesBut
<1>18. CASE ParseUnknownWord \/ ParseUnmatched \/ FinishTooEarly
  BY <1>1, <1>18 DEF ParseUnknownWord, ParseUnmatched, FinishTooEarly
<1>19. QED
  BY <1>6, <1>7, <1>8, <1>9, <1>12, <1>13, <1>14, <1>15, <1>16, <1>17, <1>18
     DEF ParseNext, ParseToken
=============================================================================
