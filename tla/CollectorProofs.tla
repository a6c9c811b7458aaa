-------------------------- MODULE CollectorProofs ---------------------------
(***************************************************************************)
(* Proofs that the collector is safe and exact as long as no word with     *)
(* objects in its code is defined: gcScan() does not look at words; and    *)
(* that the heap of a session then implements the abstract heap of module  *)
(* Memory, which collects in one step.                                     *)
(***************************************************************************)
EXTENDS ReplProofs

-----------------------------------------------------------------------------
(* The inductive invariant *)

\* Sound(v) in a heap with the objects a of types t
SoundIn(v, a, t) ==
  asPointer(v) # NoObj => asPointer(v) \in a /\ t[asPointer(v)] = type(v)

AllSound(s, a, t) == \A i \in 1..Len(s) : SoundIn(s[i], a, t)

\* What the calls of the parser hold
FramesSound(fs, a, t) ==
  \A i \in 1..Len(fs) :
    /\ AllSound(fs[i].literals, a, t)
    /\ fs[i].kind = "array" => SoundIn(ArrayValue(fs[i].array), a, t)

\* What objects hold
ItemsSound(h, a, t) ==
  \A p \in Obj : AllSound(h[p], a, t) /\ (p \notin a => h[p] = <<>>)

Plain(s) == \A i \in 1..Len(s) : asPointer(s[i]) = NoObj

RootsOK ==
  /\ AllSound(stack, allocated, objType)
  /\ FramesSound(frames, allocated, objType)
  /\ \A n \in Names : Plain(code[n])

ItemsOK ==
  IF gcState = "sweep"
  THEN \A p \in Obj \ allocated : holds[p] = <<>>
  ELSE ItemsSound(holds, allocated, objType)

\* Marking has been to the object, or will come to it.
Reached(p) == marked[p] \/ \E i \in 1..Len(agenda) : asPointer(agenda[i]) = p

AllReached(s) == \A i \in 1..Len(s) :
                   asPointer(s[i]) # NoObj => Reached(asPointer(s[i]))

\* The three colours: what a marked object refers to is marked or pending.
MarkOK ==
  gcState \in {"mark", "fault"} =>
    /\ AllSound(agenda, allocated, objType)
    /\ AllReached(stack)
    /\ \A p \in allocated : marked[p] => AllReached(holds[p])

AllIn(s, S) == \A i \in 1..Len(s) :
                 asPointer(s[i]) # NoObj => asPointer(s[i]) \in S

\* What survives holds nothing but what survives.
SurvivorsOK ==
  gcState = "sweep" =>
    /\ AllIn(stack, Survivors)
    /\ \A p \in Survivors : /\ AllIn(holds[p], Survivors)
                            /\ AllSound(holds[p], allocated, objType)

MemoryOK == RootsOK /\ ItemsOK /\ MarkOK /\ SurvivorsOK

-----------------------------------------------------------------------------
(* Soundness of values *)

LEMMA StillSound ==
  ASSUME NEW a, NEW t, NEW b, NEW u, NEW v,
         a \subseteq b, \A p \in a : u[p] = t[p], SoundIn(v, a, t)
  PROVE  SoundIn(v, b, u)
BY DEF SoundIn

LEMMA AllStillSound ==
  ASSUME NEW a, NEW t, NEW b, NEW u, a \subseteq b, \A p \in a : u[p] = t[p]
  PROVE  /\ \A s : AllSound(s, a, t) => AllSound(s, b, u)
         /\ \A fs : FramesSound(fs, a, t) => FramesSound(fs, b, u)
<1>1. \A s : AllSound(s, a, t) => AllSound(s, b, u)
  BY StillSound DEF AllSound
<1>2. \A fs : FramesSound(fs, a, t) => FramesSound(fs, b, u)
  BY <1>1, StillSound DEF FramesSound
<1>3. QED
  BY <1>1, <1>2

LEMMA AppendSound ==
  ASSUME NEW a, NEW t, NEW s \in Seq(Value), NEW v \in Value,
         AllSound(s, a, t), SoundIn(v, a, t)
  PROVE  AllSound(Append(s, v), a, t)
BY DEF AllSound

\* A value without a pointer is sound in any heap.
LEMMA PlainSound ==
  /\ \A v, a, t : asPointer(v) = NoObj => SoundIn(v, a, t)
  /\ \A s, a, t : Plain(s) => AllSound(s, a, t)
BY DEF SoundIn, AllSound, Plain

LEMMA EmptySound ==
  /\ \A a, t : AllSound(<<>>, a, t) /\ FramesSound(<<>>, a, t)
  /\ Plain(<<>>)
BY DEF AllSound, FramesSound, Plain

\* The object NewObject() makes, and the ones there were
LEMMA NewObjectSound ==
  ASSUME HeapTypeOK, NEW p \in Obj, NEW t \in ObjTypes, NewObject(p, t)
  PROVE  /\ allocated \subseteq allocated'
         /\ \A q \in allocated : objType'[q] = objType[q]
         /\ p \in allocated' /\ objType'[p] = t
         /\ t = "String" => SoundIn(StringValue(p), allocated', objType')
         /\ t = "Array" => SoundIn(ArrayValue(p), allocated', objType')
         /\ t = "Quote" => SoundIn(QuoteValue(p), allocated', objType')
<1>1. /\ allocated \subseteq allocated'
      /\ \A q \in allocated : objType'[q] = objType[q]
      /\ p \in allocated' /\ objType'[p] = t
  BY DEF HeapTypeOK, NewObject
<1>2. QED
  BY <1>1, Constructed DEF SoundIn

\* Items after an object came to hold s
LEMMA ItemsAfterNew ==
  ASSUME SessionOK, ItemsSound(holds, allocated, objType),
         NEW p \in Obj, NEW t \in ObjTypes, NewObject(p, t),
         NEW s \in Seq(Value), AllSound(s, allocated', objType')
  PROVE  /\ [holds EXCEPT ![p] = s] \in [Obj -> Seq(Value)]
         /\ ItemsSound([holds EXCEPT ![p] = s], allocated', objType')
<1>1. holds \in [Obj -> Seq(Value)] /\ HeapTypeOK
  BY DEF SessionOK, HeapOK, HeapTypeOK
<1>2. /\ [holds EXCEPT ![p] = s] \in [Obj -> Seq(Value)]
      /\ \A q \in Obj : [holds EXCEPT ![p] = s][q] = IF q = p THEN s ELSE holds[q]
  BY <1>1
<1>3. /\ allocated \subseteq allocated'
      /\ \A q \in allocated : objType'[q] = objType[q]
      /\ p \in allocated'
  BY <1>1, NewObjectSound
<1>4. \A q \in Obj : AllSound(holds[q], allocated', objType')
  BY <1>3, AllStillSound DEF ItemsSound
<1>5. QED
  BY <1>2, <1>3, <1>4 DEF ItemsSound

LEMMA AddValueSound ==
  ASSUME NEW a, NEW t, NEW v \in Value, NEW fs \in Seq(Frame), fs # <<>>,
         NEW h \in [Obj -> Seq(Value)], AddValue(v, fs, h),
         SoundIn(v, a, t), FramesSound(fs, a, t), ItemsSound(h, a, t)
  PROVE  FramesSound(frames', a, t) /\ ItemsSound(holds', a, t)
<1>1. /\ Len(frames') = Len(fs)
      /\ \A i \in 1..Len(fs) :
           /\ frames'[i].kind = fs[i].kind
           /\ frames'[i].array = fs[i].array
           /\ frames'[i].literals \in
                {fs[i].literals, Append(fs[i].literals, v)}
      /\ \A p \in Obj :
           \/ holds'[p] = h[p]
           \/ /\ holds'[p] = Append(h[p], v)
              /\ \E i \in 1..Len(fs) : fs[i].kind = "array" /\ fs[i].array = p
  BY AddValueAdds
<1>2. ASSUME NEW i \in 1..Len(fs)
      PROVE  AllSound(frames'[i].literals, a, t)
  <2>1. fs[i].literals \in Seq(Value)
    <3>1. fs[i] \in Frame
      BY ElementOfSeq
    <3>2. QED
      BY <3>1 DEF Frame
  <2>2. AllSound(fs[i].literals, a, t)
    BY DEF FramesSound
  <2>3. QED
    BY <1>1, <2>1, <2>2, AppendSound
<1>3. FramesSound(frames', a, t)
  BY <1>1, <1>2 DEF FramesSound
<1>4. ASSUME NEW p \in Obj
      PROVE  AllSound(holds'[p], a, t) /\ (p \notin a => holds'[p] = <<>>)
  <2>1. AllSound(h[p], a, t) /\ (p \notin a => h[p] = <<>>)
    BY DEF ItemsSound
  <2>2. CASE holds'[p] = h[p]
    BY <2>1, <2>2
  <2>3. CASE /\ holds'[p] = Append(h[p], v)
             /\ \E i \in 1..Len(fs) : fs[i].kind = "array" /\ fs[i].array = p
    <3>1. p \in a
      BY <2>3, Constructed, NoObjAssumption DEF FramesSound, SoundIn
    <3>2. h[p] \in Seq(Value)
      OBVIOUS
    <3>3. QED
      BY <2>1, <2>3, <3>1, <3>2, AppendSound
  <2>4. QED
    BY <1>1, <2>2, <2>3
<1>5. QED
  BY <1>3, <1>4 DEF ItemsSound

\* Entering and leaving a call of the parser
LEMMA FrameOnTopSound ==
  ASSUME NEW a, NEW t, frames \in Seq(Frame), FramesSound(frames, a, t),
         NEW k \in {"quote", "array"}, NEW p \in Obj \cup {NoObj},
         k = "array" => SoundIn(ArrayValue(p), a, t)
  PROVE  FramesSound(Append(frames, Call(k, p)), a, t)
<1> DEFINE fs == Append(frames, Call(k, p))
<1>1. /\ Len(fs) = Len(frames) + 1
      /\ \A i \in 1..Len(frames) : fs[i] = frames[i]
      /\ fs[Len(frames) + 1] = Call(k, p)
  BY PushedFrame
<1>2. /\ AllSound(Call(k, p).literals, a, t)
      /\ Call(k, p).kind = k /\ Call(k, p).array = p
  BY EmptySound DEF Call
<1>3. Len(frames) \in Nat
  OBVIOUS
<1> HIDE DEF fs
<1>4. FramesSound(fs, a, t)
  BY <1>1, <1>2, <1>3 DEF FramesSound
<1>5. QED
  BY <1>4 DEF fs

LEMMA CallersSound ==
  ASSUME NEW a, NEW t, PromptTypeOK, FramesSound(frames, a, t),
         frames # <<>>, frames[1].kind = "line", Top.kind # "line"
  PROVE  /\ Callers \in Seq(Frame)
         /\ Callers # <<>>
         /\ FramesSound(Callers, a, t)
<1>1. /\ Callers \in Seq(Frame)
      /\ Callers # <<>>
      /\ Len(Callers) = Len(frames) - 1
      /\ \A i \in 1..Len(Callers) : Callers[i] = frames[i]
  BY CallersAreFrames
<1>2. Len(frames) \in Nat
  BY DEF PromptTypeOK
<1>3. FramesSound(Callers, a, t)
  BY <1>1, <1>2 DEF FramesSound
<1>4. QED
  BY <1>1, <1>3

-----------------------------------------------------------------------------
(* The program keeps the invariant *)

LEMMA InitialMemory ==
  Init => MemoryOK
<1> SUFFICES ASSUME Init PROVE MemoryOK
  OBVIOUS
<1>1. RootsOK
  BY EmptySound DEF Init, RootsOK
<1>2. ItemsOK
  BY EmptySound DEF Init, HeapInit, ItemsOK, ItemsSound
<1>3. MarkOK /\ SurvivorsOK
  BY DEF Init, HeapInit, MarkOK, SurvivorsOK
<1>4. QED
  BY <1>1, <1>2, <1>3 DEF MemoryOK

\* What an action outside a collection has to show
LEMMA ProgramStep ==
  ASSUME gcState' = "idle",
         AllSound(stack', allocated', objType'),
         FramesSound(frames', allocated', objType'),
         ItemsSound(holds', allocated', objType'),
         \A n \in Names : Plain(code'[n])
  PROVE  MemoryOK'
BY DEF MemoryOK, RootsOK, ItemsOK, MarkOK, SurvivorsOK

\* What it may use
LEMMA IdleMemory ==
  ASSUME SessionOK, MemoryOK, gcState = "idle"
  PROVE  /\ HeapTypeOK
         /\ holds \in [Obj -> Seq(Value)]
         /\ stack \in Seq(Value)
         /\ frames \in Seq(Frame)
         /\ AllSound(stack, allocated, objType)
         /\ FramesSound(frames, allocated, objType)
         /\ ItemsSound(holds, allocated, objType)
         /\ \A n \in Names : Plain(code[n])
BY DEF SessionOK, HeapOK, HeapTypeOK, PromptTypeOK, MemoryOK, RootsOK, ItemsOK

LEMMA PromptKeepsMemory ==
  ASSUME SessionOK, MemoryOK, Prompt
  PROVE  MemoryOK'
<1>1. gcState = "idle" /\ UNCHANGED heapVars /\ code' = code
  BY IdleOutsideCollect DEF Prompt, EndOfInput, ClearStack, ReadLine
<1>2. stack' \in {stack, <<>>}
  BY DEF Prompt, EndOfInput, ClearStack, ReadLine
<1>3. frames' \in {frames, <<Call("line", NoObj)>>}
  BY DEF Prompt, EndOfInput, ClearStack, ReadLine
<1>4. FramesSound(<<Call("line", NoObj)>>, allocated, objType)
  BY EmptySound DEF FramesSound, Call
<1>5. QED
  BY <1>1, <1>2, <1>3, <1>4, IdleMemory, EmptySound, ProgramStep
  DEF heapVars, objects

LEMMA ParseKeepsMemory ==
  ASSUME SessionOK, MemoryOK, Parse
  PROVE  MemoryOK'
<1>1. /\ phase = "parse" /\ gcState = "idle"
      /\ frames # <<>> /\ frames[1].kind = "line"
      /\ stack' = stack /\ code' = code
  BY IdleOutsideCollect
  DEF Parse, SimpleLiteral, StringLiteral, OpenArray, CloseArray, OpenQuote,
      CloseQuote, CompileError, Uncaught, BeginRun, SessionOK, PhaseOK
<1>2. {"String", "Array", "Quote"} \subseteq ObjTypes /\ <<>> \in Seq(Value)
  BY DEF ObjTypes
<1>3. /\ HeapTypeOK
      /\ holds \in [Obj -> Seq(Value)]
      /\ frames \in Seq(Frame)
      /\ AllSound(stack, allocated, objType)
      /\ FramesSound(frames, allocated, objType)
      /\ ItemsSound(holds, allocated, objType)
      /\ \A n \in Names : Plain(code[n])
  BY <1>1, IdleMemory
<1>4. ASSUME NEW p \in Obj, NEW t \in ObjTypes, NewObject(p, t)
      PROVE  /\ AllSound(stack', allocated', objType')
             /\ FramesSound(frames, allocated', objType')
             /\ gcState' = "idle"
  BY <1>1, <1>3, <1>4, NewObjectSound, AllStillSound DEF NewObject
<1>5. CASE SimpleLiteral
  <2>1. PICK v \in {Double(0, t) : t \in Doubles} \cup {InlineString} :
          AddValue(v, frames, holds)
    BY <1>5 DEF SimpleLiteral
  <2>2. v \in Value /\ asPointer(v) = NoObj
    BY <2>1, NoPointer, ReplAssumption
  <2>3. allocated' = allocated /\ objType' = objType /\ gcState' = gcState
    BY <1>5 DEF SimpleLiteral, SameObjects
  <2>4. /\ FramesSound(frames', allocated, objType)
        /\ ItemsSound(holds', allocated, objType)
    BY <1>1, <1>3, <2>1, <2>2, PlainSound, AddValueSound
  <2>5. QED
    BY <1>1, <1>3, <2>3, <2>4, ProgramStep
<1>6. CASE StringLiteral
  <2>1. PICK p \in Obj :
          /\ NewObject(p, "String")
          /\ AddValue(StringValue(p), frames, [holds EXCEPT ![p] = <<>>])
    BY <1>6 DEF StringLiteral
  <2>2. /\ [holds EXCEPT ![p] = <<>>] \in [Obj -> Seq(Value)]
        /\ ItemsSound([holds EXCEPT ![p] = <<>>], allocated', objType')
    BY <1>2, <1>3, <2>1, ItemsAfterNew, EmptySound
  <2>3. StringValue(p) \in Value /\ SoundIn(StringValue(p), allocated', objType')
    BY <1>2, <1>3, <2>1, NewObjectSound, Constructed
  <2>4. /\ FramesSound(frames', allocated', objType')
        /\ ItemsSound(holds', allocated', objType')
    BY <1>1, <1>2, <1>3, <1>4, <2>1, <2>2, <2>3, AddValueSound
  <2>5. QED
    BY <1>1, <1>2, <1>3, <1>4, <2>1, <2>4, ProgramStep
<1>7. CASE OpenArray
  <2>1. PICK p \in Obj :
          /\ NewObject(p, "Array")
          /\ holds' = [holds EXCEPT ![p] = <<>>]
          /\ frames' = Append(frames, Call("array", p))
    BY <1>7 DEF OpenArray
  <2>2. ItemsSound(holds', allocated', objType')
    BY <1>2, <1>3, <2>1, ItemsAfterNew, EmptySound
  <2>3. FramesSound(frames', allocated', objType')
    <3>1. SoundIn(ArrayValue(p), allocated', objType')
      BY <1>2, <1>3, <2>1, NewObjectSound
    <3>2. FramesSound(frames, allocated', objType')
      BY <1>2, <1>4, <2>1
    <3>3. QED
      BY <1>3, <2>1, <3>1, <3>2, FrameOnTopSound
  <2>4. QED
    BY <1>1, <1>2, <1>3, <1>4, <2>1, <2>2, <2>3, ProgramStep
<1>8. CASE CloseArray
  <2>1. /\ Callers \in Seq(Frame) /\ Callers # <<>>
        /\ FramesSound(Callers, allocated, objType)
        /\ Top.kind = "array"
    <3>1. Top.kind = "array"
      BY <1>8 DEF CloseArray
    <3>2. QED
      BY <1>1, <1>3, <3>1, CallersSound DEF SessionOK
  <2>2. Len(frames) \in 1..Len(frames) /\ Top.array \in Obj \cup {NoObj}
    BY <1>1, <1>3, TopIsFrame DEF Top
  <2>3. SoundIn(ArrayValue(Top.array), allocated, objType)
    BY <1>3, <2>1, <2>2 DEF FramesSound, Top
  <2>4. ArrayValue(Top.array) \in Value
    <3>1. setPointer(Top.array) \in Value
      BY <2>2 DEF setPointer, Value
    <3>2. QED
      BY <3>1, WithTags DEF ArrayValue, kArrayTag
  <2>5. /\ FramesSound(frames', allocated, objType)
        /\ ItemsSound(holds', allocated, objType)
    BY <1>3, <1>8, <2>1, <2>3, <2>4, AddValueSound DEF CloseArray
  <2>6. allocated' = allocated /\ objType' = objType /\ gcState' = gcState
    BY <1>8 DEF CloseArray, SameObjects
  <2>7. QED
    BY <1>1, <1>3, <2>5, <2>6, ProgramStep
<1>9. CASE OpenQuote
  <2>1. FramesSound(frames', allocated, objType)
    BY <1>3, <1>9, FrameOnTopSound DEF OpenQuote
  <2>2. UNCHANGED heapVars
    BY <1>9 DEF OpenQuote
  <2>3. QED
    BY <1>1, <1>3, <2>1, <2>2, ProgramStep DEF heapVars, objects
<1>10. CASE CloseQuote
  <2>1. PICK p \in Obj :
          /\ NewObject(p, "Quote")
          /\ AddValue(QuoteValue(p), Callers,
                      [holds EXCEPT ![p] = Top.literals])
    BY <1>10 DEF CloseQuote
  <2>2. /\ Callers \in Seq(Frame) /\ Callers # <<>>
        /\ FramesSound(Callers, allocated', objType')
    <3>1. Top.kind = "quote"
      BY <1>10 DEF CloseQuote
    <3>2. FramesSound(frames, allocated', objType')
      BY <1>2, <1>4, <2>1
    <3>3. QED
      BY <1>1, <1>3, <3>1, <3>2, CallersSound DEF SessionOK
  <2>3. Top.literals \in Seq(Value) /\ AllSound(Top.literals, allocated', objType')
    <3>1. Len(frames) \in 1..Len(frames) /\ Top.literals \in Seq(Value)
      BY <1>1, <1>3, TopIsFrame DEF Top
    <3>2. FramesSound(frames, allocated', objType')
      BY <1>2, <1>4, <2>1
    <3>3. QED
      BY <3>1, <3>2 DEF FramesSound, Top
  <2>4. /\ [holds EXCEPT ![p] = Top.literals] \in [Obj -> Seq(Value)]
        /\ ItemsSound([holds EXCEPT ![p] = Top.literals], allocated', objType')
    BY <1>2, <1>3, <2>1, <2>3, ItemsAfterNew
  <2>5. QuoteValue(p) \in Value /\ SoundIn(QuoteValue(p), allocated', objType')
    BY <1>2, <1>3, <2>1, NewObjectSound, Constructed
  <2>6. /\ FramesSound(frames', allocated', objType')
        /\ ItemsSound(holds', allocated', objType')
    BY <2>1, <2>2, <2>4, <2>5, AddValueSound
  <2>7. QED
    BY <1>1, <1>2, <1>3, <1>4, <2>1, <2>6, ProgramStep
<1>11. CASE CompileError \/ Uncaught \/ BeginRun
  <2>1. UNCHANGED heapVars /\ frames' \in {frames, <<>>}
    BY <1>11 DEF CompileError, Uncaught, BeginRun
  <2>2. QED
    BY <1>1, <1>3, <2>1, EmptySound, ProgramStep DEF heapVars, objects
<1>12. QED
  BY <1>5, <1>6, <1>7, <1>8, <1>9, <1>10, <1>11 DEF Parse

\* The operands of a word are sound, and so is the stack without them.
LEMMA OperandsSound ==
  ASSUME NEW a, NEW t, stack \in Seq(Value), AllSound(stack, a, t),
         Len(stack) >= 2
  PROVE  /\ Pop(2) \in Seq(Value)
         /\ AllSound(Pop(2), a, t)
         /\ \A n \in 0..1 : Peek(n) \in Value /\ SoundIn(Peek(n), a, t)
<1>1. AllSound(Pop(2), a, t) /\ Pop(2) \in Seq(Value)
  BY PopKeepsBottom DEF AllSound
<1>2. \A n \in 0..1 : Peek(n) \in Value /\ SoundIn(Peek(n), a, t)
  BY PeekIsOnStack DEF AllSound, Peek
<1>3. QED
  BY <1>1, <1>2

LEMMA RunKeepsMemory ==
  ASSUME SessionOK, MemoryOK, ~WordsHoldObjects, Run
  PROVE  MemoryOK'
<1>1. /\ phase = "run" /\ gcState = "idle" /\ frames # <<>>
      /\ code \in [Names -> Seq(Value)] /\ defined \subseteq Names
  BY IdleOutsideCollect
  DEF Run, RunLiteral, RunDup, RunDrop, RunSwap, RunNull, RunArithmetic,
      RunConcat, RunAddItem, RunDefine, EndRun, SessionOK, PhaseOK,
      PromptTypeOK
<1>2. /\ HeapTypeOK
      /\ holds \in [Obj -> Seq(Value)]
      /\ stack \in Seq(Value)
      /\ AllSound(stack, allocated, objType)
      /\ FramesSound(frames, allocated, objType)
      /\ ItemsSound(holds, allocated, objType)
      /\ \A n \in Names : Plain(code[n])
  BY <1>1, IdleMemory
<1>3. ASSUME UNCHANGED heapVars, frames' = frames,
             AllSound(stack', allocated, objType),
             \A n \in Names : Plain(code'[n])
      PROVE  MemoryOK'
  BY <1>1, <1>2, <1>3, ProgramStep DEF heapVars, objects
<1>4. ASSUME NEW p \in Obj, NEW t \in ObjTypes, NewObject(p, t),
             frames' = frames, code' = code,
             AllSound(stack', allocated', objType'),
             ItemsSound(holds', allocated', objType')
      PROVE  MemoryOK'
  <2>1. FramesSound(frames', allocated', objType') /\ gcState' = "idle"
    BY <1>1, <1>2, <1>4, NewObjectSound, AllStillSound DEF NewObject
  <2>2. QED
    BY <1>2, <1>4, <2>1, ProgramStep
<1>5. {"String", "Array", "Quote"} \subseteq ObjTypes /\ <<>> \in Seq(Value)
  BY DEF ObjTypes
<1>6. CASE RunLiteral
  <2>1. PICK v \in RunLiterals : stack' = Append(stack, v)
    BY <1>6 DEF RunLiteral
  <2>2. /\ v \in Value
        /\ \/ \E i \in 1..Len(frames[1].literals) : v = frames[1].literals[i]
           \/ \E n \in defined : \E i \in 1..Len(code[n]) : v = code[n][i]
           \/ \E p \in Obj : /\ \E j \in 1..Len(stack) : asPointer(stack[j]) = p
                             /\ \E i \in 1..Len(holds[p]) : v = holds[p][i]
    BY <1>1, <1>2, <2>1, RunLiteralsAreValues DEF SessionOK
  <2>3. SoundIn(v, allocated, objType)
    <3>1. 1 \in 1..Len(frames)
      BY <1>1, EmptySeq DEF SessionOK, PromptTypeOK
    <3>2. ASSUME \E i \in 1..Len(frames[1].literals) : v = frames[1].literals[i]
          PROVE  SoundIn(v, allocated, objType)
      BY <1>2, <3>1, <3>2 DEF FramesSound, AllSound
    <3>3. ASSUME NEW n \in defined, \E i \in 1..Len(code[n]) : v = code[n][i]
          PROVE  SoundIn(v, allocated, objType)
      BY <1>1, <1>2, <3>3 DEF Plain, SoundIn
    <3>4. ASSUME NEW p \in Obj, \E i \in 1..Len(holds[p]) : v = holds[p][i]
          PROVE  SoundIn(v, allocated, objType)
      BY <1>2, <3>4 DEF ItemsSound, AllSound
    <3>5. QED
      BY <2>2, <3>2, <3>3, <3>4
  <2>4. AllSound(stack', allocated, objType)
    BY <1>2, <2>1, <2>2, <2>3, AppendSound
  <2>5. QED
    BY <1>2, <1>3, <1>6, <2>4 DEF RunLiteral
<1>7. CASE RunDup
  <2>1. Len(stack) > 0
    BY <1>2, <1>7, ReplAssumption DEF RunDup
  <2>2. Peek(0) \in Value /\ SoundIn(Peek(0), allocated, objType)
    BY <1>2, <2>1, PeekIsOnStack DEF AllSound, Peek
  <2>3. AllSound(stack', allocated, objType)
    BY <1>2, <1>7, <2>2, AppendSound DEF RunDup
  <2>4. QED
    BY <1>2, <1>3, <1>7, <2>3 DEF RunDup
<1>8. CASE RunDrop
  <2>1. Len(stack) >= 1
    BY <1>2, <1>8, EmptySeq DEF RunDrop
  <2>2. AllSound(stack', allocated, objType)
    BY <1>2, <1>8, <2>1, PopKeepsBottom DEF RunDrop, AllSound
  <2>3. QED
    BY <1>2, <1>3, <1>8, <2>2 DEF RunDrop
<1>9. CASE RunSwap
  <2>1. Len(stack) >= 2 /\ stack' = Pop(2) \o <<Peek(0), Peek(1)>>
    BY <1>9 DEF RunSwap
  <2>2. /\ Pop(2) \in Seq(Value) /\ AllSound(Pop(2), allocated, objType)
        /\ Peek(0) \in Value /\ SoundIn(Peek(0), allocated, objType)
        /\ Peek(1) \in Value /\ SoundIn(Peek(1), allocated, objType)
    BY <1>2, <2>1, OperandsSound
  <2>3. ASSUME NEW s \in Seq(Value), NEW v \in Value, NEW w \in Value
        PROVE  s \o <<v, w>> = Append(Append(s, v), w)
    OBVIOUS
  <2>4. AllSound(stack', allocated, objType)
    <3>1. /\ Append(Pop(2), Peek(0)) \in Seq(Value)
          /\ AllSound(Append(Pop(2), Peek(0)), allocated, objType)
      BY <2>2, AppendSound
    <3>2. AllSound(Append(Append(Pop(2), Peek(0)), Peek(1)), allocated, objType)
      BY <2>2, <3>1, AppendSound
    <3>3. QED
      BY <2>1, <2>2, <2>3, <3>2
  <2>5. QED
    BY <1>2, <1>3, <1>9, <2>4 DEF RunSwap
<1>10. CASE RunNull
  <2>1. AllSound(stack', allocated, objType)
    BY <1>2, <1>10, NoPointer, PlainSound, AppendSound DEF RunNull
  <2>2. QED
    BY <1>2, <1>3, <1>10, <2>1 DEF RunNull
<1>11. CASE RunArithmetic
  <2>1. Pop(2) \in Seq(Value) /\ AllSound(Pop(2), allocated, objType)
    BY <1>2, <1>11, OperandsSound DEF RunArithmetic
  <2>2. PICK v \in Value : stack' = Append(Pop(2), v) /\ asPointer(v) = NoObj
    <3>1. \A t \in Doubles :
            Double(0, t) \in Value /\ asPointer(Double(0, t)) = NoObj
      BY NoPointer, ReplAssumption
    <3>2. \/ \E t \in Doubles : stack' = Append(Pop(2), Double(0, t))
          \/ stack' = Append(Pop(2), NullValue)
      BY <1>11 DEF RunArithmetic
    <3>3. QED
      BY <3>1, <3>2, NoPointer
  <2>3. AllSound(stack', allocated, objType)
    BY <2>1, <2>2, PlainSound, AppendSound
  <2>4. QED
    BY <1>2, <1>3, <1>11, <2>3 DEF RunArithmetic
<1>12. CASE RunConcat
  <2>1. Len(stack) >= 2
    BY <1>12 DEF RunConcat
  <2>2. CASE /\ \E i \in 0..1 : stack' = Append(Pop(2), Peek(1 - i))
             /\ UNCHANGED heapVars
    <3>1. PICK n \in 0..1 : stack' = Append(Pop(2), Peek(n))
      <4>1. PICK i \in 0..1 : stack' = Append(Pop(2), Peek(1 - i))
        BY <2>2
      <4>2. 1 - i \in 0..1
        OBVIOUS
      <4>3. QED
        BY <4>1, <4>2
    <3>2. AllSound(stack', allocated, objType)
      BY <1>2, <2>1, <3>1, OperandsSound, AppendSound
    <3>3. QED
      BY <1>2, <1>3, <1>12, <2>2, <3>2 DEF RunConcat
  <2>3. ASSUME NEW p \in Obj, NewObject(p, "String"),
               holds' = [holds EXCEPT ![p] = <<>>],
               stack' = Append(Pop(2), StringValue(p))
        PROVE  MemoryOK'
    <3>1. AllSound(stack, allocated', objType')
      BY <1>2, <1>5, <2>3, NewObjectSound, AllStillSound
    <3>2. StringValue(p) \in Value /\ SoundIn(StringValue(p), allocated', objType')
      BY <1>2, <1>5, <2>3, NewObjectSound, Constructed
    <3>3. AllSound(stack', allocated', objType')
      BY <1>2, <2>1, <2>3, <3>1, <3>2, OperandsSound, AppendSound
    <3>4. ItemsSound(holds', allocated', objType')
      BY <1>2, <1>5, <2>3, ItemsAfterNew, EmptySound
    <3>5. QED
      BY <1>4, <1>5, <1>12, <2>3, <3>3, <3>4 DEF RunConcat
  <2>4. QED
    BY <1>12, <2>2, <2>3 DEF RunConcat
<1>13. CASE RunAddItem
  <2>1. Len(stack) >= 2
    BY <1>13 DEF RunAddItem
  <2>2. PICK p \in Obj :
          /\ NewObject(p, "Array")
          /\ holds' = [holds EXCEPT ![p] = Append(holds[asPointer(Peek(1))], Peek(0))]
          /\ stack' = Append(Pop(2), ArrayValue(p))
    BY <1>13 DEF RunAddItem
  <2>3. /\ allocated \subseteq allocated'
        /\ \A q \in allocated : objType'[q] = objType[q]
        /\ ArrayValue(p) \in Value
        /\ SoundIn(ArrayValue(p), allocated', objType')
    BY <1>2, <1>5, <2>2, NewObjectSound, Constructed
  <2>4. AllSound(stack, allocated', objType')
    BY <1>2, <2>3, AllStillSound
  <2>5. /\ Pop(2) \in Seq(Value) /\ AllSound(Pop(2), allocated', objType')
        /\ Peek(0) \in Value /\ SoundIn(Peek(0), allocated', objType')
        /\ Peek(1) \in Value
    BY <1>2, <2>1, <2>4, OperandsSound
  <2>6. asPointer(Peek(1)) \in Obj
    BY <1>13, <2>5, PointerType DEF RunAddItem, isArray
  <2>7. /\ holds[asPointer(Peek(1))] \in Seq(Value)
        /\ AllSound(holds[asPointer(Peek(1))], allocated', objType')
    <3>1. /\ holds[asPointer(Peek(1))] \in Seq(Value)
          /\ AllSound(holds[asPointer(Peek(1))], allocated, objType)
      BY <1>2, <2>6 DEF ItemsSound
    <3>2. \A s : AllSound(s, allocated, objType) => AllSound(s, allocated', objType')
      BY <2>3, AllStillSound
    <3>3. QED
      BY <3>1, <3>2
  <2>8. /\ Append(holds[asPointer(Peek(1))], Peek(0)) \in Seq(Value)
        /\ AllSound(Append(holds[asPointer(Peek(1))], Peek(0)), allocated', objType')
    BY <2>5, <2>7, AppendSound
  <2>9. ItemsSound(holds', allocated', objType')
    BY <1>2, <1>5, <2>2, <2>8, ItemsAfterNew
  <2>10. AllSound(stack', allocated', objType')
    BY <2>2, <2>3, <2>5, AppendSound
  <2>11. QED
    BY <1>4, <1>5, <1>13, <2>2, <2>9, <2>10 DEF RunAddItem
<1>14. CASE RunDefine
  <2> DEFINE literals == holds[asPointer(Peek(1))]
  <2>1. Len(stack) >= 2
    BY <1>14 DEF RunDefine
  <2>2. Peek(1) \in Value
    BY <1>2, <2>1, OperandsSound
  <2>3. literals \in Seq(Value)
    BY <1>2, <1>14, <2>2, PointerType DEF RunDefine, isQuote
  <2>4. Targets(Range(literals)) = {}
    BY <1>14 DEF RunDefine
  <2>5. Plain(literals)
    <3>1. \A i \in 1..Len(literals) : literals[i] \in Range(literals)
      BY <2>3, LenProperties DEF Range
    <3>2. \A v \in Range(literals) : asPointer(v) = NoObj
      BY <2>4 DEF Targets
    <3> HIDE DEF literals
    <3>3. QED
      BY <3>1, <3>2 DEF Plain
  <2>6. \A n \in Names : code'[n] = code[n] \/ code'[n] = literals
    BY <1>1, <1>14 DEF RunDefine
  <2>7. \A n \in Names : Plain(code'[n])
    BY <1>2, <2>5, <2>6
  <2>8. AllSound(stack', allocated, objType)
    BY <1>2, <1>14, <2>1, OperandsSound DEF RunDefine
  <2>9. QED
    BY <1>3, <1>14, <2>7, <2>8 DEF RunDefine
<1>15. CASE EndRun
  <2>1. BeginMark(stack)
    <3>1. PICK literals \in Orders(ScannedLiterals) :
            BeginMark(literals \o ScannedStack)
      BY <1>15 DEF EndRun
    <3>2. literals = <<>>
      BY <3>1, NothingScanned
    <3>3. QED
      BY <1>2, <3>1, <3>2, ConcatEmptySeq DEF ScannedStack
  <2>2. /\ gcState' = "mark" /\ agenda' = stack /\ stack' = stack
        /\ allocated' = allocated /\ objType' = objType /\ holds' = holds
        /\ marked' = marked /\ code' = code /\ frames' = <<>>
    BY <1>15, <2>1 DEF EndRun, BeginMark, objects
  <2>3. RootsOK' /\ ItemsOK' /\ SurvivorsOK'
    BY <1>2, <2>2, EmptySound DEF RootsOK, ItemsOK, SurvivorsOK
  <2>4. MarkOK'
    <3>1. \A p \in allocated : ~marked[p]
      BY <1>1 DEF SessionOK, HeapOK, MarksOK
    <3>2. AllReached(stack)'
      BY <2>2 DEF AllReached, Reached
    <3>3. QED
      BY <1>2, <2>2, <3>1, <3>2 DEF MarkOK
  <2>5. QED
    BY <2>3, <2>4 DEF MemoryOK
<1>16. QED
  BY <1>6, <1>7, <1>8, <1>9, <1>10, <1>11, <1>12, <1>13, <1>14, <1>15 DEF Run

-----------------------------------------------------------------------------
(* The collector keeps the invariant *)

\* A sound value with a pointer is one whose object mark() is called on.
LEMMA SoundIsMarked ==
  ASSUME NEW v \in Value, HeapTypeOK, SoundIn(v, allocated, objType),
         asPointer(v) # NoObj
  PROVE  CallsMark(v)
<1>1. v.magic /\ v.sign = 1 /\ v.low # NoObj /\ asPointer(v) = v.low
  BY DEF asPointer, isPointer
<1>2. v.tags \in 0..3
  BY DEF Value
<1>3. ~isDouble(v) /\ ~isInline(v) /\ ~isNullPointer(v)
  BY <1>1 DEF isDouble, isInline, isNullPointer
<1>4. type(v) = <<"String", "Array", "Quote", "none">>[v.tags + 1]
  BY <1>3 DEF type
<1>5. objType[asPointer(v)] = type(v) /\ asPointer(v) \in Obj
  BY DEF SoundIn, HeapTypeOK
<1>6. type(v) \in {"String", "Array", "Quote"}
  BY <1>5 DEF HeapTypeOK, ObjTypes
<1>7. v.tags # 3
  BY <1>4, <1>6
<1>8. v.tags \in {0, 1, 2}
  BY <1>2, <1>7
<1>9. QED
  BY <1>3, <1>8 DEF CallsMark, kStringTag, kArrayTag, kQuoteTag

LEMMA ConcatParts ==
  ASSUME NEW s \in Seq(Value), NEW t \in Seq(Value)
  PROVE  /\ Len(s \o t) = Len(s) + Len(t)
         /\ \A i \in 1..Len(s) : (s \o t)[i] = s[i]
         /\ \A i \in 1..Len(t) : (s \o t)[Len(s) + i] = t[i]
         /\ \A i \in 1..Len(s \o t) :
              \/ \E j \in 1..Len(s) : (s \o t)[i] = s[j]
              \/ \E j \in 1..Len(t) : (s \o t)[i] = t[j]
<1>1. /\ Len(s \o t) = Len(s) + Len(t)
      /\ \A i \in 1..Len(s) : (s \o t)[i] = s[i]
      /\ \A i \in 1..Len(t) : (s \o t)[Len(s) + i] = t[i]
  OBVIOUS
<1>2. ASSUME NEW i \in 1..Len(s \o t)
      PROVE  \/ \E j \in 1..Len(s) : (s \o t)[i] = s[j]
             \/ \E j \in 1..Len(t) : (s \o t)[i] = t[j]
  <2>1. CASE i <= Len(s)
    BY <1>1, <2>1
  <2>2. CASE i > Len(s)
    <3>1. i - Len(s) \in 1..Len(t) /\ (s \o t)[i] = t[i - Len(s)]
      BY <1>1, <2>2
    <3>2. QED
      BY <3>1
  <2>3. QED
    BY <2>1, <2>2
<1>3. QED
  BY <1>1, <1>2

\* One call of mark() leaves everything reached that was.
LEMMA MarkKeepsMemory ==
  ASSUME SessionOK, MemoryOK, Mark,
         UNCHANGED <<stack, frames, code>>
  PROVE  MemoryOK'
<1>a. PICK v, p, rest :
        v = Head(agenda) /\ p = asPointer(v) /\ rest = Tail(agenda)
  OBVIOUS
<1>1. /\ gcState = "mark" /\ agenda # <<>> /\ ~MarkFaults(v)
      /\ gcState' = "mark" /\ allocated' = allocated /\ objType' = objType
      /\ holds' = holds
  BY <1>a DEF Mark, objects
<1>2. /\ agenda \in Seq(Value) /\ HeapTypeOK /\ holds \in [Obj -> Seq(Value)]
      /\ marked \in [Obj -> BOOLEAN]
      /\ stack \in Seq(Value)
      /\ allocated \subseteq Obj
  BY DEF SessionOK, HeapOK, HeapTypeOK, PromptTypeOK
<1>3. /\ v \in Value
      /\ rest \in Seq(Value)
      /\ v = agenda[1]
      /\ Len(rest) = Len(agenda) - 1
      /\ \A i \in 1..Len(rest) : rest[i] = agenda[i + 1]
      /\ Len(agenda) \in Nat \ {0}
  BY <1>a, <1>1, <1>2, HeadTailProperties, EmptySeq
<1>4. /\ AllSound(agenda, allocated, objType)
      /\ AllReached(stack)
      /\ \A q \in allocated : marked[q] => AllReached(holds[q])
      /\ ItemsSound(holds, allocated, objType)
  BY <1>1 DEF MemoryOK, MarkOK, ItemsOK
<1>5. SoundIn(v, allocated, objType) /\ AllSound(rest, allocated, objType)
  BY <1>3, <1>4 DEF AllSound
<1>6. RootsOK' /\ ItemsOK' /\ SurvivorsOK'
  BY <1>1, <1>4 DEF MemoryOK, RootsOK, ItemsOK, SurvivorsOK
<1>7. ASSUME NEW q, Reached(q)
      PROVE  q = p \/ marked[q] \/ \E i \in 1..Len(rest) : asPointer(rest[i]) = q
  <2>1. CASE marked[q]
    BY <2>1
  <2>2. ASSUME NEW i \in 1..Len(agenda), asPointer(agenda[i]) = q
        PROVE  q = p \/ \E j \in 1..Len(rest) : asPointer(rest[j]) = q
    <3>1. CASE i = 1
      BY <1>a, <1>3, <2>2, <3>1
    <3>2. CASE i # 1
      <4>1. i - 1 \in 1..Len(rest) /\ rest[i - 1] = agenda[i]
        BY <1>3, <3>2
      <4>2. QED
        BY <2>2, <4>1
    <3>3. QED
      BY <3>1, <3>2
  <2>3. QED
    BY <1>7, <2>1, <2>2 DEF Reached
<1>8. CASE MarksNow(v)
  <2>1. /\ marked' = [marked EXCEPT ![p] = TRUE]
        /\ agenda' = holds[p] \o rest
    BY <1>a, <1>8 DEF Mark, Callees
  <2>2. p \in allocated /\ p \in Obj /\ ~marked[p]
    BY <1>a, <1>1, <1>2, <1>3, <1>8, MarksNowIsObject DEF MarksNow
  <2>3. holds[p] \in Seq(Value) /\ AllSound(holds[p], allocated, objType)
    BY <1>2, <1>4, <2>2 DEF ItemsSound
  <2>4. /\ \A q \in Obj : marked'[q] <=> q = p \/ marked[q]
        /\ \A q : q \notin Obj => marked'[q] = marked[q]
    BY <1>2, <2>1, <2>2
  <2>5. /\ Len(agenda') = Len(holds[p]) + Len(rest)
        /\ \A i \in 1..Len(holds[p]) : agenda'[i] = holds[p][i]
        /\ \A i \in 1..Len(rest) : agenda'[Len(holds[p]) + i] = rest[i]
        /\ \A i \in 1..Len(agenda') :
             \/ \E j \in 1..Len(holds[p]) : agenda'[i] = holds[p][j]
             \/ \E j \in 1..Len(rest) : agenda'[i] = rest[j]
    <3>1. holds[p] \in Seq(Value) /\ rest \in Seq(Value)
      BY <1>3, <2>3
    <3>2. QED
      BY <2>1, <3>1, ConcatParts
  <2>6. AllSound(agenda', allocated, objType)
    BY <1>5, <2>3, <2>5 DEF AllSound
  <2>7. \A q \in Obj : Reached(q) => Reached(q)'
    <3> SUFFICES ASSUME NEW q \in Obj, Reached(q) PROVE Reached(q)'
      OBVIOUS
    <3>1. CASE q = p \/ marked[q]
      BY <2>4, <3>1 DEF Reached
    <3>2. ASSUME NEW i \in 1..Len(rest), asPointer(rest[i]) = q PROVE Reached(q)'
      <4>1. /\ Len(holds[p]) + i \in 1..Len(agenda')
            /\ agenda'[Len(holds[p]) + i] = rest[i]
        BY <1>3, <2>3, <2>5
      <4>2. QED
        BY <3>2, <4>1 DEF Reached
    <3>3. QED
      BY <1>7, <3>1, <3>2
  <2>8. AllReached(stack)'
    <3>1. \A i \in 1..Len(stack) : asPointer(stack[i]) \in Obj \cup {NoObj}
      BY <1>2, ElementOfSeq, PointerType
    <3>2. QED
      BY <1>4, <2>7, <3>1 DEF AllReached
  <2>9. AllReached(holds[p])'
    <3>1. ASSUME NEW i \in 1..Len(holds[p])
          PROVE  Reached(asPointer(holds[p][i]))'
      <4>1. i \in 1..Len(agenda') /\ agenda'[i] = holds[p][i]
        BY <1>3, <2>3, <2>5
      <4>2. QED
        BY <4>1, <1>1 DEF Reached
    <3>2. QED
      BY <1>1, <3>1 DEF AllReached
  <2>10. ASSUME NEW q \in allocated, marked[q] PROVE AllReached(holds[q])'
    <3>1. q \in Obj /\ holds[q] \in Seq(Value)
      BY <1>2
    <3>2. \A i \in 1..Len(holds[q]) : asPointer(holds[q][i]) \in Obj \cup {NoObj}
      BY <3>1, ElementOfSeq, PointerType
    <3>3. AllReached(holds[q])
      BY <1>4, <2>10
    <3>4. QED
      BY <1>1, <2>7, <3>2, <3>3 DEF AllReached
  <2>11. MarkOK'
    <3>1. \A q \in allocated : marked'[q] => AllReached(holds[q])'
      BY <1>2, <2>4, <2>9, <2>10
    <3>2. QED
      BY <1>1, <2>6, <2>8, <3>1 DEF MarkOK
  <2>12. QED
    BY <1>6, <2>11 DEF MemoryOK
<1>9. CASE ~MarksNow(v)
  <2>1. marked' = marked /\ agenda' = rest
    BY <1>a, <1>9 DEF Mark
  <2>2. p # NoObj => marked[p]
    BY <1>a, <1>2, <1>3, <1>5, <1>9, SoundIsMarked DEF MarksNow
  <2>3. \A q \in Obj : Reached(q) => Reached(q)'
    BY <1>7, <2>1, <2>2, NoObjAssumption DEF Reached
  <2>4. AllReached(stack)'
    <3>1. \A i \in 1..Len(stack) : asPointer(stack[i]) \in Obj \cup {NoObj}
      BY <1>2, ElementOfSeq, PointerType
    <3>2. QED
      BY <1>4, <2>3, <3>1 DEF AllReached
  <2>5. ASSUME NEW q \in allocated, marked[q] PROVE AllReached(holds[q])'
    <3>1. q \in Obj /\ holds[q] \in Seq(Value)
      BY <1>2
    <3>2. \A i \in 1..Len(holds[q]) : asPointer(holds[q][i]) \in Obj \cup {NoObj}
      BY <3>1, ElementOfSeq, PointerType
    <3>3. AllReached(holds[q])
      BY <1>4, <2>5
    <3>4. QED
      BY <1>1, <2>3, <3>2, <3>3 DEF AllReached
  <2>6. MarkOK'
    BY <1>1, <1>5, <2>1, <2>4, <2>5 DEF MarkOK
  <2>7. QED
    BY <1>6, <2>6 DEF MemoryOK
<1>10. QED
  BY <1>8, <1>9

\* A sweep begins with what is marked, ...
LEMMA SurvivorsAreMarked ==
  ASSUME HeapOK, BeginSweep
  PROVE  Survivors' = {p \in allocated : marked[p]}
<1>1. \A p \in allocated' : ~Passed(p)'
  BY BeginSweepKeepsHeap
<1>2. /\ gcState' = "sweep" /\ allocated' = allocated /\ marked' = marked
  BY DEF BeginSweep, objects
<1>3. QED
  BY <1>1, <1>2 DEF Survivors

\* ... and touches none of it until it ends.
LEMMA SweepKeepsSurvivors ==
  ASSUME HeapOK, KeepMarked \/ FreeUnmarked \/ EndSweep
  PROVE  /\ gcState = "sweep"
         /\ Survivors' = Survivors
         /\ Survivors \subseteq allocated'
         /\ \A p \in Survivors : holds'[p] = holds[p] /\ objType'[p] = objType[p]
         /\ holds' \in [Obj -> Seq(Value)]
         /\ \A p \in Obj \ allocated' : p \in allocated => holds'[p] = <<>>
         /\ \A p \in Obj \ allocated : holds'[p] = holds[p]
<1>1. CASE KeepMarked
  <2>1. \A p \in allocated : Passed(p)' <=> p = o \/ Passed(p)
    BY <1>1, KeepMarkedKeepsHeap
  <2>2. \A p \in allocated : marked'[p] = IF p = o THEN FALSE ELSE marked[p]
    BY <1>1 DEF KeepMarked, Unmark, HeapOK, HeapTypeOK
  <2>3. /\ allocated' = allocated /\ objType' = objType /\ holds' = holds
        /\ gcState = "sweep" /\ gcState' = "sweep" /\ marked[o]
    BY <1>1 DEF KeepMarked, objects
  <2>4. Survivors' = Survivors
    BY <2>1, <2>2, <2>3 DEF Survivors
  <2>5. QED
    BY <2>3, <2>4 DEF Survivors, HeapOK, HeapTypeOK
<1>2. CASE FreeUnmarked
  <2>1. \A p \in allocated' : Passed(p)' <=> Passed(p)
    BY <1>2, FreeUnmarkedKeepsHeap
  <2>2. /\ allocated' = allocated \ {o} /\ marked' = marked /\ ~marked[o]
        /\ gcState = "sweep" /\ gcState' = "sweep" /\ o # NoObj
        /\ holds' = [holds EXCEPT ![o] = <<>>]
        /\ objType' = [objType EXCEPT ![o] = "String"]
    BY <1>2 DEF FreeUnmarked
  <2>3. o \in allocated /\ ~Passed(o)
    BY <2>2, NextPassesOne DEF HeapOK, SweepOK
  <2>4. Survivors' = Survivors /\ o \notin Survivors /\ Survivors \subseteq allocated'
    BY <2>1, <2>2, <2>3 DEF Survivors
  <2>5. \A p \in Obj : p # o => holds'[p] = holds[p] /\ objType'[p] = objType[p]
    BY <2>2 DEF HeapOK, HeapTypeOK
  <2>6. holds' \in [Obj -> Seq(Value)] /\ allocated \subseteq Obj
    BY <1>2, FreeUnmarkedKeepsHeap DEF HeapOK, HeapTypeOK
  <2>7. holds'[o] = <<>>
    BY <2>2, <2>3, <2>6 DEF HeapOK, HeapTypeOK
  <2>8. Survivors \subseteq allocated
    BY DEF Survivors
  <2>9. QED
    BY <2>2, <2>3, <2>4, <2>5, <2>6, <2>7, <2>8
<1>3. CASE EndSweep
  BY <1>3 DEF EndSweep, Survivors, Passed, HeapOK, HeapTypeOK
<1>4. QED
  BY <1>1, <1>2, <1>3

LEMMA FaultKeepsMemory ==
  ASSUME MemoryOK, Fault, UNCHANGED <<stack, frames, code>>
  PROVE  MemoryOK'
<1> USE DEF Fault, objects
<1>1. RootsOK' /\ ItemsOK' /\ SurvivorsOK'
  BY DEF MemoryOK, RootsOK, ItemsOK, SurvivorsOK
<1>2. MarkOK'
  BY DEF MemoryOK, MarkOK, AllReached, Reached
<1>3. QED
  BY <1>1, <1>2 DEF MemoryOK

LEMMA BeginSweepKeepsMemory ==
  ASSUME SessionOK, MemoryOK, BeginSweep, UNCHANGED <<stack, frames, code>>
  PROVE  MemoryOK'
<1>1. /\ gcState = "mark" /\ gcState' = "sweep" /\ agenda = <<>>
      /\ allocated' = allocated /\ objType' = objType /\ holds' = holds
      /\ marked' = marked
  BY DEF BeginSweep, objects
<1>2. Survivors' = {p \in allocated : marked[p]}
  BY SurvivorsAreMarked DEF SessionOK
<1>3. /\ AllSound(stack, allocated, objType)
      /\ ItemsSound(holds, allocated, objType)
      /\ AllReached(stack)
      /\ \A p \in allocated : marked[p] => AllReached(holds[p])
      /\ allocated \subseteq Obj
  BY <1>1 DEF MemoryOK, RootsOK, ItemsOK, MarkOK, SessionOK, HeapOK, HeapTypeOK
<1>4. ASSUME NEW s, AllReached(s), AllSound(s, allocated, objType)
      PROVE  AllIn(s, Survivors')
  BY <1>1, <1>2, <1>4 DEF AllReached, Reached, AllSound, SoundIn, AllIn
<1>5. AllIn(stack, Survivors')
  BY <1>3, <1>4
<1>6. \A p \in Survivors' : /\ AllIn(holds[p], Survivors')
                            /\ AllSound(holds[p], allocated, objType)
  BY <1>2, <1>3, <1>4 DEF ItemsSound
<1>7. SurvivorsOK'
  BY <1>1, <1>5, <1>6 DEF SurvivorsOK
<1>8. RootsOK' /\ ItemsOK' /\ MarkOK'
  BY <1>1, <1>3 DEF MemoryOK, RootsOK, ItemsOK, MarkOK, ItemsSound
<1>9. QED
  BY <1>7, <1>8 DEF MemoryOK

LEMMA SweepKeepsMemory ==
  ASSUME SessionOK, MemoryOK, KeepMarked \/ FreeUnmarked \/ EndSweep,
         UNCHANGED <<stack, frames, code>>
  PROVE  MemoryOK'
<1>1. /\ gcState = "sweep"
      /\ Survivors' = Survivors
      /\ Survivors \subseteq allocated'
      /\ \A p \in Survivors : holds'[p] = holds[p] /\ objType'[p] = objType[p]
      /\ \A p \in Obj \ allocated' : p \in allocated => holds'[p] = <<>>
      /\ \A p \in Obj \ allocated : holds'[p] = holds[p]
  BY SweepKeepsSurvivors DEF SessionOK
<1>2. gcState' \in {"sweep", "idle"} /\ (gcState' = "idle" => EndSweep)
  BY DEF KeepMarked, FreeUnmarked, EndSweep
<1>3. /\ AllSound(stack, allocated, objType)
      /\ \A n \in Names : Plain(code[n])
      /\ \A p \in Obj \ allocated : holds[p] = <<>>
      /\ AllIn(stack, Survivors)
      /\ \A p \in Survivors : /\ AllIn(holds[p], Survivors)
                              /\ AllSound(holds[p], allocated, objType)
      /\ frames = <<>>
  BY <1>1 DEF MemoryOK, RootsOK, ItemsOK, SurvivorsOK, SessionOK, PhaseOK
<1>4. ASSUME NEW s, AllIn(s, Survivors), AllSound(s, allocated, objType)
      PROVE  AllSound(s, allocated', objType')
  BY <1>1, <1>4 DEF AllIn, AllSound, SoundIn
<1>5. RootsOK'
  <2>1. AllSound(stack, allocated', objType')
    BY <1>3, <1>4
  <2>2. QED
    BY <1>3, <2>1, EmptySound DEF RootsOK
<1>6. \A p \in Survivors : /\ AllIn(holds'[p], Survivors)
                           /\ AllSound(holds'[p], allocated', objType')
  BY <1>1, <1>3, <1>4
<1>7. SurvivorsOK'
  BY <1>1, <1>3, <1>6 DEF SurvivorsOK
<1>8. \A p \in Obj \ allocated' : holds'[p] = <<>>
  BY <1>1, <1>3
<1>9. ItemsOK'
  <2>1. CASE gcState' = "sweep"
    BY <1>8, <2>1 DEF ItemsOK
  <2>2. CASE gcState' = "idle"
    <3>1. Survivors' = allocated'
      BY <2>2 DEF Survivors
    <3>2. QED
      BY <1>1, <1>6, <1>8, <2>2, <3>1, EmptySound DEF ItemsOK, ItemsSound
  <2>3. QED
    BY <1>2, <2>1, <2>2
<1>10. MarkOK'
  BY <1>2 DEF MarkOK
<1>11. QED
  BY <1>5, <1>7, <1>9, <1>10 DEF MemoryOK

LEMMA StepKeepsMemory ==
  ASSUME ~WordsHoldObjects
  PROVE  SessionOK /\ MemoryOK /\ [Next]_vars => MemoryOK'
<1> SUFFICES ASSUME SessionOK, MemoryOK, [Next]_vars PROVE MemoryOK'
  OBVIOUS
<1>1. CASE Collect
  BY <1>1, FaultKeepsMemory, MarkKeepsMemory, BeginSweepKeepsMemory,
     SweepKeepsMemory
  DEF Collect, CollectStep
<1>2. CASE UNCHANGED vars
  <2>1. RootsOK' /\ ItemsOK'
    BY <1>2 DEF MemoryOK, RootsOK, ItemsOK, vars, heapVars, objects, promptVars
  <2>2. MarkOK'
    BY <1>2
    DEF MemoryOK, MarkOK, AllReached, Reached, vars, heapVars, objects,
        promptVars
  <2>3. SurvivorsOK'
    BY <1>2
    DEF MemoryOK, SurvivorsOK, Survivors, Passed, vars, heapVars, objects,
        locals, promptVars
  <2>4. QED
    BY <2>1, <2>2, <2>3 DEF MemoryOK
<1>3. QED
  BY <1>1, <1>2, PromptKeepsMemory, ParseKeepsMemory, RunKeepsMemory DEF Next

LEMMA MemoryInvariant ==
  ASSUME ~WordsHoldObjects
  PROVE  Spec => [](SessionOK /\ MemoryOK)
<1>1. SessionOK /\ MemoryOK /\ [Next]_vars => MemoryOK'
  BY StepKeepsMemory
<1>2. QED
  BY <1>1, InitialMemory, InitialSession, StepKeepsSession, PTL DEF Spec

-----------------------------------------------------------------------------
(* What follows *)

LEMMA HeldAreSound ==
  ASSUME SessionOK, MemoryOK
  PROVE  \A v \in HeldValues : v \in Value /\ SoundIn(v, allocated, objType)
<1> SUFFICES ASSUME NEW v \in HeldValues
             PROVE  v \in Value /\ SoundIn(v, allocated, objType)
  OBVIOUS
<1> DEFINE Ok(x) == x \in Value /\ SoundIn(x, allocated, objType)
<1>1. ASSUME NEW s \in Seq(Value), AllSound(s, allocated, objType)
      PROVE  \A x \in Range(s) : Ok(x)
  BY <1>1, LenProperties, ElementOfSeq DEF Range, AllSound
<1>2. CASE v \in Range(stack)
  BY <1>1, <1>2 DEF SessionOK, PromptTypeOK, MemoryOK, RootsOK
<1>3. ASSUME NEW i \in DOMAIN frames
      PROVE  /\ \A x \in Range(frames[i].literals) : Ok(x)
             /\ frames[i].kind = "array" => Ok(ArrayValue(frames[i].array))
  <2>1. frames \in Seq(Frame) /\ FramesSound(frames, allocated, objType)
    BY DEF SessionOK, PromptTypeOK, MemoryOK, RootsOK
  <2>2. i \in 1..Len(frames) /\ frames[i] \in Frame
    BY <2>1, LenProperties, ElementOfSeq
  <2>3. frames[i].literals \in Seq(Value) /\ frames[i].array \in Obj \cup {NoObj}
    BY <2>2 DEF Frame
  <2>4. ArrayValue(frames[i].array) \in Value
    <3>1. setPointer(frames[i].array) \in Value
      BY <2>3 DEF setPointer, Value
    <3>2. QED
      BY <3>1, WithTags DEF ArrayValue, kArrayTag
  <2>5. QED
    BY <1>1, <2>1, <2>2, <2>3, <2>4 DEF FramesSound
<1>4. ASSUME NEW n \in defined
      PROVE  \A x \in Range(code[n]) : Ok(x)
  <2>1. n \in Names /\ code[n] \in Seq(Value) /\ Plain(code[n])
    BY DEF SessionOK, PromptTypeOK, MemoryOK, RootsOK
  <2>2. QED
    BY <1>1, <2>1, PlainSound
<1> HIDE DEF Ok
<1>5. \/ v \in Range(stack)
      \/ \E i \in DOMAIN frames : v \in Range(frames[i].literals)
      \/ \E i \in DOMAIN frames :
           frames[i].kind = "array" /\ v = ArrayValue(frames[i].array)
      \/ \E n \in defined : v \in Range(code[n])
  BY DEF HeldValues
<1>6. Ok(v)
  BY <1>2, <1>3, <1>4, <1>5 DEF Ok
<1>7. QED
  BY <1>6 DEF Ok

LEMMA TargetsAre ==
  \A vs, q : q \in Targets(vs) <=> q # NoObj /\ \E v \in vs : asPointer(v) = q
BY DEF Targets

LEMMA RangeIn ==
  ASSUME NEW s \in Seq(Value), NEW S
  PROVE  AllIn(s, S) <=> Targets(Range(s)) \subseteq S
<1>1. \A v : v \in Range(s) <=> \E i \in 1..Len(s) : v = s[i]
  BY LenProperties DEF Range
<1>2. \A q : q \in Targets(Range(s)) <=>
        q # NoObj /\ \E i \in 1..Len(s) : asPointer(s[i]) = q
  BY <1>1, TargetsAre
<1>3. QED
  BY <1>2 DEF AllIn

\* What the program holds during a collection
LEMMA HeldDuringCollection ==
  ASSUME SessionOK, MemoryOK, gcState \in {"mark", "sweep"}
  PROVE  Targets(HeldValues) = Targets(Range(stack))
<1>1. frames = <<>> /\ DOMAIN frames = {}
  BY DEF SessionOK, PhaseOK
<1>2. \A n \in defined : \A v \in Range(code[n]) : asPointer(v) = NoObj
  <2> SUFFICES ASSUME NEW n \in defined, NEW v \in Range(code[n])
               PROVE  asPointer(v) = NoObj
    OBVIOUS
  <2>1. n \in Names /\ code[n] \in Seq(Value) /\ Plain(code[n])
    BY DEF SessionOK, PromptTypeOK, MemoryOK, RootsOK
  <2>2. QED
    BY <2>1, LenProperties DEF Plain, Range
<1>3. \A v : v \in HeldValues <=>
        v \in Range(stack) \/ \E n \in defined : v \in Range(code[n])
  BY <1>1 DEF HeldValues
<1>4. \A q : q \in Targets(HeldValues) <=> q \in Targets(Range(stack))
  BY <1>2, <1>3, TargetsAre
<1>5. QED
  BY <1>4

\* Nothing that survives, or that the program holds, leads out of the
\* objects that survive.
LEMMA SurvivorsClosed ==
  SessionOK /\ MemoryOK => Survivors \in ClosedSets(HeldValues)
<1> SUFFICES ASSUME SessionOK, MemoryOK
             PROVE  Survivors \in ClosedSets(HeldValues)
  OBVIOUS
<1>1. Survivors \subseteq Obj /\ holds \in [Obj -> Seq(Value)]
  BY DEF Survivors, SessionOK, HeapOK, HeapTypeOK
<1>2. Targets(HeldValues) \subseteq Survivors
  <2>1. CASE gcState = "sweep"
    <3>1. AllIn(stack, Survivors) /\ stack \in Seq(Value)
      BY <2>1 DEF MemoryOK, SurvivorsOK, SessionOK, PromptTypeOK
    <3>2. QED
      BY <2>1, <3>1, RangeIn, HeldDuringCollection
  <2>2. CASE gcState # "sweep"
    BY <2>2, HeldAreSound, TargetsAre DEF Survivors, SoundIn
  <2>3. QED
    BY <2>1, <2>2
<1>3. ASSUME NEW p \in Survivors PROVE Targets(Range(holds[p])) \subseteq Survivors
  <2>1. holds[p] \in Seq(Value)
    BY <1>1
  <2>2. AllIn(holds[p], Survivors)
    <3>1. CASE gcState = "sweep"
      BY <3>1 DEF MemoryOK, SurvivorsOK
    <3>2. CASE gcState # "sweep"
      BY <1>1, <3>2
      DEF MemoryOK, ItemsOK, ItemsSound, AllSound, SoundIn, AllIn, Survivors
    <3>3. QED
      BY <3>1, <3>2
  <2>3. QED
    BY <2>1, <2>2, RangeIn
<1>4. QED
  BY <1>1, <1>2, <1>3 DEF ClosedSets

LEMMA MemoryOKImpliesNoDangling ==
  SessionOK /\ MemoryOK => NoDangling
<1> SUFFICES ASSUME SessionOK, MemoryOK PROVE NoDangling
  OBVIOUS
<1>1. \A v \in HeldValues : Sound(v)
  BY HeldAreSound DEF SoundIn, Sound
<1>2. ASSUME NEW p \in Reachable(HeldValues), NEW v \in Range(holds[p])
      PROVE  Sound(v)
  <2>1. p \in Survivors /\ p \in Obj
    BY SurvivorsClosed DEF Reachable
  <2>2. AllSound(holds[p], allocated, objType)
    BY <2>1 DEF MemoryOK, SurvivorsOK, ItemsOK, ItemsSound
  <2>3. holds[p] \in Seq(Value)
    BY <2>1 DEF SessionOK, HeapOK, HeapTypeOK
  <2>4. QED
    BY <2>2, <2>3, LenProperties DEF Range, AllSound, SoundIn, Sound
<1>3. QED
  BY <1>1, <1>2 DEF NoDangling

(***************************************************************************)
(* The sweep never frees what the program can still get at, for any number *)
(* of objects and any graph they form - provided that DEFINE was given no  *)
(* quotation with objects in its code, since gcScan() visits no word       *)
(* (gc.cc:60-90, vocabulary.hh).                                           *)
(***************************************************************************)
THEOREM NothingDangles ==
  ASSUME ~WordsHoldObjects
  PROVE  Spec => []NoDangling
BY MemoryInvariant, MemoryOKImpliesNoDangling, PTL

(***************************************************************************)
(* If Value::mark() ever dereferences what it should not, then the pointer *)
(* of a number or of null (value.cc:153-167), never a freed object.        *)
(***************************************************************************)
THEOREM NoCrashOnObjects ==
  ASSUME ~WordsHoldObjects
  PROVE  Spec => []CrashesOnNonObject
<1>1. SessionOK /\ MemoryOK => CrashesOnNonObject
  <2> SUFFICES ASSUME SessionOK, MemoryOK, phase = "crashed"
               PROVE  asPointer(Head(agenda)) = NoObj
    BY DEF CrashesOnNonObject
  <2>1. gcState = "fault" /\ agenda # <<>> /\ MarkFaults(Head(agenda))
    BY DEF SessionOK, PhaseOK
  <2>2. AllSound(agenda, allocated, objType) /\ agenda \in Seq(Value)
    BY <2>1 DEF MemoryOK, MarkOK, SessionOK, HeapOK, HeapTypeOK
  <2>3. 1 \in 1..Len(agenda) /\ Head(agenda) = agenda[1]
    BY <2>1, <2>2
  <2>4. SoundIn(Head(agenda), allocated, objType)
    BY <2>2, <2>3 DEF AllSound
  <2>5. QED
    BY <2>1, <2>4 DEF SoundIn, MarkFaults
<1>2. QED
  BY <1>1, MemoryInvariant, PTL

-----------------------------------------------------------------------------
(* The collection is exact *)

Encloses(C) == AllIn(stack, C) /\ \A p \in C : AllIn(holds[p], C)

(***************************************************************************)
(* Marking does not leave what the stack leads to, and what a sweep leaves *)
(* is no more than that: any set closed under references has it all.       *)
(***************************************************************************)
ExactOK ==
  /\ gcState = "mark" =>
       \A C \in SUBSET Obj : Encloses(C) =>
         AllIn(agenda, C) /\ \A p \in allocated : marked[p] => p \in C
  /\ gcState = "sweep" =>
       \A C \in SUBSET Obj : Encloses(C) => Survivors \subseteq C

LEMMA StepKeepsExact ==
  SessionOK /\ MemoryOK /\ ExactOK /\ [Next]_vars => ExactOK'
<1> SUFFICES ASSUME SessionOK, MemoryOK, ExactOK, [Next]_vars PROVE ExactOK'
  OBVIOUS
<1>1. CASE UNCHANGED vars
  BY <1>1
  DEF ExactOK, Encloses, Survivors, Passed, vars, heapVars, objects, locals,
      promptVars
<1>2. CASE Prompt \/ Parse \/ (Run /\ ~EndRun)
  <2>1. gcState = "idle"
    BY <1>2, IdleOutsideCollect
    DEF Prompt, EndOfInput, ClearStack, ReadLine, Parse, SimpleLiteral,
        StringLiteral, OpenArray, CloseArray, OpenQuote, CloseQuote,
        CompileError, Uncaught, BeginRun, Run, RunLiteral, RunDup, RunDrop,
        RunSwap, RunNull, RunArithmetic, RunConcat, RunAddItem, RunDefine
  <2>2. gcState' = gcState
    BY <1>2
    DEF Prompt, EndOfInput, ClearStack, ReadLine, Parse, SimpleLiteral,
        StringLiteral, OpenArray, CloseArray, OpenQuote, CloseQuote,
        CompileError, Uncaught, BeginRun, Run, RunLiteral, RunDup, RunDrop,
        RunSwap, RunNull, RunArithmetic, RunConcat, RunAddItem, RunDefine,
        SameObjects, NewObject, heapVars
  <2>3. QED
    BY <2>1, <2>2 DEF ExactOK
<1>3. CASE EndRun
  <2>1. PICK literals \in Orders(ScannedLiterals) :
          BeginMark(literals \o ScannedStack)
    BY <1>3 DEF EndRun
  <2>2. literals = <<>> /\ stack \in Seq(Value)
    BY <2>1, NothingScanned DEF SessionOK, PromptTypeOK
  <2>3. agenda' = stack /\ gcState' = "mark" /\ marked' = marked
        /\ allocated' = allocated /\ stack' = stack
    BY <1>3, <2>1, <2>2, ConcatEmptySeq DEF ScannedStack, BeginMark, objects, EndRun
  <2>4. \A p \in allocated : ~marked[p]
    BY <1>3, IdleOutsideCollect DEF EndRun, SessionOK, HeapOK, MarksOK
  <2>5. QED
    BY <2>3, <2>4 DEF ExactOK, Encloses
<1>4. CASE Collect /\ Fault
  BY <1>4 DEF Fault, ExactOK
<1>5. CASE Collect /\ Mark
  <2>1. PICK v, p, rest :
          v = Head(agenda) /\ p = asPointer(v) /\ rest = Tail(agenda)
    OBVIOUS
  <2>2. /\ gcState = "mark" /\ gcState' = "mark" /\ agenda # <<>>
        /\ ~MarkFaults(v)
        /\ allocated' = allocated /\ holds' = holds /\ stack' = stack
        /\ agenda \in Seq(Value) /\ holds \in [Obj -> Seq(Value)]
        /\ allocated \subseteq Obj /\ marked \in [Obj -> BOOLEAN]
    BY <1>5, <2>1
    DEF Mark, objects, Collect, SessionOK, HeapOK, HeapTypeOK
  <2>3. /\ v \in Value /\ v = agenda[1] /\ Len(agenda) \in Nat \ {0}
        /\ rest \in Seq(Value) /\ Len(rest) = Len(agenda) - 1
        /\ \A i \in 1..Len(rest) : rest[i] = agenda[i + 1]
    BY <2>1, <2>2, HeadTailProperties, EmptySeq
  <2>4. ASSUME NEW C \in SUBSET Obj, Encloses(C)
        PROVE  AllIn(agenda', C) /\ \A q \in allocated : marked'[q] => q \in C
    <3>1. AllIn(agenda, C) /\ \A q \in allocated : marked[q] => q \in C
      BY <2>2, <2>4 DEF ExactOK
    <3>2. AllIn(rest, C) /\ (p # NoObj => p \in C)
      BY <2>1, <2>3, <3>1 DEF AllIn
    <3>3. CASE MarksNow(v)
      <4>1. /\ marked' = [marked EXCEPT ![p] = TRUE]
            /\ agenda' = holds[p] \o rest
        BY <1>5, <2>1, <3>3 DEF Mark, Callees
      <4>2. p \in allocated /\ p \in Obj
        BY <2>1, <2>2, <2>3, <3>3, MarksNowIsObject DEF MarksNow
      <4>3. p \in C
        BY <3>2, <4>2, NoObjAssumption
      <4>4. AllIn(holds[p], C) /\ holds[p] \in Seq(Value)
        BY <2>2, <2>4, <4>2, <4>3 DEF Encloses
      <4>5. \A i \in 1..Len(agenda') :
              \/ \E j \in 1..Len(holds[p]) : agenda'[i] = holds[p][j]
              \/ \E j \in 1..Len(rest) : agenda'[i] = rest[j]
        <5>1. holds[p] \in Seq(Value) /\ rest \in Seq(Value)
          BY <2>3, <4>4
        <5>2. QED
          BY <4>1, <5>1, ConcatParts
      <4>6. AllIn(agenda', C)
        BY <3>2, <4>4, <4>5 DEF AllIn
      <4>7. \A q \in allocated : marked'[q] => q \in C
        <5>1. \A q \in Obj : marked'[q] <=> q = p \/ marked[q]
          BY <2>2, <4>1, <4>2
        <5>2. QED
          BY <2>2, <3>1, <4>3, <5>1
      <4>8. QED
        BY <4>6, <4>7
    <3>4. CASE ~MarksNow(v)
      <4>1. marked' = marked /\ agenda' = rest
        BY <1>5, <2>1, <3>4 DEF Mark
      <4>2. QED
        BY <3>1, <3>2, <4>1
    <3>5. QED
      BY <3>3, <3>4
  <2>5. QED
    BY <2>2, <2>4 DEF ExactOK, Encloses
<1>6. CASE Collect /\ BeginSweep
  <2>1. Survivors' = {p \in allocated : marked[p]}
    BY <1>6, SurvivorsAreMarked DEF SessionOK
  <2>2. /\ gcState = "mark" /\ gcState' = "sweep"
        /\ holds' = holds /\ stack' = stack
    BY <1>6 DEF BeginSweep, objects, Collect
  <2>3. QED
    BY <2>1, <2>2 DEF ExactOK, Encloses
<1>7. CASE Collect /\ (KeepMarked \/ FreeUnmarked \/ EndSweep)
  <2>1. /\ gcState = "sweep"
        /\ Survivors' = Survivors
        /\ Survivors \subseteq Obj
        /\ \A p \in Survivors : holds'[p] = holds[p]
    BY <1>7, SweepKeepsSurvivors
    DEF SessionOK, Survivors, HeapOK, HeapTypeOK
  <2>2. stack' = stack /\ gcState' # "mark"
    BY <1>7 DEF Collect, KeepMarked, FreeUnmarked, EndSweep
  <2>3. ASSUME NEW C \in SUBSET Obj, AllIn(stack, C),
               \A p \in C : AllIn(holds'[p], C)
        PROVE  Survivors \subseteq C
    <3>1. /\ AllIn(stack, Survivors)
          /\ \A p \in Survivors : AllIn(holds[p], Survivors)
      BY <2>1 DEF MemoryOK, SurvivorsOK
    <3>2. AllIn(stack, C \cap Survivors)
      BY <2>3, <3>1 DEF AllIn
    <3>3. \A p \in C \cap Survivors : AllIn(holds[p], C \cap Survivors)
      BY <2>1, <2>3, <3>1 DEF AllIn
    <3>4. Survivors \subseteq C \cap Survivors
      BY <2>1, <3>2, <3>3 DEF ExactOK, Encloses
    <3>5. QED
      BY <3>4
  <2>4. QED
    BY <2>1, <2>2, <2>3 DEF ExactOK, Encloses
<1>8. QED
  BY <1>1, <1>2, <1>3, <1>4, <1>5, <1>6, <1>7 DEF Next, Collect, CollectStep

LEMMA ExactInvariant ==
  ASSUME ~WordsHoldObjects
  PROVE  Spec => [](SessionOK /\ MemoryOK /\ ExactOK)
<1>1. Init => ExactOK
  BY DEF Init, HeapInit, ExactOK
<1>2. QED
  BY <1>1, MemoryInvariant, StepKeepsExact, PTL DEF Spec

\* A set closed under what the program holds encloses what the stack leads to.
LEMMA ClosedEncloses ==
  ASSUME SessionOK, MemoryOK, gcState \in {"mark", "sweep"}, NEW C \in SUBSET Obj
  PROVE  C \in ClosedSets(HeldValues) <=> Encloses(C)
<1>1. stack \in Seq(Value) /\ \A p \in C : holds[p] \in Seq(Value)
  BY DEF SessionOK, PromptTypeOK, HeapOK, HeapTypeOK
<1>2. Targets(HeldValues) = Targets(Range(stack))
  BY HeldDuringCollection
<1>3. AllIn(stack, C) <=> Targets(Range(stack)) \subseteq C
  BY <1>1, RangeIn
<1>4. \A p \in C : AllIn(holds[p], C) <=> Targets(Range(holds[p])) \subseteq C
  BY <1>1, RangeIn
<1>5. QED
  BY <1>2, <1>3, <1>4 DEF ClosedSets, Encloses

(***************************************************************************)
(* A collection leaves nothing behind that cannot be reached, the remains  *)
(* of failed lines included, and takes nothing that can (gc.cc:60-90).     *)
(***************************************************************************)
THEOREM CollectionIsExact ==
  ASSUME ~WordsHoldObjects
  PROVE  Spec => SweepIsExact
<1> DEFINE A == gcState = "sweep" /\ gcState' = "idle" =>
                  allocated' = Reachable(HeldValues)'
           I == SessionOK /\ MemoryOK /\ ExactOK
           K == Survivors \in ClosedSets(HeldValues)
<1>1. I => K
  BY SurvivorsClosed
<1>2. I /\ I' /\ K' /\ [Next]_vars => [A]_vars
  <2> SUFFICES ASSUME I, K', Next, gcState = "sweep", gcState' = "idle"
               PROVE  allocated' = Reachable(HeldValues)'
    OBVIOUS
  <2>1. phase = "collect"
    BY DEF SessionOK, PhaseOK
  <2>2. Collect
    BY <2>1
    DEF Next, Prompt, EndOfInput, ClearStack, ReadLine, Parse, SimpleLiteral,
        StringLiteral, OpenArray, CloseArray, OpenQuote, CloseQuote,
        CompileError, Uncaught, BeginRun, Run, RunLiteral, RunDup, RunDrop,
        RunSwap, RunNull, RunArithmetic, RunConcat, RunAddItem, RunDefine,
        EndRun
  <2>3. EndSweep
    BY <2>2
    DEF Collect, CollectStep, Fault, Mark, BeginSweep, KeepMarked, FreeUnmarked
  <2>4. /\ Survivors' = Survivors /\ allocated' = Survivors'
        /\ Survivors \subseteq Obj
    BY <2>3, SweepKeepsSurvivors DEF Survivors, SessionOK, HeapOK, HeapTypeOK
  <2>5. /\ holds' = holds /\ stack' = stack /\ frames' = frames
        /\ defined' = defined /\ code' = code
    BY <2>2, <2>3 DEF EndSweep, Collect
  <2>6. ClosedSets(HeldValues)' = ClosedSets(HeldValues)
    BY <2>5 DEF ClosedSets, HeldValues
  <2>7. \A C \in ClosedSets(HeldValues) : Survivors \subseteq C
    BY ClosedEncloses DEF ExactOK, ClosedSets
  <2>8. QED
    BY <2>4, <2>6, <2>7 DEF Reachable
<1>3. QED
  BY <1>1, <1>2, ExactInvariant, PTL DEF Spec, SweepIsExact

-----------------------------------------------------------------------------
(* The refinement *)

\* The abstract state, as AsMemory defines it
AbsRefs == [p \in Obj |-> IF p \in Survivors THEN Targets(Range(holds[p])) ELSE {}]

Acc == AsMemory!Accessible

LEMMA InAccessible ==
  \A q : q \in Acc <=>
    /\ q \in Obj
    /\ \A C \in SUBSET Obj :
         Targets(HeldValues) \subseteq C /\ (\A p \in C : AbsRefs[p] \subseteq C)
           => q \in C
BY DEF Acc, AsMemory!Accessible, AbsRefs

LEMMA TargetsOfItems ==
  ASSUME SessionOK, NEW p \in Obj
  PROVE  Targets(Range(holds[p])) \subseteq Obj
<1>1. holds[p] \in Seq(Value)
  BY DEF SessionOK, HeapOK, HeapTypeOK
<1>2. \A v \in Range(holds[p]) : asPointer(v) \in Obj \cup {NoObj}
  BY <1>1, LenProperties, PointerType DEF Range
<1>3. QED
  BY <1>2, TargetsAre

\* Outside a sweep the abstract heap is the one there is.
LEMMA AbsRefsAre ==
  ASSUME SessionOK, MemoryOK, gcState # "sweep"
  PROVE  /\ Survivors = allocated
         /\ AbsRefs = [p \in Obj |-> Targets(Range(holds[p]))]
<1>1. Survivors = allocated
  BY DEF Survivors
<1>2. ASSUME NEW p \in Obj, p \notin allocated
      PROVE  Targets(Range(holds[p])) = {}
  <2>1. holds[p] = <<>>
    BY <1>2 DEF MemoryOK, ItemsOK, ItemsSound
  <2>2. Range(holds[p]) = {}
    BY <2>1 DEF Range
  <2>3. QED
    BY <2>2, TargetsAre
<1>3. QED
  BY <1>1, <1>2 DEF AbsRefs

LEMMA AccessibleClosed ==
  ASSUME SessionOK, MemoryOK, gcState # "sweep"
  PROVE  /\ Acc \subseteq allocated
         /\ Targets(HeldValues) \subseteq Acc
         /\ \A p \in Acc : AllIn(holds[p], Acc)
<1>1. Survivors \in ClosedSets(HeldValues)
  BY SurvivorsClosed
<1>2. /\ Survivors = allocated
      /\ AbsRefs = [p \in Obj |-> Targets(Range(holds[p]))]
  BY AbsRefsAre
<1>3. /\ allocated \subseteq Obj
      /\ Targets(HeldValues) \subseteq allocated
      /\ \A p \in allocated : Targets(Range(holds[p])) \subseteq allocated
  BY <1>1, <1>2 DEF ClosedSets
<1>4. Acc \subseteq allocated
  BY <1>2, <1>3, InAccessible
<1>5. Targets(HeldValues) \subseteq Acc
  BY <1>3, InAccessible
<1>6. ASSUME NEW p \in Acc PROVE AllIn(holds[p], Acc)
  <2>1. p \in Obj /\ holds[p] \in Seq(Value)
    BY InAccessible DEF SessionOK, HeapOK, HeapTypeOK
  <2>2. Targets(Range(holds[p])) \subseteq Obj
    BY <2>1, TargetsOfItems
  <2>3. Targets(Range(holds[p])) \subseteq Acc
    BY <1>2, <2>1, <2>2, InAccessible
  <2>4. QED
    BY <2>1, <2>3, RangeIn
<1>7. QED
  BY <1>4, <1>5, <1>6

-----------------------------------------------------------------------------
(* What the program holds *)

FramesIn(fs, M) ==
  \A i \in 1..Len(fs) :
    /\ AllIn(fs[i].literals, M)
    /\ fs[i].kind = "array" /\ fs[i].array # NoObj => fs[i].array \in M

LEMMA ArrayPointer ==
  ASSUME NEW p \in Obj \cup {NoObj}
  PROVE  asPointer(ArrayValue(p)) = p
BY Constructed, NoPointer

LEMMA HeldParts ==
  ASSUME SessionOK
  PROVE  \A v : v \in HeldValues <=>
           \/ v \in Range(stack)
           \/ \E i \in 1..Len(frames) : v \in Range(frames[i].literals)
           \/ \E i \in 1..Len(frames) :
                frames[i].kind = "array" /\ v = ArrayValue(frames[i].array)
           \/ \E n \in defined : v \in Range(code[n])
<1>1. DOMAIN frames = 1..Len(frames)
  BY LenProperties DEF SessionOK, PromptTypeOK
<1>2. QED
  BY <1>1 DEF HeldValues

LEMMA HeldTypes ==
  ASSUME SessionOK
  PROVE  /\ stack \in Seq(Value)
         /\ \A i \in 1..Len(frames) : /\ frames[i].literals \in Seq(Value)
                                      /\ frames[i].array \in Obj \cup {NoObj}
         /\ \A n \in defined : code[n] \in Seq(Value) /\ n \in Names
<1>1. ASSUME NEW i \in 1..Len(frames)
      PROVE  /\ frames[i].literals \in Seq(Value)
             /\ frames[i].array \in Obj \cup {NoObj}
  <2>1. frames[i] \in Frame
    BY ElementOfSeq DEF SessionOK, PromptTypeOK
  <2>2. QED
    BY <2>1 DEF Frame
<1>2. QED
  BY <1>1 DEF SessionOK, PromptTypeOK

\* From the set of held objects to its parts
LEMMA PartsIn ==
  ASSUME SessionOK, NEW M, Targets(HeldValues) \subseteq M
  PROVE  AllIn(stack, M) /\ FramesIn(frames, M)
<1>1. AllIn(stack, M)
  <2>1. Targets(Range(stack)) \subseteq M
    BY HeldParts, TargetsAre
  <2>2. QED
    BY <2>1, HeldTypes, RangeIn
<1>2. ASSUME NEW i \in 1..Len(frames)
      PROVE  /\ AllIn(frames[i].literals, M)
             /\ frames[i].kind = "array" /\ frames[i].array # NoObj =>
                  frames[i].array \in M
  <2>1. Targets(Range(frames[i].literals)) \subseteq M
    BY HeldParts, TargetsAre
  <2>2. AllIn(frames[i].literals, M)
    BY <2>1, HeldTypes, RangeIn
  <2>3. ASSUME frames[i].kind = "array", frames[i].array # NoObj
        PROVE  frames[i].array \in M
    BY <2>3, HeldParts, HeldTypes, TargetsAre, ArrayPointer
  <2>4. QED
    BY <2>2, <2>3
<1>3. QED
  BY <1>1, <1>2 DEF FramesIn

\* And back
LEMMA HeldIn ==
  ASSUME SessionOK, NEW M, AllIn(stack, M), FramesIn(frames, M),
         \A n \in Names : Plain(code[n])
  PROVE  Targets(HeldValues) \subseteq M
<1> SUFFICES ASSUME NEW v \in HeldValues, asPointer(v) # NoObj
             PROVE  asPointer(v) \in M
  BY TargetsAre
<1>1. ASSUME NEW s \in Seq(Value), AllIn(s, M), v \in Range(s)
      PROVE  asPointer(v) \in M
  BY <1>1, LenProperties DEF Range, AllIn
<1>2. CASE v \in Range(stack)
  BY <1>1, <1>2, HeldTypes
<1>3. ASSUME NEW i \in 1..Len(frames), v \in Range(frames[i].literals)
      PROVE  asPointer(v) \in M
  BY <1>1, <1>3, HeldTypes DEF FramesIn
<1>4. ASSUME NEW i \in 1..Len(frames), frames[i].kind = "array",
             v = ArrayValue(frames[i].array)
      PROVE  asPointer(v) \in M
  BY <1>4, HeldTypes, ArrayPointer DEF FramesIn
<1>5. ASSUME NEW n \in defined, v \in Range(code[n])
      PROVE  asPointer(v) \in M
  <2>1. n \in Names /\ code[n] \in Seq(Value) /\ Plain(code[n])
    BY HeldTypes
  <2>2. QED
    BY <1>5, <2>1, LenProperties DEF Range, Plain
<1>6. QED
  BY <1>2, <1>3, <1>4, <1>5, HeldParts

\* The same as one formula, to be used of the state after a step
HeldWithin ==
  \A M : /\ AllIn(stack, M)
         /\ FramesIn(frames, M)
         /\ \A n \in Names : Plain(code[n])
         => Targets(HeldValues) \subseteq M

LEMMA SessionHeldWithin ==
  SessionOK => HeldWithin
BY HeldIn DEF HeldWithin

HeldLinks == \A p \in Obj : Targets(Range(holds[p])) \subseteq Obj

PlainHeap ==
  gcState # "sweep" =>
    /\ Survivors = allocated
    /\ AbsRefs = [p \in Obj |-> Targets(Range(holds[p]))]

LEMMA SessionHeldLinks ==
  SessionOK => HeldLinks
BY TargetsOfItems DEF HeldLinks

LEMMA MemoryPlainHeap ==
  SessionOK /\ MemoryOK => PlainHeap
BY AbsRefsAre DEF PlainHeap

\* What is used of the state after a step
After == SessionOK /\ MemoryOK /\ HeldWithin /\ HeldLinks /\ PlainHeap

-----------------------------------------------------------------------------
(* The program's steps *)

\* Objects the program can get at come to hold more that it can get at.
PassedOn(M) ==
  \A p \in Obj : \/ holds'[p] = holds[p]
                 \/ /\ p \in M
                    /\ Targets(Range(holds'[p])) \subseteq
                         Targets(Range(holds[p])) \cup M

\* The items h, and v in one of the objects M
Added(h, v, M) ==
  \A p \in Obj : \/ holds'[p] = h[p]
                 \/ p \in M /\ holds'[p] = Append(h[p], v)

\* The items of the objects there were, and those of a new one
Prepared(h, M) ==
  \A p \in Obj : h[p] = holds[p] \/ (p \in M /\ AllIn(h[p], M))

LEMMA AppendIn ==
  ASSUME NEW M, NEW s \in Seq(Value), NEW v \in Value, AllIn(s, M),
         asPointer(v) # NoObj => asPointer(v) \in M
  PROVE  AllIn(Append(s, v), M)
BY DEF AllIn

LEMMA AddValueIn ==
  ASSUME NEW M, NEW v \in Value, NEW fs \in Seq(Frame), fs # <<>>,
         NEW h \in [Obj -> Seq(Value)], AddValue(v, fs, h),
         asPointer(v) # NoObj => asPointer(v) \in M, FramesIn(fs, M)
  PROVE  /\ FramesIn(frames', M)
         /\ Added(h, v, M)
<1>1. /\ Len(frames') = Len(fs)
      /\ \A i \in 1..Len(fs) :
           /\ frames'[i].kind = fs[i].kind
           /\ frames'[i].array = fs[i].array
           /\ frames'[i].literals \in
                {fs[i].literals, Append(fs[i].literals, v)}
      /\ \A p \in Obj :
           \/ holds'[p] = h[p]
           \/ /\ holds'[p] = Append(h[p], v)
              /\ \E i \in 1..Len(fs) : fs[i].kind = "array" /\ fs[i].array = p
  BY AddValueAdds
<1>2. ASSUME NEW i \in 1..Len(fs)
      PROVE  AllIn(frames'[i].literals, M)
  <2>1. fs[i].literals \in Seq(Value)
    <3>1. fs[i] \in Frame
      BY ElementOfSeq
    <3>2. QED
      BY <3>1 DEF Frame
  <2>2. AllIn(fs[i].literals, M)
    BY DEF FramesIn
  <2>3. QED
    BY <1>1, <2>1, <2>2, AppendIn
<1>3. FramesIn(frames', M)
  BY <1>1, <1>2 DEF FramesIn
<1>4. QED
  BY <1>1, <1>3, NoObjAssumption DEF FramesIn, Added

(***************************************************************************)
(* A step of the program that makes the objects N and otherwise passes on  *)
(* what it could get at is a Mutate of the abstract heap.                  *)
(***************************************************************************)
LEMMA Mutates ==
  ASSUME SessionOK, MemoryOK, After', gcState = "idle", gcState' # "sweep",
         NEW N \in {{}} \cup {{p} : p \in Obj \ allocated},
         allocated' = allocated \cup N,
         AllIn(stack', Acc \cup N), FramesIn(frames', Acc \cup N),
         PassedOn(Acc \cup N)
  PROVE  AsMemory!Mutate
<1>1. /\ Survivors = allocated
      /\ AbsRefs = [p \in Obj |-> Targets(Range(holds[p]))]
  BY AbsRefsAre
<1>2. /\ Survivors' = allocated'
      /\ AbsRefs' = [p \in Obj |-> Targets(Range(holds'[p]))]
  BY DEF After, PlainHeap
<1>3. Targets(HeldValues)' \subseteq Acc \cup N
  <2>1. \A n \in Names : Plain(code'[n])
    BY DEF After, MemoryOK, RootsOK
  <2>2. HeldWithin'
    BY DEF After
  <2>3. QED
    BY <2>1, <2>2 DEF HeldWithin
<1>4. AbsRefs' \in [Obj -> SUBSET Obj]
  BY <1>2 DEF After, HeldLinks
<1>5. \A p \in Obj : AbsRefs'[p] # AbsRefs[p] => p \in Acc \cup N
  BY <1>1, <1>2 DEF PassedOn
<1>6. \A p \in Obj : AbsRefs'[p] \subseteq AbsRefs[p] \cup (Acc \cup N)
  BY <1>1, <1>2 DEF PassedOn
<1>7. Survivors' = Survivors \cup N
  BY <1>1, <1>2
<1>8. N \in {{}} \cup {{p} : p \in Obj \ Survivors}
  BY <1>1
<1>9. QED
  BY <1>3, <1>4, <1>5, <1>6, <1>7, <1>8
  DEF AsMemory!Mutate, Acc, AbsRefs

LEMMA InMore ==
  ASSUME NEW S, NEW T, S \subseteq T
  PROVE  /\ \A s : AllIn(s, S) => AllIn(s, T)
         /\ \A fs : FramesIn(fs, S) => FramesIn(fs, T)
BY DEF AllIn, FramesIn

LEMMA EmptyIn ==
  /\ \A S : AllIn(<<>>, S) /\ FramesIn(<<>>, S)
  /\ \A S : FramesIn(<<Call("line", NoObj)>>, S)
BY DEF AllIn, FramesIn, Call

\* How the condition of Mutates on the items comes about
LEMMA ItemsMutate ==
  ASSUME NEW M, NEW v \in Value, asPointer(v) # NoObj => asPointer(v) \in M,
         holds \in [Obj -> Seq(Value)], NEW h \in [Obj -> Seq(Value)],
         Prepared(h, M),
         Added(h, v, M)
  PROVE  PassedOn(M)
<1> SUFFICES ASSUME NEW p \in Obj, holds'[p] # holds[p]
             PROVE  /\ p \in M
                    /\ Targets(Range(holds'[p])) \subseteq
                         Targets(Range(holds[p])) \cup M
  BY DEF PassedOn
<1> DEFINE T == Targets(Range(holds[p])) \cup M
<1>1. p \in M
  BY DEF Prepared, Added
<1>2. h[p] \in Seq(Value) /\ holds[p] \in Seq(Value) /\ Append(h[p], v) \in Seq(Value)
  OBVIOUS
<1>3. AllIn(h[p], T)
  <2>1. CASE h[p] = holds[p]
    <3>1. Targets(Range(h[p])) \subseteq T
      BY <2>1
    <3> HIDE DEF T
    <3>2. QED
      BY <1>2, <3>1, RangeIn
  <2>2. CASE AllIn(h[p], M)
    BY <2>2 DEF AllIn
  <2>3. QED
    BY <2>1, <2>2 DEF Prepared
<1>4. asPointer(v) # NoObj => asPointer(v) \in T
  OBVIOUS
<1> HIDE DEF T
<1>5. AllIn(Append(h[p], v), T)
  BY <1>2, <1>3, <1>4, AppendIn
<1>6. holds'[p] \in Seq(Value) /\ AllIn(holds'[p], T)
  BY <1>2, <1>3, <1>5 DEF Added
<1>7. Targets(Range(holds'[p])) \subseteq T
  BY <1>6, RangeIn
<1>8. QED
  BY <1>1, <1>7 DEF T

LEMMA IdleFacts ==
  ASSUME SessionOK, MemoryOK, gcState = "idle"
  PROVE  /\ Acc \subseteq allocated /\ allocated \subseteq Obj
         /\ AllIn(stack, Acc)
         /\ FramesIn(frames, Acc)
         /\ \A p \in Acc : AllIn(holds[p], Acc)
         /\ stack \in Seq(Value) /\ frames \in Seq(Frame)
         /\ holds \in [Obj -> Seq(Value)]
         /\ {} \in {{}} \cup {{p} : p \in Obj \ allocated}
         /\ Acc \cup {} = Acc
BY AccessibleClosed, PartsIn DEF SessionOK, PromptTypeOK, HeapOK, HeapTypeOK

LEMMA NewFacts ==
  ASSUME SessionOK, MemoryOK, gcState = "idle", NEW p \in Obj, NEW t,
         NewObject(p, t)
  PROVE  /\ {p} \in {{}} \cup {{q} : q \in Obj \ allocated}
         /\ allocated' = allocated \cup {p}
         /\ gcState' # "sweep"
         /\ AllIn(stack, Acc \cup {p})
         /\ FramesIn(frames, Acc \cup {p})
         /\ \A q \in Acc : AllIn(holds[q], Acc \cup {p})
BY IdleFacts, InMore DEF NewObject

\* Entering and leaving a call of the parser
LEMMA FrameOnTopIn ==
  ASSUME NEW M, frames \in Seq(Frame), FramesIn(frames, M),
         NEW k \in {"quote", "array"}, NEW p \in Obj \cup {NoObj},
         k = "array" => p \in M
  PROVE  FramesIn(Append(frames, Call(k, p)), M)
<1> DEFINE fs == Append(frames, Call(k, p))
<1>1. /\ Len(fs) = Len(frames) + 1
      /\ \A i \in 1..Len(frames) : fs[i] = frames[i]
      /\ fs[Len(frames) + 1] = Call(k, p)
  BY PushedFrame
<1>2. /\ AllIn(Call(k, p).literals, M)
      /\ Call(k, p).kind = k /\ Call(k, p).array = p
  BY EmptyIn DEF Call
<1>3. Len(frames) \in Nat
  OBVIOUS
<1> HIDE DEF fs
<1>4. FramesIn(fs, M)
  BY <1>1, <1>2, <1>3 DEF FramesIn
<1>5. QED
  BY <1>4 DEF fs

LEMMA CallersIn ==
  ASSUME NEW M, PromptTypeOK, FramesIn(frames, M),
         frames # <<>>, frames[1].kind = "line", Top.kind # "line"
  PROVE  /\ Callers \in Seq(Frame)
         /\ Callers # <<>>
         /\ FramesIn(Callers, M)
<1>1. /\ Callers \in Seq(Frame)
      /\ Callers # <<>>
      /\ Len(Callers) = Len(frames) - 1
      /\ \A i \in 1..Len(Callers) : Callers[i] = frames[i]
  BY CallersAreFrames
<1>2. Len(frames) \in Nat
  BY DEF PromptTypeOK
<1>3. FramesIn(Callers, M)
  BY <1>1, <1>2 DEF FramesIn
<1>4. QED
  BY <1>1, <1>3

\* Nothing is prepared if nothing is new, and nothing passed on if no items
\* change.
LEMMA NothingPassedOn ==
  \A M : Prepared(holds, M) /\ (holds' = holds => PassedOn(M))
BY DEF Prepared, PassedOn

LEMMA PromptRefines ==
  ASSUME SessionOK, MemoryOK, After', Prompt
  PROVE  AsMemory!Mutate
<1>1. gcState = "idle"
  BY IdleOutsideCollect DEF Prompt, EndOfInput, ClearStack, ReadLine
<1>2. gcState' # "sweep" /\ allocated' = allocated /\ holds' = holds
  BY <1>1
  DEF Prompt, EndOfInput, ClearStack, ReadLine, heapVars, objects
<1>3. stack' \in {stack, <<>>} /\ frames' \in {frames, <<Call("line", NoObj)>>}
  BY DEF Prompt, EndOfInput, ClearStack, ReadLine
<1>4. AllIn(stack', Acc) /\ FramesIn(frames', Acc)
  BY <1>1, <1>3, IdleFacts, EmptyIn
<1>5. allocated' = allocated \cup {}
  BY <1>2
<1>6. QED
  BY <1>1, <1>2, <1>4, <1>5, IdleFacts, Mutates, NothingPassedOn

LEMMA ParseRefines ==
  ASSUME SessionOK, MemoryOK, After', Parse
  PROVE  AsMemory!Mutate
<1>1. /\ phase = "parse" /\ gcState = "idle"
      /\ frames # <<>> /\ frames[1].kind = "line"
      /\ stack' = stack
  BY IdleOutsideCollect
  DEF Parse, SimpleLiteral, StringLiteral, OpenArray, CloseArray, OpenQuote,
      CloseQuote, CompileError, Uncaught, BeginRun, SessionOK, PhaseOK
<1>2. /\ Acc \subseteq allocated /\ allocated \subseteq Obj
      /\ AllIn(stack, Acc)
      /\ FramesIn(frames, Acc)
      /\ frames \in Seq(Frame)
      /\ holds \in [Obj -> Seq(Value)]
      /\ {} \in {{}} \cup {{p} : p \in Obj \ allocated}
      /\ Acc \cup {} = Acc
  BY <1>1, IdleFacts
<1>3. ASSUME allocated' = allocated, gcState' = gcState,
             FramesIn(frames', Acc),
             PassedOn(Acc)
      PROVE  AsMemory!Mutate
  <2>1. /\ allocated' = allocated \cup {} /\ gcState' # "sweep"
        /\ AllIn(stack', Acc \cup {}) /\ FramesIn(frames', Acc \cup {})
    BY <1>1, <1>2, <1>3
  <2>2. QED
    BY <1>1, <1>2, <1>3, <2>1, Mutates
<1>4. CASE SimpleLiteral
  <2>1. PICK v \in {Double(0, t) : t \in Doubles} \cup {InlineString} :
          AddValue(v, frames, holds)
    BY <1>4 DEF SimpleLiteral
  <2>2. v \in Value /\ asPointer(v) = NoObj
    BY <2>1, NoPointer, ReplAssumption
  <2>3. /\ FramesIn(frames', Acc)
        /\ Added(holds, v, Acc)
    BY <1>1, <1>2, <2>1, <2>2, AddValueIn
  <2>4. PassedOn(Acc)
    BY <1>2, <2>2, <2>3, ItemsMutate, NothingPassedOn
  <2>5. allocated' = allocated /\ gcState' = gcState
    BY <1>4 DEF SimpleLiteral, SameObjects
  <2>6. QED
    BY <1>3, <2>3, <2>4, <2>5
<1>5. CASE StringLiteral
  <2>1. PICK p \in Obj :
          /\ NewObject(p, "String")
          /\ AddValue(StringValue(p), frames, [holds EXCEPT ![p] = <<>>])
    BY <1>5 DEF StringLiteral
  <2> DEFINE h == [holds EXCEPT ![p] = <<>>]
             M == Acc \cup {p}
  <2>2. /\ {p} \in {{}} \cup {{q} : q \in Obj \ allocated}
        /\ allocated' = allocated \cup {p} /\ gcState' # "sweep"
        /\ AllIn(stack', M) /\ FramesIn(frames, M)
    BY <1>1, <2>1, NewFacts
  <2>3. /\ h \in [Obj -> Seq(Value)]
        /\ Prepared(h, M)
    BY <1>2, EmptyIn DEF Prepared
  <2>4. PICK v \in Value : v = StringValue(p) /\ asPointer(v) \in M
    BY Constructed
  <2>5. AddValue(v, frames, h)
    BY <2>1, <2>4
  <2> HIDE DEF h, M
  <2>6. /\ FramesIn(frames', M)
        /\ Added(h, v, M)
    BY <1>1, <1>2, <2>2, <2>3, <2>4, <2>5, AddValueIn
  <2>7. PassedOn(M)
    BY <1>2, <2>3, <2>4, <2>6, ItemsMutate
  <2>8. QED
    BY <1>1, <2>2, <2>6, <2>7, Mutates DEF M
<1>6. CASE OpenArray
  <2>1. PICK p \in Obj :
          /\ NewObject(p, "Array")
          /\ holds' = [holds EXCEPT ![p] = <<>>]
          /\ frames' = Append(frames, Call("array", p))
    BY <1>6 DEF OpenArray
  <2> DEFINE M == Acc \cup {p}
  <2>2. /\ {p} \in {{}} \cup {{q} : q \in Obj \ allocated}
        /\ allocated' = allocated \cup {p} /\ gcState' # "sweep"
        /\ AllIn(stack', M) /\ FramesIn(frames, M)
    BY <1>1, <2>1, NewFacts
  <2>3. FramesIn(frames', M)
    BY <1>2, <2>1, <2>2, FrameOnTopIn
  <2>4. PassedOn(M)
    <3>1. Range(<<>>) = {} /\ Targets({}) = {}
      BY DEF Range, Targets
    <3>2. \A q \in Obj : q # p => holds'[q] = holds[q]
      BY <1>2, <2>1
    <3>3. holds'[p] = <<>>
      BY <1>2, <2>1
    <3>4. QED
      BY <3>1, <3>2, <3>3 DEF PassedOn
  <2>5. QED
    BY <1>1, <2>2, <2>3, <2>4, Mutates
<1>7. CASE CloseArray
  <2>1. /\ Callers \in Seq(Frame) /\ Callers # <<>>
        /\ FramesIn(Callers, Acc)
        /\ Top.kind = "array"
    <3>1. Top.kind = "array"
      BY <1>7 DEF CloseArray
    <3>2. QED
      BY <1>1, <1>2, <3>1, CallersIn DEF SessionOK
  <2>2. Len(frames) \in 1..Len(frames) /\ Top.array \in Obj \cup {NoObj}
    BY <1>1, <1>2, TopIsFrame DEF Top
  <2>3. /\ asPointer(ArrayValue(Top.array)) # NoObj =>
             asPointer(ArrayValue(Top.array)) \in Acc
    BY <1>2, <2>1, <2>2, ArrayPointer DEF FramesIn, Top
  <2>4. ArrayValue(Top.array) \in Value
    <3>1. setPointer(Top.array) \in Value
      BY <2>2 DEF setPointer, Value
    <3>2. QED
      BY <3>1, WithTags DEF ArrayValue, kArrayTag
  <2>5. AddValue(ArrayValue(Top.array), Callers, holds)
    BY <1>7 DEF CloseArray
  <2>6. /\ FramesIn(frames', Acc)
        /\ \E v \in Value : /\ asPointer(v) # NoObj => asPointer(v) \in Acc
                            /\ Added(holds, v, Acc)
    <3> DEFINE w == ArrayValue(Top.array)
               fs == Callers
    <3>1. /\ w \in Value /\ (asPointer(w) # NoObj => asPointer(w) \in Acc)
          /\ fs \in Seq(Frame) /\ fs # <<>> /\ FramesIn(fs, Acc)
          /\ AddValue(w, fs, holds)
      BY <2>1, <2>3, <2>4, <2>5
    <3> HIDE DEF w, fs
    <3>2. FramesIn(frames', Acc) /\ Added(holds, w, Acc)
      BY <1>2, <3>1, AddValueIn
    <3>3. QED
      BY <3>1, <3>2
  <2>7. PassedOn(Acc)
    <3>1. PICK v \in Value : /\ asPointer(v) # NoObj => asPointer(v) \in Acc
                            /\ Added(holds, v, Acc)
      BY <2>6
    <3>2. Prepared(holds, Acc)
      BY NothingPassedOn
    <3>3. QED
      BY <1>2, <3>1, <3>2, ItemsMutate
  <2>8. allocated' = allocated /\ gcState' = gcState
    BY <1>7 DEF CloseArray, SameObjects
  <2>9. QED
    BY <1>3, <2>6, <2>7, <2>8
<1>8. CASE OpenQuote
  <2>1. FramesIn(frames', Acc)
    BY <1>2, <1>8, FrameOnTopIn DEF OpenQuote
  <2>2. allocated' = allocated /\ gcState' = gcState /\ holds' = holds
    BY <1>8 DEF OpenQuote, heapVars, objects
  <2>3. QED
    BY <1>3, <2>1, <2>2, NothingPassedOn
<1>9. CASE CloseQuote
  <2>1. PICK p \in Obj :
          /\ NewObject(p, "Quote")
          /\ AddValue(QuoteValue(p), Callers,
                      [holds EXCEPT ![p] = Top.literals])
    BY <1>9 DEF CloseQuote
  <2> DEFINE h == [holds EXCEPT ![p] = Top.literals]
             M == Acc \cup {p}
  <2>2. /\ {p} \in {{}} \cup {{q} : q \in Obj \ allocated}
        /\ allocated' = allocated \cup {p} /\ gcState' # "sweep"
        /\ AllIn(stack', M) /\ FramesIn(frames, M)
    BY <1>1, <2>1, NewFacts
  <2>3. /\ Callers \in Seq(Frame) /\ Callers # <<>>
        /\ FramesIn(Callers, M)
    <3>1. Top.kind = "quote"
      BY <1>9 DEF CloseQuote
    <3> HIDE DEF M
    <3>2. QED
      BY <1>1, <2>2, <3>1, CallersIn DEF SessionOK
  <2>4. Top.literals \in Seq(Value) /\ AllIn(Top.literals, M)
    <3>1. Len(frames) \in 1..Len(frames) /\ Top.literals \in Seq(Value)
      BY <1>1, <1>2, TopIsFrame DEF Top
    <3> HIDE DEF M
    <3>2. QED
      BY <2>2, <3>1 DEF FramesIn, Top
  <2>5. /\ h \in [Obj -> Seq(Value)]
        /\ \A q \in Obj : h[q] = IF q = p THEN Top.literals ELSE holds[q]
    BY <1>2, <2>4
  <2>6. Prepared(h, M)
    BY <2>4, <2>5 DEF Prepared
  <2>7. PICK v \in Value : v = QuoteValue(p) /\ asPointer(v) \in M
    BY Constructed
  <2>8. AddValue(v, Callers, h)
    BY <2>1, <2>7
  <2> HIDE DEF h, M
  <2>9. /\ FramesIn(frames', M)
        /\ Added(h, v, M)
    BY <2>3, <2>5, <2>7, <2>8, AddValueIn
  <2>10. PassedOn(M)
    BY <1>2, <2>5, <2>6, <2>7, <2>9, ItemsMutate
  <2>11. QED
    BY <1>1, <2>2, <2>9, <2>10, Mutates DEF M
<1>10. CASE CompileError \/ Uncaught \/ BeginRun
  <2>1. /\ frames' \in {frames, <<>>}
        /\ allocated' = allocated /\ gcState' = gcState /\ holds' = holds
    BY <1>10 DEF CompileError, Uncaught, BeginRun, heapVars, objects
  <2>2. FramesIn(frames', Acc)
    BY <1>2, <2>1, EmptyIn
  <2>3. QED
    BY <1>3, <2>1, <2>2, NothingPassedOn
<1>11. QED
  BY <1>4, <1>5, <1>6, <1>7, <1>8, <1>9, <1>10 DEF Parse

LEMMA OperandsIn ==
  ASSUME NEW M, stack \in Seq(Value), AllIn(stack, M), Len(stack) >= 2
  PROVE  /\ Pop(2) \in Seq(Value)
         /\ AllIn(Pop(2), M)
         /\ \A n \in 0..1 : /\ Peek(n) \in Value
                            /\ asPointer(Peek(n)) # NoObj => asPointer(Peek(n)) \in M
<1>1. AllIn(Pop(2), M) /\ Pop(2) \in Seq(Value)
  BY PopKeepsBottom DEF AllIn
<1>2. ASSUME NEW n \in 0..1
      PROVE  /\ Peek(n) \in Value
             /\ asPointer(Peek(n)) # NoObj => asPointer(Peek(n)) \in M
  BY PeekIsOnStack DEF AllIn, Peek
<1>3. QED
  BY <1>1, <1>2

LEMMA NewItemsPassedOn ==
  ASSUME NEW M, NEW p \in Obj, p \in M, holds \in [Obj -> Seq(Value)],
         NEW s \in Seq(Value), AllIn(s, M), holds' = [holds EXCEPT ![p] = s]
  PROVE  PassedOn(M)
<1>1. \A q \in Obj : q # p => holds'[q] = holds[q]
  OBVIOUS
<1>2. holds'[p] = s
  OBVIOUS
<1>3. Targets(Range(s)) \subseteq M
  BY RangeIn
<1>4. QED
  BY <1>1, <1>2, <1>3 DEF PassedOn

LEMMA RunRefines ==
  ASSUME SessionOK, MemoryOK, After', Run
  PROVE  AsMemory!Mutate
<1>1. /\ phase = "run" /\ gcState = "idle"
      /\ frames # <<>>
      /\ frames' \in {frames, <<>>}
      /\ defined \subseteq Names
  BY IdleOutsideCollect
  DEF Run, RunLiteral, RunDup, RunDrop, RunSwap, RunNull, RunArithmetic,
      RunConcat, RunAddItem, RunDefine, EndRun, SessionOK, PhaseOK,
      PromptTypeOK
<1>2. /\ Acc \subseteq allocated /\ allocated \subseteq Obj
      /\ AllIn(stack, Acc)
      /\ FramesIn(frames, Acc)
      /\ \A p \in Acc : AllIn(holds[p], Acc)
      /\ stack \in Seq(Value)
      /\ holds \in [Obj -> Seq(Value)]
      /\ {} \in {{}} \cup {{p} : p \in Obj \ allocated}
      /\ Acc \cup {} = Acc
  BY <1>1, IdleFacts
<1>3. ASSUME allocated' = allocated, gcState' # "sweep", holds' = holds,
             AllIn(stack', Acc)
      PROVE  AsMemory!Mutate
  <2>1. FramesIn(frames', Acc) /\ PassedOn(Acc)
    BY <1>1, <1>2, <1>3, EmptyIn, NothingPassedOn
  <2>2. /\ allocated' = allocated \cup {}
        /\ AllIn(stack', Acc \cup {}) /\ FramesIn(frames', Acc \cup {})
        /\ PassedOn(Acc \cup {})
    BY <1>2, <1>3, <2>1
  <2>3. QED
    BY <1>1, <1>2, <1>3, <2>2, Mutates
<1>4. ASSUME UNCHANGED heapVars, AllIn(stack', Acc)
      PROVE  AsMemory!Mutate
  BY <1>1, <1>3, <1>4 DEF heapVars, objects
<1>5. ASSUME NEW p \in Obj, NEW t, NewObject(p, t),
             AllIn(stack', Acc \cup {p}), PassedOn(Acc \cup {p})
      PROVE  AsMemory!Mutate
  <2>1. /\ {p} \in {{}} \cup {{q} : q \in Obj \ allocated}
        /\ allocated' = allocated \cup {p} /\ gcState' # "sweep"
        /\ FramesIn(frames, Acc \cup {p})
    BY <1>1, <1>5, NewFacts
  <2>2. FramesIn(frames', Acc \cup {p})
    BY <1>1, <2>1, EmptyIn
  <2>3. QED
    BY <1>1, <1>5, <2>1, <2>2, Mutates
<1>6. CASE RunLiteral
  <2>1. PICK v \in RunLiterals : stack' = Append(stack, v)
    BY <1>6 DEF RunLiteral
  <2>2. /\ v \in Value
        /\ \/ \E i \in 1..Len(frames[1].literals) : v = frames[1].literals[i]
           \/ \E n \in defined : \E i \in 1..Len(code[n]) : v = code[n][i]
           \/ \E p \in Obj : /\ \E j \in 1..Len(stack) : asPointer(stack[j]) = p
                             /\ \E i \in 1..Len(holds[p]) : v = holds[p][i]
    BY <1>1, <2>1, RunLiteralsAreValues DEF SessionOK, HeapOK
  <2>3. asPointer(v) # NoObj => asPointer(v) \in Acc
    <3>1. 1 \in 1..Len(frames)
      BY <1>1, EmptySeq DEF SessionOK, PromptTypeOK
    <3>2. ASSUME \E i \in 1..Len(frames[1].literals) : v = frames[1].literals[i],
                 asPointer(v) # NoObj
          PROVE  asPointer(v) \in Acc
      BY <1>2, <3>1, <3>2 DEF FramesIn, AllIn
    <3>3. ASSUME NEW n \in defined, \E i \in 1..Len(code[n]) : v = code[n][i]
          PROVE  asPointer(v) = NoObj
      BY <1>1, <3>3 DEF Plain, MemoryOK, RootsOK
    <3>4. ASSUME NEW p \in Obj, \E j \in 1..Len(stack) : asPointer(stack[j]) = p,
                 \E i \in 1..Len(holds[p]) : v = holds[p][i],
                 asPointer(v) # NoObj
          PROVE  asPointer(v) \in Acc
      <4>1. p \in Acc
        BY <1>2, <3>4, NoObjAssumption DEF AllIn
      <4>2. QED
        BY <1>2, <3>4, <4>1 DEF AllIn
    <3>5. QED
      BY <2>2, <3>2, <3>3, <3>4
  <2>4. AllIn(stack', Acc)
    BY <1>2, <2>1, <2>2, <2>3, AppendIn
  <2>5. QED
    BY <1>4, <1>6, <2>4 DEF RunLiteral
<1>7. CASE RunDup
  <2>1. Len(stack) > 0
    BY <1>2, <1>7, ReplAssumption DEF RunDup
  <2>2. Peek(0) \in Value /\ (asPointer(Peek(0)) # NoObj => asPointer(Peek(0)) \in Acc)
    BY <1>2, <2>1, PeekIsOnStack DEF AllIn, Peek
  <2>3. AllIn(stack', Acc)
    BY <1>2, <1>7, <2>2, AppendIn DEF RunDup
  <2>4. QED
    BY <1>4, <1>7, <2>3 DEF RunDup
<1>8. CASE RunDrop
  <2>1. Len(stack) >= 1
    BY <1>2, <1>8, EmptySeq DEF RunDrop
  <2>2. AllIn(stack', Acc)
    BY <1>2, <1>8, <2>1, PopKeepsBottom DEF RunDrop, AllIn
  <2>3. QED
    BY <1>4, <1>8, <2>2 DEF RunDrop
<1>9. CASE RunSwap
  <2>1. Len(stack) >= 2 /\ stack' = Pop(2) \o <<Peek(0), Peek(1)>>
    BY <1>9 DEF RunSwap
  <2>2. /\ Pop(2) \in Seq(Value) /\ AllIn(Pop(2), Acc)
        /\ Peek(0) \in Value /\ Peek(1) \in Value
        /\ asPointer(Peek(0)) # NoObj => asPointer(Peek(0)) \in Acc
        /\ asPointer(Peek(1)) # NoObj => asPointer(Peek(1)) \in Acc
    BY <1>2, <2>1, OperandsIn
  <2>3. ASSUME NEW s \in Seq(Value), NEW v \in Value, NEW w \in Value
        PROVE  s \o <<v, w>> = Append(Append(s, v), w)
    OBVIOUS
  <2>4. /\ Append(Pop(2), Peek(0)) \in Seq(Value)
        /\ AllIn(Append(Pop(2), Peek(0)), Acc)
    BY <2>2, AppendIn
  <2>5. AllIn(Append(Append(Pop(2), Peek(0)), Peek(1)), Acc)
    BY <2>2, <2>4, AppendIn
  <2>6. AllIn(stack', Acc)
    BY <2>1, <2>2, <2>3, <2>5
  <2>7. QED
    BY <1>4, <1>9, <2>6 DEF RunSwap
<1>10. CASE RunNull
  <2>1. AllIn(stack', Acc)
    BY <1>2, <1>10, NoPointer, AppendIn DEF RunNull
  <2>2. QED
    BY <1>4, <1>10, <2>1 DEF RunNull
<1>11. CASE RunArithmetic
  <2>1. Pop(2) \in Seq(Value) /\ AllIn(Pop(2), Acc)
    BY <1>2, <1>11, OperandsIn DEF RunArithmetic
  <2>2. PICK v \in Value : stack' = Append(Pop(2), v) /\ asPointer(v) = NoObj
    <3>1. \A t \in Doubles :
            Double(0, t) \in Value /\ asPointer(Double(0, t)) = NoObj
      BY NoPointer, ReplAssumption
    <3>2. \/ \E t \in Doubles : stack' = Append(Pop(2), Double(0, t))
          \/ stack' = Append(Pop(2), NullValue)
      BY <1>11 DEF RunArithmetic
    <3>3. QED
      BY <3>1, <3>2, NoPointer
  <2>3. AllIn(stack', Acc)
    BY <2>1, <2>2, AppendIn
  <2>4. QED
    BY <1>4, <1>11, <2>3 DEF RunArithmetic
<1>12. CASE RunConcat
  <2>1. Len(stack) >= 2
    BY <1>12 DEF RunConcat
  <2>2. CASE /\ \E i \in 0..1 : stack' = Append(Pop(2), Peek(1 - i))
             /\ UNCHANGED heapVars
    <3>1. PICK n \in 0..1 : stack' = Append(Pop(2), Peek(n))
      <4>1. PICK i \in 0..1 : stack' = Append(Pop(2), Peek(1 - i))
        BY <2>2
      <4>2. 1 - i \in 0..1
        OBVIOUS
      <4>3. QED
        BY <4>1, <4>2
    <3>2. AllIn(stack', Acc)
      BY <1>2, <2>1, <3>1, OperandsIn, AppendIn
    <3>3. QED
      BY <1>4, <2>2, <3>2
  <2>3. ASSUME NEW p \in Obj, NewObject(p, "String"),
               holds' = [holds EXCEPT ![p] = <<>>],
               stack' = Append(Pop(2), StringValue(p))
        PROVE  AsMemory!Mutate
    <3> DEFINE M == Acc \cup {p}
    <3>1. AllIn(stack, M) /\ p \in M
      BY <1>1, <2>3, NewFacts
    <3>2. StringValue(p) \in Value /\ asPointer(StringValue(p)) \in M
      BY Constructed
    <3>3. <<>> \in Seq(Value) /\ AllIn(<<>>, M)
      BY EmptyIn
    <3> HIDE DEF M
    <3>4. AllIn(stack', M)
      BY <1>2, <2>1, <2>3, <3>1, <3>2, OperandsIn, AppendIn
    <3>5. PassedOn(M)
      BY <1>2, <2>3, <3>1, <3>3, NewItemsPassedOn
    <3>6. QED
      BY <1>5, <2>3, <3>4, <3>5 DEF M
  <2>4. QED
    BY <1>12, <2>2, <2>3 DEF RunConcat
<1>13. CASE RunAddItem
  <2>1. Len(stack) >= 2
    BY <1>13 DEF RunAddItem
  <2>2. PICK p \in Obj :
          /\ NewObject(p, "Array")
          /\ holds' = [holds EXCEPT ![p] = Append(holds[asPointer(Peek(1))], Peek(0))]
          /\ stack' = Append(Pop(2), ArrayValue(p))
    BY <1>13 DEF RunAddItem
  <2> DEFINE M == Acc \cup {p}
  <2>3. /\ AllIn(stack, M) /\ p \in M
        /\ \A q \in Acc : AllIn(holds[q], M)
    BY <1>1, <2>2, NewFacts
  <2>4. ArrayValue(p) \in Value /\ asPointer(ArrayValue(p)) \in M
    BY Constructed
  <2> HIDE DEF M
  <2>5. /\ Pop(2) \in Seq(Value) /\ AllIn(Pop(2), M)
        /\ Peek(0) \in Value /\ (asPointer(Peek(0)) # NoObj => asPointer(Peek(0)) \in M)
    BY <1>2, <2>1, <2>3, OperandsIn
  <2>6. asPointer(Peek(1)) \in Acc
    BY <1>2, <1>13, <2>1, OperandsIn DEF RunAddItem, isArray
  <2>7. /\ holds[asPointer(Peek(1))] \in Seq(Value)
        /\ AllIn(holds[asPointer(Peek(1))], M)
    BY <1>2, <2>3, <2>6
  <2>8. /\ Append(holds[asPointer(Peek(1))], Peek(0)) \in Seq(Value)
        /\ AllIn(Append(holds[asPointer(Peek(1))], Peek(0)), M)
    BY <2>5, <2>7, AppendIn
  <2>9. PassedOn(M)
    BY <1>2, <2>2, <2>3, <2>8, NewItemsPassedOn
  <2>10. AllIn(stack', M)
    BY <2>2, <2>4, <2>5, AppendIn
  <2>11. QED
    BY <1>5, <2>2, <2>9, <2>10 DEF M
<1>14. CASE RunDefine
  <2>1. AllIn(stack', Acc)
    BY <1>2, <1>14, OperandsIn DEF RunDefine
  <2>2. QED
    BY <1>4, <1>14, <2>1 DEF RunDefine
<1>15. CASE EndRun
  <2>1. /\ allocated' = allocated /\ gcState' # "sweep" /\ holds' = holds
        /\ stack' = stack
    BY <1>15 DEF EndRun, BeginMark, objects
  <2>2. QED
    BY <1>2, <1>3, <2>1
<1>16. QED
  BY <1>6, <1>7, <1>8, <1>9, <1>10, <1>11, <1>12, <1>13, <1>14, <1>15 DEF Run

-----------------------------------------------------------------------------
(* The collector's steps *)

\* What is held depends on no part of the heap.
LEMMA SameHeld ==
  ASSUME UNCHANGED <<stack, frames, defined, code>>
  PROVE  Targets(HeldValues)' = Targets(HeldValues)
BY DEF HeldValues, Targets

LEMMA SameAbsRefs ==
  ASSUME Survivors' = Survivors, \A p \in Survivors : holds'[p] = holds[p]
  PROVE  AbsRefs' = AbsRefs
<1>1. \A p \in Obj : (IF p \in Survivors' THEN Targets(Range(holds'[p])) ELSE {})
                       = IF p \in Survivors THEN Targets(Range(holds[p])) ELSE {}
  OBVIOUS
<1>2. QED
  BY <1>1 DEF AbsRefs

LEMMA CollectRefines ==
  ASSUME SessionOK, MemoryOK, ExactOK, After', Collect
  PROVE  \/ AsMemory!Collect
         \/ UNCHANGED AsMemory!memoryVars
<1>1. /\ Targets(HeldValues)' = Targets(HeldValues)
      /\ UNCHANGED <<stack, frames, defined, code>>
  BY SameHeld DEF Collect
<1>2. ASSUME Survivors' = Survivors, \A p \in Survivors : holds'[p] = holds[p]
      PROVE  UNCHANGED AsMemory!memoryVars
  BY <1>1, <1>2, SameAbsRefs DEF AsMemory!memoryVars, AbsRefs
<1>3. CASE Fault \/ Mark
  <2>1. Survivors' = Survivors /\ holds' = holds
    BY <1>3 DEF Fault, Mark, Survivors, objects
  <2>2. QED
    BY <1>2, <2>1
<1>4. CASE KeepMarked \/ FreeUnmarked \/ EndSweep
  BY <1>2, <1>4, SweepKeepsSurvivors DEF SessionOK
<1>5. CASE BeginSweep
  <2>1. /\ gcState = "mark" /\ agenda = <<>> /\ holds' = holds
        /\ allocated' = allocated /\ marked' = marked
    BY <1>5 DEF BeginSweep, objects
  <2>2. Survivors' = {p \in allocated : marked[p]}
    BY <1>5, SurvivorsAreMarked DEF SessionOK
  <2>3. /\ Survivors = allocated
        /\ AbsRefs = [p \in Obj |-> Targets(Range(holds[p]))]
    BY <2>1, AbsRefsAre
  <2>4. Survivors' \subseteq Acc
    <3>1. SUFFICES ASSUME NEW p \in allocated, marked[p],
                          NEW C \in SUBSET Obj, Targets(HeldValues) \subseteq C,
                          \A q \in C : Targets(Range(holds[q])) \subseteq C
                   PROVE  p \in C
      BY <2>2, <2>3, InAccessible DEF SessionOK, HeapOK, HeapTypeOK
    <3>2. C \in ClosedSets(HeldValues)
      BY <3>1 DEF ClosedSets
    <3>3. Encloses(C)
      BY <2>1, <3>2, ClosedEncloses
    <3>4. QED
      BY <2>1, <3>1, <3>3 DEF ExactOK
  <2>5. Acc \subseteq Survivors'
    <3>1. /\ AllReached(stack)
          /\ \A p \in allocated : marked[p] => AllReached(holds[p])
      BY <2>1 DEF MemoryOK, MarkOK
    <3>2. \A p : Reached(p) <=> marked[p]
      BY <2>1 DEF Reached
    <3> DEFINE S == {p \in allocated : marked[p]}
    <3>3. ASSUME NEW s \in Seq(Value), AllReached(s), AllSound(s, allocated, objType)
          PROVE  AllIn(s, S)
      BY <3>2, <3>3 DEF AllReached, AllSound, SoundIn, AllIn
    <3>4. AllIn(stack, S)
      BY <3>1, <3>3 DEF SessionOK, PromptTypeOK, MemoryOK, RootsOK
    <3>5. S \in SUBSET Obj
      BY DEF SessionOK, HeapOK, HeapTypeOK
    <3>6. \A p \in S : AllIn(holds[p], S)
      BY <2>1, <3>1, <3>3, <3>5
      DEF SessionOK, HeapOK, HeapTypeOK, MemoryOK, ItemsOK, ItemsSound
    <3>7. Encloses(S)
      BY <3>4, <3>6 DEF Encloses
    <3> HIDE DEF S
    <3>8. S \in ClosedSets(HeldValues)
      BY <2>1, <3>5, <3>7, ClosedEncloses
    <3>9. /\ Targets(HeldValues) \subseteq S
          /\ \A p \in S : AbsRefs[p] \subseteq S
      BY <2>3, <3>5, <3>8 DEF ClosedSets
    <3>10. Acc \subseteq S
      BY <3>5, <3>9, InAccessible
    <3>11. QED
      BY <2>2, <3>10 DEF S
  <2>6. Survivors' = Acc
    BY <2>4, <2>5
  <2>7. AbsRefs' = [p \in Obj |-> IF p \in Acc THEN AbsRefs[p] ELSE {}]
    BY <2>1, <2>3, <2>6 DEF AbsRefs
  <2>8. QED
    BY <1>1, <2>6, <2>7 DEF AsMemory!Collect, Acc, AbsRefs
<1>6. QED
  BY <1>3, <1>4, <1>5 DEF Collect, CollectStep

-----------------------------------------------------------------------------

LEMMA InitRefines ==
  Init => AsMemory!Init
<1> SUFFICES ASSUME Init PROVE AsMemory!Init
  OBVIOUS
<1>1. Survivors = {} /\ holds = [p \in Obj |-> <<>>]
  BY DEF Init, HeapInit, Survivors
<1>2. HeldValues = {}
  <2>1. stack = <<>> /\ frames = <<>> /\ defined = {}
    BY DEF Init
  <2>2. DOMAIN frames = {} /\ Range(stack) = {}
    BY <2>1 DEF Range
  <2>3. QED
    BY <2>1, <2>2 DEF HeldValues
<1>3. Targets(HeldValues) = {}
  BY <1>2, TargetsAre
<1>4. QED
  BY <1>1, <1>3 DEF AsMemory!Init

LEMMA StepRefines ==
  SessionOK /\ MemoryOK /\ ExactOK /\ After' /\ [Next]_vars
    => [AsMemory!Next]_(AsMemory!memoryVars)
<1> SUFFICES ASSUME SessionOK, MemoryOK, ExactOK, After', [Next]_vars
             PROVE  AsMemory!Next \/ UNCHANGED AsMemory!memoryVars
  OBVIOUS
<1>1. CASE Prompt \/ Parse \/ Run
  BY <1>1, PromptRefines, ParseRefines, RunRefines DEF AsMemory!Next
<1>2. CASE Collect
  BY <1>2, CollectRefines DEF AsMemory!Next
<1>3. CASE UNCHANGED vars
  <2>1. /\ Survivors' = Survivors /\ holds' = holds
        /\ UNCHANGED <<stack, frames, defined, code>>
    BY <1>3 DEF vars, heapVars, objects, locals, promptVars, Survivors, Passed
  <2>2. AbsRefs' = AbsRefs /\ Targets(HeldValues)' = Targets(HeldValues)
    BY <2>1, SameHeld, SameAbsRefs
  <2>3. QED
    BY <2>1, <2>2 DEF AsMemory!memoryVars, AbsRefs
<1>4. QED
  BY <1>1, <1>2, <1>3 DEF Next

(***************************************************************************)
(* The collector of gc.cc, which marks and sweeps object by object         *)
(* (gc.cc:60-90), implements the heap that collects in one step, as long   *)
(* as no word with objects in its code is DEFINEd: gcScan() visits no word *)
(* (repl.cc:108-112).                                                      *)
(***************************************************************************)
THEOREM HeapImplementsMemory ==
  ASSUME ~WordsHoldObjects
  PROVE  Spec => ImplementsMemory
<1>1. Spec => [](SessionOK /\ MemoryOK /\ ExactOK)
  BY ExactInvariant
<1>2. SessionOK /\ MemoryOK /\ ExactOK => After
  BY SessionHeldWithin, SessionHeldLinks, MemoryPlainHeap DEF After
<1>3. QED
  BY <1>1, <1>2, InitRefines, StepRefines, PTL
  DEF Spec, ImplementsMemory, AsMemory!Spec
=============================================================================
