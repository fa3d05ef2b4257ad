------------------------------ MODULE VmProofs ------------------------------
(***************************************************************************)
(* The parts of the virtual machine that MCVm has side by side, the        *)
(* collector's, which ConcurrentGCProofs has, apart.  InterpStack: the     *)
(* stack keeps the frames of calls, native methods and hooked ones apart   *)
(* and leads from each to its caller, for stacks and frames of every size  *)
(* and calls of any depth.  ByteOrder: bytes put together are the number   *)
(* they are the bytes of.  FieldAccess: fields keep what is stored in      *)
(* them, for any layout.  Packets: what one side of the debugger's         *)
(* connection writes the other reads.  At the end, the types of them all.  *)
(***************************************************************************)
EXTENDS MCVm, ConcurrentGCProofs, SequenceTheorems, TLAPS

MethodSizes == [registersSize : Nat, insSize : Nat, outsSize : Nat, native : BOOLEAN]
FrameRecord == [fp : Nat, method : Methods \cup Copies, arguments : Seq(Nat),
                native : BOOLEAN, registers : Seq(Nat)]

\* The frame that called the k-th, and the address that frame ends at.
CallerFP(fs, k) == IF k = 1 THEN NoFP ELSE fs[k - 1].fp
TopOf(fs, k) == IF k = 1 THEN interpStackStart ELSE SAVEAREA_FROM_FP(fs[k - 1].fp)

\* The k-th frame lies below its caller's, and leads there: at once, or by a break frame
\* between the two.
LinkedFrame(s, fs, k) ==
    LET save == SAVEAREA_FROM_FP(fs[k].fp)
        top == TopOf(fs, k)
    IN \/ k > 1 /\ s[save + prevFrame] = CallerFP(fs, k)
       \/ /\ fs[k].fp + Len(fs[k].registers) <= SAVEAREA_FROM_FP(top)
          /\ s[save + prevFrame] = top
          /\ s[SAVEAREA_FROM_FP(top) + prevFrame] = CallerFP(fs, k)
          /\ s[SAVEAREA_FROM_FP(top) + method] = NoFP

\* What the words of the k-th frame are.
KeptFrame(s, fs, k) ==
    LET f == fs[k] IN
    /\ f.fp >= SaveAreaSize /\ f.fp + Len(f.registers) <= TopOf(fs, k)
    /\ s[SAVEAREA_FROM_FP(f.fp) + method] = f.method
    /\ \A i \in 1 .. Len(f.registers) : s[f.fp + i - 1] = f.registers[i]
    /\ f.native => /\ Len(f.arguments) <= Len(f.registers)
                   /\ \A i \in 1 .. Len(f.arguments) : f.registers[i] = f.arguments[i]

StackTypesInv ==
    /\ stack \in [Words -> Nat] /\ frames \in Seq(FrameRecord)
    /\ interpStackEnd = IF stackOverflowed THEN 0 ELSE STACK_OVERFLOW_RESERVE
    /\ stackOverflowed \in BOOLEAN
    /\ curFrame = IF frames = <<>> THEN NoFP ELSE frames[Len(frames)].fp

SizesInv ==
    /\ sizes \in [Methods \cup Copies -> MethodSizes]
    /\ \A m \in Methods \cup Copies :
          /\ sizes[m].insSize <= sizes[m].registersSize
          /\ sizes[m].native => sizes[m].insSize = sizes[m].registersSize

FramesInv ==
    /\ \A k \in 1 .. Len(frames) : LinkedFrame(stack, frames, k) /\ KeptFrame(stack, frames, k)
    /\ \A k, l \in 1 .. Len(frames) : k < l => frames[l].fp <= SAVEAREA_FROM_FP(frames[k].fp)
    /\ \A k \in 1 .. Len(frames) : SAVEAREA_FROM_FP(frames[k].fp) >= interpStackEnd

StackInv == StackTypesInv /\ SizesInv /\ FramesInv

-----------------------------------------------------------------------------
(* MethodSizes, frames and words.                                                 *)

LEMMA StackNumbers ==
    /\ STACK_OVERFLOW_RESERVE \in Nat /\ StackSize \in Nat /\ interpStackStart \in Nat
    /\ interpStackStart = StackSize + STACK_OVERFLOW_RESERVE
    /\ \A m \in Methods \cup Copies : m \in Nat /\ m # 0
    /\ Computed \subseteq Nat
<1>1. STACK_OVERFLOW_RESERVE \in Nat /\ StackSize \in Nat /\ Computed \subseteq Nat
  BY StackAssumption
<1>2. \A m \in Methods : m \in Nat /\ m # 0
  <2>1. Methods \subseteq 1 .. 9  BY StackAssumption
  <2> QED  BY <2>1
<1>3. ASSUME NEW c \in Copies PROVE c \in Nat /\ c # 0
  <2>1. PICK m \in Methods : c = m + 10  BY DEF Copies, Copy
  <2> QED  BY <1>2, <2>1
<1> QED  BY <1>1, <1>2, <1>3 DEF interpStackStart

LEMMA FrameFields ==
    ASSUME NEW f \in FrameRecord
    PROVE  /\ f.fp \in Nat /\ f.method \in Methods \cup Copies /\ f.arguments \in Seq(Nat)
           /\ f.native \in BOOLEAN /\ f.registers \in Seq(Nat)
           /\ Len(f.registers) \in Nat /\ Len(f.arguments) \in Nat
BY DEF FrameRecord

LEMMA SizesFields ==
    ASSUME SizesInv, NEW m \in Methods \cup Copies
    PROVE  /\ sizes[m].registersSize \in Nat /\ sizes[m].insSize \in Nat
           /\ sizes[m].outsSize \in Nat /\ sizes[m].native \in BOOLEAN
           /\ sizes[m].insSize <= sizes[m].registersSize
           /\ sizes[m].native => sizes[m].insSize = sizes[m].registersSize
<1>1. sizes[m] \in MethodSizes  BY DEF SizesInv
<1> QED  BY <1>1 DEF SizesInv, MethodSizes

\* The frames are numbered; each has its fields.
LEMMA FrameRecords ==
    ASSUME StackTypesInv
    PROVE  /\ Len(frames) \in Nat /\ DOMAIN frames = 1 .. Len(frames)
           /\ frames = <<>> <=> Len(frames) = 0
           /\ \A k \in 1 .. Len(frames) : frames[k] \in FrameRecord
BY EmptySeq, ElementOfSeq, LenProperties DEF StackTypesInv

\* What writing two words does.
LEMMA WriteTwo ==
    ASSUME NEW s \in [Words -> Nat], NEW a \in Words, NEW b \in Words, a # b,
           NEW v \in Nat, NEW w \in Nat, NEW t, t = [s EXCEPT ![a] = v, ![b] = w]
    PROVE  /\ t \in [Words -> Nat] /\ t[a] = v /\ t[b] = w
           /\ \A c \in Words : c # a /\ c # b => t[c] = s[c]
OBVIOUS

\* A frame is what it was as long as its words are, and those of the break frame above it.
LEMMA FrameStays ==
    ASSUME NEW s, NEW t, NEW fs, NEW gs, NEW k \in Nat \ {0},
           fs[k] \in FrameRecord, gs[k] = fs[k], k > 1 => gs[k - 1] = fs[k - 1],
           TopOf(fs, k) \in 0 .. interpStackStart,
           \A a \in Words : a >= SAVEAREA_FROM_FP(fs[k].fp) => t[a] = s[a],
           LinkedFrame(s, fs, k), KeptFrame(s, fs, k)
    PROVE  LinkedFrame(t, gs, k) /\ KeptFrame(t, gs, k)
<1> DEFINE fp == fs[k].fp
           top == TopOf(fs, k)
           n == Len(fs[k].registers)
<1>1. fp \in Nat /\ n \in Nat /\ top \in Nat /\ top <= interpStackStart /\ interpStackStart \in Nat
  BY FrameFields, StackNumbers
<1>2. TopOf(gs, k) = top /\ CallerFP(gs, k) = CallerFP(fs, k)
  BY DEF TopOf, CallerFP
<1>3. fp >= 5 /\ fp + n <= top  BY DEF KeptFrame, SaveAreaSize
<1> HIDE DEF top
<1>4. \A a \in Nat : a >= fp - 5 /\ a < top => t[a] = s[a]
  BY <1>1 DEF Words, SAVEAREA_FROM_FP, SaveAreaSize
<1>5. KeptFrame(t, gs, k)
  <2>1. \A i \in 1 .. n : fp + i - 1 \in Nat /\ fp + i - 1 >= fp - 5 /\ fp + i - 1 < top
    <3>1. PICK p \in Nat, m \in Nat, u \in Nat : p = fp /\ m = n /\ u = top  BY <1>1
    <3>2. p >= 5 /\ p + m <= u  BY <1>3, <3>1
    <3>3. ASSUME NEW i \in 1 .. m
          PROVE  p + i - 1 \in Nat /\ p + i - 1 >= p - 5 /\ p + i - 1 < u
      <4>1. i \in Nat /\ 1 <= i /\ i <= m  BY <3>1
      <4>2. p \in Nat /\ m \in Nat /\ u \in Nat  BY <3>1
      <4> QED  BY ONLY <3>2, <4>1, <4>2
    <3> QED  BY <3>1, <3>3
  <2>2. fp - 5 + 2 \in Nat /\ fp - 5 + 2 >= fp - 5 /\ fp - 5 + 2 < top
    <3>1. PICK p \in Nat, m \in Nat : p = fp /\ m = n  BY <1>1
    <3>2. p >= 5 /\ p + m <= top /\ top \in Nat  BY <1>1, <1>3, <3>1
    <3>3. p - 5 + 2 \in Nat /\ p - 5 + 2 >= p - 5 /\ p - 5 + 2 < top  BY <3>2
    <3> QED  BY <3>1, <3>3
  <2>3. t[fp - 5 + 2] = s[fp - 5 + 2] /\ \A i \in 1 .. n : t[fp + i - 1] = s[fp + i - 1]
    BY <1>4, <2>1, <2>2
  <2> QED  BY <1>2, <2>3 DEF KeptFrame, SAVEAREA_FROM_FP, SaveAreaSize, method, top
<1>6. LinkedFrame(t, gs, k)
  <2>1. fp - 5 + 0 \in Nat /\ fp - 5 + 0 >= fp - 5 /\ fp - 5 + 0 < top  BY <1>1, <1>3
  <2>2. t[fp - 5 + 0] = s[fp - 5 + 0]  BY <1>4, <2>1
  <2>3. CASE k > 1 /\ s[fp - 5 + 0] = CallerFP(fs, k)
    BY <1>2, <2>2, <2>3 DEF LinkedFrame, SAVEAREA_FROM_FP, SaveAreaSize, prevFrame
  <2>4. CASE /\ fp + n <= top - 5
             /\ s[fp - 5 + 0] = top
             /\ s[top - 5 + 0] = CallerFP(fs, k)
             /\ s[top - 5 + 2] = NoFP
    <3>1. /\ top - 5 + 0 \in Nat /\ top - 5 + 0 >= fp - 5 /\ top - 5 + 0 < top
          /\ top - 5 + 2 \in Nat /\ top - 5 + 2 >= fp - 5 /\ top - 5 + 2 < top
      BY <1>1, <1>3, <2>4
    <3>2. t[top - 5 + 0] = s[top - 5 + 0] /\ t[top - 5 + 2] = s[top - 5 + 2]
      BY <1>4, <3>1
    <3> QED
      BY <1>2, <2>2, <2>4, <3>2
      DEF LinkedFrame, SAVEAREA_FROM_FP, SaveAreaSize, prevFrame, method, top
  <2> QED
    BY <2>3, <2>4 DEF LinkedFrame, SAVEAREA_FROM_FP, SaveAreaSize, prevFrame, method, top
<1> QED  BY <1>5, <1>6

\* Where the frames are.
LEMMA FramePlaces ==
    ASSUME StackInv, NEW k \in 1 .. Len(frames)
    PROVE  /\ frames[k] \in FrameRecord /\ frames[k].fp \in Nat
           /\ frames[k].fp >= SaveAreaSize /\ frames[k].fp < interpStackStart
           /\ TopOf(frames, k) \in 0 .. interpStackStart
           /\ SAVEAREA_FROM_FP(frames[k].fp) >= interpStackEnd
<1> USE DEF StackInv
<1>1. \A j \in 1 .. Len(frames) :
        /\ frames[j] \in FrameRecord /\ frames[j].fp \in Nat /\ frames[j].fp >= 5
        /\ frames[j].fp + Len(frames[j].registers) <= TopOf(frames, j)
        /\ Len(frames[j].registers) \in Nat
  BY FrameRecords, FrameFields DEF FramesInv, KeptFrame, SaveAreaSize
<1>2. TopOf(frames, 1) = interpStackStart /\ interpStackStart \in Nat  BY StackNumbers DEF TopOf
<1>3. Len(frames) \in Nat /\ 1 \in 1 .. Len(frames)  BY FrameRecords
<1>4. frames[1].fp <= interpStackStart  BY <1>1, <1>2, <1>3
<1>5. CASE k = 1
  <2>1. LinkedFrame(stack, frames, 1)  BY <1>3 DEF FramesInv
  <2>2. frames[1].fp + Len(frames[1].registers) <= interpStackStart - 5
    BY <1>2, <2>1 DEF LinkedFrame, SAVEAREA_FROM_FP, SaveAreaSize
  <2> QED  BY <1>1, <1>2, <1>3, <1>5, <2>2 DEF FramesInv, SaveAreaSize
<1>6. CASE k > 1
  <2>1. k - 1 \in 1 .. Len(frames)  BY <1>3, <1>6
  <2>2. TopOf(frames, k) = frames[k - 1].fp - 5
    BY <1>6 DEF TopOf, SAVEAREA_FROM_FP, SaveAreaSize
  <2>3. frames[k - 1].fp <= interpStackStart
    <3>1. CASE k - 1 = 1  BY <1>4, <3>1
    <3>2. CASE k - 1 > 1
      <4>1. frames[k - 1].fp <= frames[1].fp - 5
        BY <1>3, <2>1, <3>2 DEF FramesInv, SAVEAREA_FROM_FP, SaveAreaSize
      <4> QED  BY <1>1, <1>2, <1>3, <1>4, <2>1, <4>1
    <3> QED  BY <1>3, <2>1, <3>1, <3>2
  <2>4. frames[k - 1].fp \in Nat /\ frames[k - 1].fp >= 5  BY <1>1, <2>1
  <2>5. TopOf(frames, k) \in 0 .. interpStackStart  BY <1>2, <2>2, <2>3, <2>4
  <2>6. frames[k].fp < interpStackStart  BY <1>1, <1>2, <2>2, <2>3, <2>4
  <2> QED  BY <1>1, <2>5, <2>6 DEF FramesInv, SaveAreaSize
<1> QED  BY <1>3, <1>5, <1>6

-----------------------------------------------------------------------------
(* Steps that push a frame, take one away, or write into the last.          *)

\* Where the current frame ends, which is where another one begins.
TopWord == IF frames = <<>> THEN interpStackStart ELSE SAVEAREA_FROM_FP(curFrame)

LEMMA TopWordPlace ==
    ASSUME StackInv
    PROVE  /\ TopWord \in Nat /\ TopWord <= interpStackStart
           /\ frames # <<>> => /\ Executing /\ Len(frames) \in 1 .. Len(frames)
                               /\ curFrame = TopFrame.fp /\ TopFrame = frames[Len(frames)]
                               /\ curFrame \in Nat
           /\ frames = <<>> => ~Executing
           /\ \A k \in 1 .. Len(frames) : SAVEAREA_FROM_FP(frames[k].fp) >= TopWord
<1> USE DEF StackInv
<1>1. Len(frames) \in Nat /\ (frames = <<>> <=> Len(frames) = 0)  BY FrameRecords
<1>2. CASE frames = <<>>
  BY <1>1, <1>2, StackNumbers DEF StackTypesInv, TopWord, Executing
<1>3. CASE frames # <<>>
  <2>1. Len(frames) \in 1 .. Len(frames)  BY <1>1, <1>3
  <2>2. curFrame = frames[Len(frames)].fp  BY <1>3 DEF StackTypesInv
  <2>3. curFrame \in Nat /\ curFrame >= 5 /\ curFrame < interpStackStart
    BY <2>1, <2>2, FramePlaces DEF SaveAreaSize
  <2>4. TopWord = curFrame - 5  BY <1>3 DEF TopWord, SAVEAREA_FROM_FP, SaveAreaSize
  <2>5. ASSUME NEW k \in 1 .. Len(frames) PROVE SAVEAREA_FROM_FP(frames[k].fp) >= TopWord
    <3>1. frames[k].fp \in Nat  BY FramePlaces
    <3>2. CASE k = Len(frames)  BY <2>2, <2>3, <2>4, <3>2 DEF SAVEAREA_FROM_FP, SaveAreaSize
    <3>3. CASE k # Len(frames)
      <4>1. k < Len(frames)  BY <1>1, <3>3
      <4>2. frames[Len(frames)].fp <= SAVEAREA_FROM_FP(frames[k].fp)
        BY <2>1, <4>1 DEF FramesInv
      <4> QED  BY <2>2, <2>3, <2>4, <3>1, <4>2 DEF SAVEAREA_FROM_FP, SaveAreaSize
    <3> QED  BY <3>2, <3>3
  <2> QED  BY <1>3, <2>1, <2>2, <2>3, <2>4, <2>5, StackNumbers DEF Executing, TopFrame, NoFP
<1> QED  BY <1>2, <1>3

\* A frame is pushed that lies below the others, is linked to them, and has its method in
\* its save area; a native one has nothing but its arguments.
LEMMA PushKeeps ==
    ASSUME StackInv, NEW s \in [Words -> Nat], NEW fp \in Nat, NEW m \in Methods \cup Copies,
           NEW passed \in Seq(Nat), NEW gs,
           Pushed(s, fp, m, passed), gs = frames',
           \A a \in Words : a >= TopWord => s[a] = stack[a],
           SAVEAREA_FROM_FP(fp) >= interpStackEnd, fp >= SaveAreaSize,
           fp + sizes[m].registersSize <= TopWord,
           \/ frames # <<>> /\ s[SAVEAREA_FROM_FP(fp) + prevFrame] = curFrame
           \/ /\ fp + sizes[m].registersSize <= SAVEAREA_FROM_FP(TopWord)
              /\ s[SAVEAREA_FROM_FP(fp) + prevFrame] = TopWord
              /\ s[SAVEAREA_FROM_FP(TopWord) + prevFrame] = curFrame
              /\ s[SAVEAREA_FROM_FP(TopWord) + method] = NoFP,
           s[SAVEAREA_FROM_FP(fp) + method] = m,
           sizes[m].native => /\ Len(passed) = sizes[m].registersSize
                              /\ \A i \in 1 .. Len(passed) : s[fp + i - 1] = passed[i]
    PROVE  StackInv'
<1> USE DEF StackInv
<1> DEFINE size == sizes[m].registersSize
           new == [fp |-> fp, method |-> m, arguments |-> passed, native |-> sizes[m].native,
                   registers |-> RegistersIn(s, fp, size)]
<1>1. /\ stack' = s /\ curFrame' = fp /\ frames' = Append(frames, new)
      /\ interpStackEnd' = interpStackEnd /\ stackOverflowed' = stackOverflowed /\ sizes' = sizes
  BY DEF Pushed
<1>2. size \in Nat /\ sizes[m].native \in BOOLEAN  BY SizesFields
<1>3. /\ TopWord \in Nat /\ TopWord <= interpStackStart /\ interpStackStart \in Nat
  BY TopWordPlace, StackNumbers
<1>4. PICK n \in Nat : n = Len(frames)  BY FrameRecords
<1> HIDE DEF size
<1>5. /\ RegistersIn(s, fp, size) \in Seq(Nat) /\ Len(RegistersIn(s, fp, size)) = size
      /\ \A i \in 1 .. size : RegistersIn(s, fp, size)[i] = s[fp + i - 1]
  <2>1. \A i \in 1 .. size : fp + i - 1 \in Words  BY <1>2, <1>3 DEF size, Words
  <2>2. \A i \in 1 .. size : s[fp + i - 1] \in Nat  BY <2>1
  <2> QED  BY <1>2, <2>2 DEF RegistersIn
<1>6. new \in FrameRecord  BY <1>2, <1>5 DEF FrameRecord
<1>7. /\ new.fp = fp /\ new.method = m /\ new.arguments = passed
      /\ new.registers = RegistersIn(s, fp, size)
  OBVIOUS
<1>8. new.native = sizes[m].native  OBVIOUS
<1> HIDE DEF new
<1>9. /\ gs \in Seq(FrameRecord) /\ gs # <<>> /\ Len(gs) = n + 1
      /\ \A k \in 1 .. n : gs[k] = frames[k]
      /\ gs[n + 1] = new
  <2>1. frames \in Seq(FrameRecord)  BY DEF StackTypesInv
  <2>2. gs = Append(frames, new)  BY <1>1
  <2> QED  BY ONLY <1>4, <1>6, <2>1, <2>2, AppendProperties, n \in Nat
<1>10. StackTypesInv'
  BY <1>1, <1>7, <1>9 DEF StackTypesInv
<1>11. SizesInv'  BY <1>1 DEF SizesInv
<1>12. TopOf(gs, n + 1) = TopWord /\ CallerFP(gs, n + 1) = curFrame
  <2>1. CASE n = 0
    BY <1>4, <2>1, FrameRecords DEF TopOf, CallerFP, TopWord, StackTypesInv
  <2>2. CASE n # 0
    <3>1. frames # <<>> /\ n \in 1 .. n /\ (n + 1) - 1 = n /\ n + 1 # 1  BY <1>4, <2>2, FrameRecords
    <3>2. gs[n] = frames[n] /\ curFrame = frames[n].fp  BY <1>4, <1>9, <3>1 DEF StackTypesInv
    <3> QED  BY <3>1, <3>2 DEF TopOf, CallerFP, TopWord
  <2> QED  BY <2>1, <2>2
<1>13. LinkedFrame(s, gs, n + 1)
  <2>1. gs[n + 1].fp = fp /\ Len(gs[n + 1].registers) = size  BY <1>5, <1>7, <1>9
  <2>2. frames # <<>> => n + 1 > 1  BY <1>4, FrameRecords
  <2> QED  BY <1>12, <2>1, <2>2 DEF LinkedFrame, size
<1>14. KeptFrame(s, gs, n + 1)
  <2>1. /\ gs[n + 1].fp = fp /\ gs[n + 1].method = m /\ gs[n + 1].arguments = passed
        /\ gs[n + 1].registers = RegistersIn(s, fp, size)
        /\ Len(gs[n + 1].registers) = size
    BY <1>5, <1>7, <1>9
  <2>2. gs[n + 1].native = sizes[m].native  BY <1>8, <1>9
  <2>3. fp + size <= TopOf(gs, n + 1)  BY <1>12 DEF size
  <2>4. ASSUME sizes[m].native
        PROVE  /\ Len(passed) <= size
               /\ \A i \in 1 .. Len(passed) : RegistersIn(s, fp, size)[i] = passed[i]
    BY <1>2, <1>5, <2>4 DEF size
  <2>5. gs[n + 1].native => /\ Len(gs[n + 1].arguments) <= Len(gs[n + 1].registers)
                            /\ \A i \in 1 .. Len(gs[n + 1].arguments) :
                                  gs[n + 1].registers[i] = gs[n + 1].arguments[i]
    BY <2>1, <2>2, <2>4
  <2> QED  BY <1>5, <2>1, <2>3, <2>5 DEF KeptFrame
<1>15. ASSUME NEW k \in 1 .. n PROVE LinkedFrame(s, gs, k) /\ KeptFrame(s, gs, k)
  <2>1. frames[k] \in FrameRecord /\ TopOf(frames, k) \in 0 .. interpStackStart
        /\ SAVEAREA_FROM_FP(frames[k].fp) >= TopWord /\ frames[k].fp \in Nat
    BY <1>4, FramePlaces, TopWordPlace
  <2>2. \A a \in Words : a >= SAVEAREA_FROM_FP(frames[k].fp) => s[a] = stack[a]
    BY <1>3, <2>1 DEF Words, SAVEAREA_FROM_FP, SaveAreaSize
  <2>3. LinkedFrame(stack, frames, k) /\ KeptFrame(stack, frames, k)  BY <1>4 DEF FramesInv
  <2>4. k > 1 => gs[k - 1] = frames[k - 1]  BY <1>9
  <2>5. k \in Nat \ {0} /\ gs[k] = frames[k]  BY <1>9
  <2> HIDE DEF StackInv
  <2> QED  BY ONLY <2>1, <2>2, <2>3, <2>4, <2>5, FrameStays
<1>16. \A k \in 1 .. (n + 1) : LinkedFrame(s, gs, k) /\ KeptFrame(s, gs, k)
  BY <1>13, <1>14, <1>15
<1>17. \A k, l \in 1 .. (n + 1) : k < l => gs[l].fp <= SAVEAREA_FROM_FP(gs[k].fp)
  <2> SUFFICES ASSUME NEW k \in 1 .. (n + 1), NEW l \in 1 .. (n + 1), k < l
               PROVE  gs[l].fp <= SAVEAREA_FROM_FP(gs[k].fp)
    OBVIOUS
  <2>1. k \in 1 .. n  OBVIOUS
  <2>2. CASE l \in 1 .. n  BY <1>4, <1>9, <2>1, <2>2 DEF FramesInv
  <2>3. CASE l = n + 1
    <3>1. fp <= TopWord  BY <1>2, <1>3 DEF size
    <3>2. SAVEAREA_FROM_FP(frames[k].fp) >= TopWord /\ frames[k].fp \in Nat  BY <1>4, <2>1, FramePlaces, TopWordPlace
    <3> QED  BY <1>3, <1>7, <1>9, <2>1, <2>3, <3>1, <3>2 DEF SAVEAREA_FROM_FP, SaveAreaSize
  <2> QED  BY <2>1, <2>2, <2>3
<1>18. \A k \in 1 .. (n + 1) : SAVEAREA_FROM_FP(gs[k].fp) >= interpStackEnd
  BY <1>4, <1>7, <1>9 DEF FramesInv
<1>19. FramesInv'
  BY <1>1, <1>9, <1>16, <1>17, <1>18 DEF FramesInv
<1> QED  BY <1>10, <1>11, <1>19

\* An instruction that invokes a method passes the first registers of its frame: they are
\* copied to where the registers of the callee end.
LEMMA InvokeKeeps == ASSUME StackInv, NEW m \in Methods, InvokeMethod(m) PROVE StackInv'
<1> USE DEF StackInv
<1> DEFINE n == sizes[m].insSize
           size == sizes[m].registersSize
           regs == TopFrame.registers
           args == SubSeq(regs, 1, n)
           fp == Frame(SAVEAREA_FROM_FP(curFrame), m)
           outs == OUTS_FROM_FP(curFrame, n)
           t == Put(stack, outs, args)
           s == Save(t, fp, curFrame, m)
<1>1. /\ Executing /\ Len(regs) >= n /\ Bottom(fp, m) >= interpStackEnd
      /\ Pushed(s, fp, m, args)
  BY DEF InvokeMethod
<1>2. m \in Methods \cup Copies /\ m \in Nat  BY StackNumbers
<1>3. n \in Nat /\ size \in Nat /\ sizes[m].outsSize \in Nat /\ n <= size /\ (sizes[m].native => n = size)
  BY <1>2, SizesFields
<1>4. frames # <<>>  BY <1>1, TopWordPlace
<1>5. /\ TopWord = curFrame - 5 /\ TopWord \in Nat /\ TopWord <= interpStackStart /\ interpStackStart \in Nat
      /\ curFrame \in Nat
  BY <1>4, TopWordPlace, StackNumbers DEF TopWord, SAVEAREA_FROM_FP, SaveAreaSize
<1>6. interpStackEnd \in Nat
  BY StackNumbers DEF StackTypesInv
<1>7. regs \in Seq(Nat) /\ Len(regs) \in Nat
  BY <1>4, TopWordPlace, FrameRecords, FrameFields
<1>8. /\ args \in Seq(Nat) /\ Len(args) = n /\ \A i \in 1 .. n : args[i] \in Nat
  <2>1. \A i \in 1 .. n : regs[i] \in Nat  BY <1>1, <1>3, <1>7, ElementOfSeq
  <2>2. args \in Seq(Nat) /\ Len(args) = n  BY <1>3, <2>1, SubSeqProperties
  <2> QED  BY <2>2, ElementOfSeq
<1> HIDE DEF n, size, regs, args
<1>9. fp = TopWord - size /\ outs = TopWord - n
  BY <1>5 DEF Frame, OUTS_FROM_FP, SAVEAREA_FROM_FP, SaveAreaSize, size
<1>10. fp - 5 - sizes[m].outsSize >= interpStackEnd
  BY <1>1 DEF Bottom, SAVEAREA_FROM_FP, SaveAreaSize
<1> HIDE DEF fp, outs
<1>11. fp \in Nat /\ fp >= 5 /\ fp - 5 >= interpStackEnd /\ fp + size = TopWord /\ outs \in Nat
       /\ outs >= fp /\ outs + n = TopWord
  BY <1>3, <1>5, <1>6, <1>9, <1>10
<1>12. t = [b \in Words |-> IF b \in outs .. (outs + n - 1) THEN args[b - outs + 1] ELSE stack[b]]
  BY <1>8 DEF Put
<1>13. t \in [Words -> Nat]
  <2>1. ASSUME NEW b \in Words, b \in outs .. (outs + n - 1) PROVE args[b - outs + 1] \in Nat
    <3>1. b - outs + 1 \in 1 .. n  BY <1>3, <1>11, <2>1
    <3> QED  BY <1>8, <3>1
  <2> QED  BY <1>12, <2>1 DEF StackTypesInv
<1> HIDE DEF t
<1>14. s = [t EXCEPT ![fp - 5 + 0] = curFrame, ![fp - 5 + 2] = m]
  BY DEF Save, SAVEAREA_FROM_FP, SaveAreaSize, prevFrame, method
<1>15. s \in [Words -> Nat]  BY <1>2, <1>5, <1>13, <1>14
<1>16. fp - 5 + 0 \in Words /\ fp - 5 + 2 \in Words
  BY <1>3, <1>5, <1>11 DEF Words
<1>17. s[fp - 5 + 0] = curFrame /\ s[fp - 5 + 2] = m
       /\ \A a \in Words : a >= fp => s[a] = t[a]
  BY <1>11, <1>13, <1>14, <1>16 DEF Words
<1>18. \A a \in Words : a >= TopWord => s[a] = stack[a]
  <2> TAKE a \in Words
  <2> HAVE a >= TopWord
  <2>1. a >= fp /\ a \notin outs .. (outs + n - 1)  BY <1>3, <1>5, <1>11 DEF Words
  <2> QED  BY <1>12, <1>17, <2>1
<1>19. ASSUME sizes[m].native, NEW i \in 1 .. Len(args) PROVE s[fp + i - 1] = args[i]
  <2>1. /\ fp = outs /\ i \in 1 .. n  BY <1>3, <1>8, <1>11, <1>19
  <2>2. /\ fp + i - 1 \in Words /\ fp + i - 1 >= fp /\ fp + i - 1 \in outs .. (outs + n - 1)
        /\ (fp + i - 1) - outs + 1 = i
    BY <1>3, <1>5, <1>11, <2>1 DEF Words
  <2> QED  BY <1>12, <1>17, <2>2
<1> HIDE DEF s
<1>20. /\ SAVEAREA_FROM_FP(fp) >= interpStackEnd /\ fp >= SaveAreaSize
       /\ fp + sizes[m].registersSize <= TopWord
       /\ s[SAVEAREA_FROM_FP(fp) + prevFrame] = curFrame
       /\ s[SAVEAREA_FROM_FP(fp) + method] = m
  BY <1>5, <1>11, <1>17 DEF SAVEAREA_FROM_FP, SaveAreaSize, prevFrame, method, size
<1>21. sizes[m].native => /\ Len(args) = sizes[m].registersSize
                          /\ \A i \in 1 .. Len(args) : s[fp + i - 1] = args[i]
  BY <1>3, <1>8, <1>19 DEF size
<1> QED
  BY <1>1, <1>2, <1>4, <1>8, <1>11, <1>15, <1>18, <1>20, <1>21, PushKeeps

\* A call by the VM puts a break frame, without registers, between the two.
LEMMA CallFromVMKeeps ==
    ASSUME StackInv, NEW m \in Methods \cup Copies, NEW arg \in Computed, CallFromVM(m, arg)
    PROVE  StackInv'
<1> USE DEF StackInv
<1> DEFINE n == sizes[m].insSize
           size == sizes[m].registersSize
           base == IF Executing THEN SAVEAREA_FROM_FP(curFrame) ELSE interpStackStart
           fp == Frame(SAVEAREA_FROM_FP(base), m)
           ins == fp + sizes[m].registersSize - sizes[m].insSize
           args == [i \in 1 .. sizes[m].insSize |-> arg]
           t == Save(stack, base, curFrame, NoFP)
           u == Save(t, fp, base, m)
           s == Put(u, ins, args)
<1>1. Bottom(fp, m) >= interpStackEnd /\ Pushed(s, fp, m, args)
  BY DEF CallFromVM
<1>2. m \in Nat /\ arg \in Nat  BY StackNumbers
<1>3. n \in Nat /\ size \in Nat /\ sizes[m].outsSize \in Nat /\ n <= size /\ (sizes[m].native => n = size)
  BY SizesFields
<1>4. base = TopWord  BY TopWordPlace DEF TopWord
<1>5. /\ TopWord \in Nat /\ TopWord <= interpStackStart /\ interpStackStart \in Nat /\ curFrame \in Nat
  BY TopWordPlace, StackNumbers DEF StackTypesInv, NoFP
<1>6. interpStackEnd \in Nat  BY StackNumbers DEF StackTypesInv
<1> HIDE DEF base
<1>7. args \in Seq(Nat) /\ Len(args) = n /\ \A i \in 1 .. n : args[i] = arg
  BY <1>2, <1>3
<1>8. fp = TopWord - 5 - size /\ ins = fp + size - n
  BY <1>4 DEF Frame, SAVEAREA_FROM_FP, SaveAreaSize
<1>9. fp - 5 - sizes[m].outsSize >= interpStackEnd
  BY <1>1 DEF Bottom, SAVEAREA_FROM_FP, SaveAreaSize
<1> HIDE DEF n, size, fp, ins, args
<1>10. /\ fp \in Nat /\ fp >= 5 /\ fp - 5 >= interpStackEnd /\ fp + size = TopWord - 5
       /\ ins \in Nat /\ ins >= fp /\ ins + n = TopWord - 5 /\ TopWord - 5 \in Nat
  BY <1>3, <1>5, <1>6, <1>8, <1>9
<1>11. t = [stack EXCEPT ![TopWord - 5 + 0] = curFrame, ![TopWord - 5 + 2] = 0]
  BY <1>4 DEF Save, SAVEAREA_FROM_FP, SaveAreaSize, prevFrame, method, NoFP
<1>12. u = [t EXCEPT ![fp - 5 + 0] = TopWord, ![fp - 5 + 2] = m]
  BY <1>4 DEF Save, SAVEAREA_FROM_FP, SaveAreaSize, prevFrame, method
<1>13. s = [b \in Words |-> IF b \in ins .. (ins + n - 1) THEN args[b - ins + 1] ELSE u[b]]
  BY <1>7 DEF Put
<1>14. /\ TopWord - 5 + 0 \in Words /\ TopWord - 5 + 2 \in Words
       /\ fp - 5 + 0 \in Words /\ fp - 5 + 2 \in Words
  BY <1>3, <1>5, <1>10 DEF Words
<1>15. stack \in [Words -> Nat]  BY DEF StackTypesInv
<1> HIDE DEF t
<1>16. /\ t \in [Words -> Nat] /\ t[TopWord - 5 + 0] = curFrame /\ t[TopWord - 5 + 2] = 0
       /\ \A a \in Words : a >= TopWord => t[a] = stack[a]
  <2>1. TopWord - 5 + 0 # TopWord - 5 + 2  BY <1>10
  <2>2. /\ t \in [Words -> Nat] /\ t[TopWord - 5 + 0] = curFrame /\ t[TopWord - 5 + 2] = 0
        /\ \A c \in Words : c # TopWord - 5 + 0 /\ c # TopWord - 5 + 2 => t[c] = stack[c]
    BY <1>5, <1>11, <1>14, <1>15, <2>1, WriteTwo
  <2>3. \A a \in Words : a >= TopWord => a # TopWord - 5 + 0 /\ a # TopWord - 5 + 2
    BY <1>5, <1>10 DEF Words
  <2> QED  BY <2>2, <2>3
<1> HIDE DEF u
<1>17. /\ u \in [Words -> Nat] /\ u[fp - 5 + 0] = TopWord /\ u[fp - 5 + 2] = m
       /\ \A a \in Words : a >= fp => u[a] = t[a]
  <2>1. fp - 5 + 0 # fp - 5 + 2  BY <1>10
  <2>2. /\ u \in [Words -> Nat] /\ u[fp - 5 + 0] = TopWord /\ u[fp - 5 + 2] = m
        /\ \A c \in Words : c # fp - 5 + 0 /\ c # fp - 5 + 2 => u[c] = t[c]
    BY <1>2, <1>5, <1>12, <1>14, <1>16, <2>1, WriteTwo
  <2>3. \A a \in Words : a >= fp => a # fp - 5 + 0 /\ a # fp - 5 + 2
    BY <1>10 DEF Words
  <2> QED  BY <2>2, <2>3
<1> HIDE DEF s
<1>18. \A a \in Words : a \notin ins .. (ins + n - 1) => s[a] = u[a]  BY <1>13
<1>19. s \in [Words -> Nat]
  <2>1. ASSUME NEW b \in Words, b \in ins .. (ins + n - 1) PROVE args[b - ins + 1] \in Nat
    <3>1. b - ins + 1 \in 1 .. n  BY <1>3, <1>10, <2>1
    <3> QED  BY <1>2, <1>7, <3>1
  <2> QED  BY <1>13, <1>17, <2>1
<1>20. /\ s[TopWord - 5 + 0] = curFrame /\ s[TopWord - 5 + 2] = 0
       /\ s[fp - 5 + 0] = TopWord /\ s[fp - 5 + 2] = m
  <2>1. /\ TopWord - 5 + 0 \notin ins .. (ins + n - 1) /\ TopWord - 5 + 2 \notin ins .. (ins + n - 1)
        /\ fp - 5 + 0 \notin ins .. (ins + n - 1) /\ fp - 5 + 2 \notin ins .. (ins + n - 1)
    BY <1>3, <1>5, <1>10
  <2>2. TopWord - 5 + 0 >= fp /\ TopWord - 5 + 2 >= fp  BY <1>3, <1>5, <1>10
  <2> QED  BY <1>14, <1>16, <1>17, <1>18, <2>1, <2>2
<1>21. \A a \in Words : a >= TopWord => s[a] = stack[a]
  <2> TAKE a \in Words
  <2> HAVE a >= TopWord
  <2>1. a >= fp /\ a \notin ins .. (ins + n - 1)  BY <1>3, <1>5, <1>10 DEF Words
  <2> QED  BY <1>16, <1>17, <1>18, <2>1
<1>22. ASSUME sizes[m].native, NEW i \in 1 .. Len(args) PROVE s[fp + i - 1] = args[i]
  <2>1. fp = ins /\ i \in 1 .. n  BY <1>3, <1>7, <1>10, <1>22
  <2>2. /\ fp + i - 1 \in Words /\ fp + i - 1 \in ins .. (ins + n - 1)
        /\ (fp + i - 1) - ins + 1 = i
    BY <1>3, <1>5, <1>10, <2>1 DEF Words
  <2> QED  BY <1>13, <2>2
<1>23. /\ SAVEAREA_FROM_FP(fp) >= interpStackEnd /\ fp >= SaveAreaSize
       /\ fp + sizes[m].registersSize <= TopWord
       /\ fp + sizes[m].registersSize <= SAVEAREA_FROM_FP(TopWord)
       /\ s[SAVEAREA_FROM_FP(fp) + prevFrame] = TopWord
       /\ s[SAVEAREA_FROM_FP(TopWord) + prevFrame] = curFrame
       /\ s[SAVEAREA_FROM_FP(TopWord) + method] = NoFP
       /\ s[SAVEAREA_FROM_FP(fp) + method] = m
  BY <1>5, <1>10, <1>20 DEF SAVEAREA_FROM_FP, SaveAreaSize, prevFrame, method, size, NoFP
<1>24. sizes[m].native => /\ Len(args) = sizes[m].registersSize
                          /\ \A i \in 1 .. Len(args) : s[fp + i - 1] = args[i]
  BY <1>3, <1>7, <1>22 DEF size
<1> QED
  BY <1>1, <1>7, <1>10, <1>19, <1>21, <1>23, <1>24, PushKeeps

\* Following prevFrame from a frame leads to its caller: the method of a frame is not 0, by
\* which a break frame is told.
LEMMA LeadsToCaller ==
    ASSUME StackInv, NEW k \in 1 .. Len(frames)
    PROVE  CallerOf(frames[k].fp) = CallerFP(frames, k)
<1> USE DEF StackInv
<1>1. LinkedFrame(stack, frames, k)  BY DEF FramesInv
<1>2. k \in Nat  BY FrameRecords
<1>3. CASE k > 1 /\ stack[SAVEAREA_FROM_FP(frames[k].fp) + prevFrame] = CallerFP(frames, k)
  <2>1. k - 1 \in 1 .. Len(frames)  BY <1>3, FrameRecords
  <2>2. MethodAt(frames[k - 1].fp) = frames[k - 1].method
    BY <2>1 DEF FramesInv, KeptFrame, MethodAt
  <2>3. frames[k - 1].method # 0  BY <2>1, FramePlaces, FrameFields, StackNumbers
  <2>4. CallerFP(frames, k) = frames[k - 1].fp  BY <1>3 DEF CallerFP
  <2> QED  BY <1>3, <2>2, <2>3, <2>4 DEF CallerOf, dvmIsBreakFrame, NoFP
<1>4. CASE /\ stack[SAVEAREA_FROM_FP(frames[k].fp) + prevFrame] = TopOf(frames, k)
           /\ stack[SAVEAREA_FROM_FP(TopOf(frames, k)) + prevFrame] = CallerFP(frames, k)
           /\ stack[SAVEAREA_FROM_FP(TopOf(frames, k)) + method] = NoFP
  BY <1>4 DEF CallerOf, dvmIsBreakFrame, MethodAt
<1> QED  BY <1>1, <1>3, <1>4 DEF LinkedFrame

\* The frames that are left keep their words when the last goes.
LEMMA PopKeeps == ASSUME StackInv, dvmPopFrame PROVE StackInv'
<1> USE DEF StackInv
<1>1. PICK n \in Nat : n = Len(frames)  BY FrameRecords
<1>2. frames # <<>> /\ n \in 1 .. n /\ curFrame = frames[n].fp
  BY <1>1, TopWordPlace DEF dvmPopFrame
<1>3. CallerOf(curFrame) = CallerFP(frames, n)  BY <1>1, <1>2, LeadsToCaller
<1>4. PICK top : top = TopOf(frames, n)  OBVIOUS
<1>5. /\ curFrame' = CallerFP(frames, n)
      /\ stack' = [a \in Words |-> IF a < top THEN 0 ELSE stack[a]]
  <2>1. CASE n = 1  BY <1>3, <1>4, <2>1 DEF dvmPopFrame, CallerFP, TopOf
  <2>2. CASE n # 1
    <3>1. n - 1 \in 1 .. Len(frames)  BY <1>1, <1>2, <2>2
    <3>2. CallerFP(frames, n) # NoFP
      BY <2>2, <3>1, FramePlaces DEF CallerFP, NoFP, SaveAreaSize
    <3> QED  BY <1>3, <1>4, <2>2, <3>2 DEF dvmPopFrame, CallerFP, TopOf
  <2> QED  BY <2>1, <2>2
<1>6. PICK gs : gs = frames'  OBVIOUS
<1>7. /\ gs = SubSeq(frames, 1, n - 1)
      /\ interpStackEnd' = interpStackEnd /\ stackOverflowed' = stackOverflowed /\ sizes' = sizes
  BY <1>1, <1>6 DEF dvmPopFrame
<1>8. gs \in Seq(FrameRecord) /\ Len(gs) = n - 1 /\ \A k \in 1 .. (n - 1) : gs[k] = frames[k]
  BY <1>1, <1>2, <1>7, SubSeqProperties DEF StackTypesInv
<1>9. PICK s : s = stack'  OBVIOUS
<1>10. s \in [Words -> Nat]  BY <1>5, <1>9 DEF StackTypesInv
<1>11. StackTypesInv'
  <2>1. curFrame' = IF gs = <<>> THEN NoFP ELSE gs[Len(gs)].fp
    <3>1. CASE n = 1  BY <1>5, <1>8, <3>1, EmptySeq DEF CallerFP
    <3>2. CASE n # 1
      <4>1. n - 1 \in 1 .. (n - 1) /\ gs # <<>>  BY <1>2, <1>8, <3>2, EmptySeq
      <4> QED  BY <1>5, <1>8, <3>2, <4>1 DEF CallerFP
    <3> QED  BY <3>1, <3>2
  <2> QED  BY <1>6, <1>7, <1>8, <1>9, <1>10, <2>1 DEF StackTypesInv
<1>12. SizesInv'  BY <1>7 DEF SizesInv
<1>13. ASSUME NEW k \in 1 .. (n - 1) PROVE LinkedFrame(s, gs, k) /\ KeptFrame(s, gs, k)
  <2>1. k \in 1 .. n /\ n - 1 \in 1 .. n /\ k \in Nat \ {0}  BY <1>2
  <2>2. frames[k] \in FrameRecord /\ TopOf(frames, k) \in 0 .. interpStackStart
        /\ frames[k].fp \in Nat /\ frames[n - 1].fp \in Nat
    BY <1>1, <2>1, FramePlaces
  <2>3. top = frames[n - 1].fp - 5
    BY <1>2, <1>4 DEF TopOf, SAVEAREA_FROM_FP, SaveAreaSize
  <2>4. frames[k].fp - 5 >= top
    <3>1. CASE k = n - 1  BY <2>2, <2>3, <3>1
    <3>2. CASE k # n - 1
      <4>1. frames[n - 1].fp <= frames[k].fp - 5
        BY <1>1, <2>1, <3>2 DEF FramesInv, SAVEAREA_FROM_FP, SaveAreaSize
      <4> QED  BY <2>2, <2>3, <4>1
    <3> QED  BY <3>1, <3>2
  <2>5. \A a \in Words : a >= SAVEAREA_FROM_FP(frames[k].fp) => s[a] = stack[a]
    <3>1. \A a \in Words : a >= frames[k].fp - 5 => ~(a < top)
      BY <2>2, <2>3, <2>4 DEF Words
    <3> QED  BY <1>5, <1>9, <3>1 DEF SAVEAREA_FROM_FP, SaveAreaSize
  <2>6. LinkedFrame(stack, frames, k) /\ KeptFrame(stack, frames, k)  BY <1>1, <2>1 DEF FramesInv
  <2>7. gs[k] = frames[k] /\ (k > 1 => gs[k - 1] = frames[k - 1])  BY <1>8
  <2> HIDE DEF StackInv
  <2> QED  BY ONLY <2>1, <2>2, <2>5, <2>6, <2>7, FrameStays
<1>14. \A k, l \in 1 .. (n - 1) : k < l => gs[l].fp <= SAVEAREA_FROM_FP(gs[k].fp)
  BY <1>1, <1>8 DEF FramesInv
<1>15. \A k \in 1 .. (n - 1) : SAVEAREA_FROM_FP(gs[k].fp) >= interpStackEnd
  BY <1>1, <1>8 DEF FramesInv
<1>16. FramesInv'
  BY <1>6, <1>7, <1>8, <1>9, <1>13, <1>14, <1>15 DEF FramesInv
<1> QED  BY <1>11, <1>12, <1>16

-----------------------------------------------------------------------------
(* Steps that leave the frames where they are.                              *)

\* The registers of the last frame are no words of another frame's, nor of the save areas.
LEMMA SetRegisterKeeps ==
    ASSUME StackInv, NEW i \in 1 .. StackSize, NEW v \in Computed, SetRegister(i, v)
    PROVE  StackInv'
<1> USE DEF StackInv
<1>1. PICK n \in Nat : n = Len(frames)  BY FrameRecords
<1>2. /\ frames # <<>> /\ n \in 1 .. n /\ curFrame = frames[n].fp /\ TopFrame = frames[n]
      /\ DOMAIN frames = 1 .. n
  BY <1>1, TopWordPlace, FrameRecords DEF SetRegister
<1>3. PICK f : f = frames[n]  OBVIOUS
<1>4. f \in FrameRecord /\ f.fp \in Nat /\ f.registers \in Seq(Nat) /\ Len(f.registers) \in Nat
      /\ f.fp >= 5 /\ TopOf(frames, n) \in 0 .. interpStackStart
  BY <1>1, <1>2, <1>3, FramePlaces, FrameFields DEF SaveAreaSize
<1>5. ~f.native /\ i \in 1 .. Len(f.registers) /\ v \in Nat /\ i \in Nat
  BY <1>2, <1>3, <1>4, StackNumbers DEF SetRegister
<1>6. PICK s, gs, g : /\ s = stack' /\ gs = frames'
                      /\ g = [f EXCEPT !.registers = [f.registers EXCEPT ![i] = v]]
  OBVIOUS
<1>7. /\ s = [stack EXCEPT ![f.fp + i - 1] = v]
      /\ gs = [frames EXCEPT ![n] = g]
      /\ curFrame' = curFrame /\ interpStackEnd' = interpStackEnd
      /\ stackOverflowed' = stackOverflowed /\ sizes' = sizes
  BY <1>1, <1>2, <1>3, <1>6 DEF SetRegister
<1>8. /\ [f.registers EXCEPT ![i] = v] \in Seq(Nat)
      /\ Len([f.registers EXCEPT ![i] = v]) = Len(f.registers)
      /\ \A j \in 1 .. Len(f.registers) :
            [f.registers EXCEPT ![i] = v][j] = IF j = i THEN v ELSE f.registers[j]
  BY <1>4, <1>5, ExceptSeq
<1>9. /\ g \in FrameRecord /\ g.fp = f.fp /\ g.method = f.method
      /\ g.registers = [f.registers EXCEPT ![i] = v]
  BY <1>4, <1>6, <1>8 DEF FrameRecord
<1>10. g.native = f.native  BY <1>4, <1>6 DEF FrameRecord
<1>11. /\ gs \in Seq(FrameRecord) /\ Len(gs) = n /\ gs[n] = g /\ gs # <<>>
       /\ \A k \in 1 .. n : k # n => gs[k] = frames[k]
  <2>1. frames \in Seq(FrameRecord)  BY DEF StackTypesInv
  <2>2. gs \in Seq(FrameRecord) /\ Len(gs) = n
    BY <1>1, <1>2, <1>7, <1>9, <2>1, ExceptSeq
  <2>3. gs[n] = g /\ \A k \in 1 .. n : k # n => gs[k] = frames[k]
    BY <1>1, <1>2, <1>7
  <2> QED  BY <1>2, <2>2, <2>3, EmptySeq
<1>12. f.fp + Len(f.registers) <= TopOf(frames, n) /\ LinkedFrame(stack, frames, n) /\ KeptFrame(stack, frames, n)
  BY <1>1, <1>2, <1>3 DEF FramesInv, KeptFrame
<1>13. stack \in [Words -> Nat] /\ interpStackStart \in Nat  BY StackNumbers DEF StackTypesInv
<1>14. PICK fp \in Nat, len \in Nat, up \in Nat :
            /\ fp = f.fp /\ len = Len(f.registers) /\ up = TopOf(frames, n)
            /\ fp >= 5 /\ fp + len <= up /\ up <= interpStackStart /\ i \in 1 .. len
  <2>1. TopOf(frames, n) \in Nat /\ TopOf(frames, n) <= interpStackStart  BY <1>4, <1>13
  <2> QED  BY <1>4, <1>5, <1>12, <2>1
<1> HIDE DEF StackInv
<1>15. \A a \in Nat : a < interpStackStart => a \in Words  BY StackNumbers DEF Words
<1>16. /\ fp >= 5 /\ fp + len <= up /\ up <= interpStackStart /\ interpStackStart \in Nat
       /\ i \in Nat /\ i >= 1 /\ i <= len
  BY <1>14, StackNumbers
<1>17. /\ fp + i - 1 \in Nat /\ fp + i - 1 < interpStackStart /\ fp + i - 1 < up
       /\ fp - 5 + 0 \in Nat /\ fp - 5 + 0 < interpStackStart /\ fp - 5 + 0 # fp + i - 1
       /\ fp - 5 + 2 \in Nat /\ fp - 5 + 2 < interpStackStart /\ fp - 5 + 2 # fp + i - 1
       /\ \A j \in 1 .. len : j # i => /\ fp + j - 1 \in Nat /\ fp + j - 1 < interpStackStart
                                     /\ fp + j - 1 # fp + i - 1
  BY <1>16
<1>18. fp = f.fp /\ len = Len(f.registers) /\ up = TopOf(frames, n)  BY <1>14
<1>19. /\ f.fp + i - 1 \in Words /\ s \in [Words -> Nat] /\ s[f.fp + i - 1] = v
       /\ \A a \in Words : a # f.fp + i - 1 => s[a] = stack[a]
  <2>1. f.fp + i - 1 \in Words  BY <1>15, <1>17, <1>18
  <2> QED  BY <1>5, <1>7, <1>13, <2>1
<1>20. \A k \in 1 .. n : gs[k].fp = frames[k].fp
  BY <1>3, <1>9, <1>11
<1>21. TopOf(gs, n) = TopOf(frames, n) /\ CallerFP(gs, n) = CallerFP(frames, n)
  <2>1. CASE n = 1  BY <2>1 DEF TopOf, CallerFP
  <2>2. CASE n # 1
    <3>1. n - 1 \in 1 .. n  BY <1>2, <2>2
    <3> QED  BY <1>20, <2>2, <3>1 DEF TopOf, CallerFP
  <2> QED  BY <2>1, <2>2
<1>22. KeptFrame(s, gs, n)
  <2>1. \A j \in 1 .. Len(f.registers) : stack[f.fp + j - 1] = f.registers[j]
    BY <1>3, <1>12 DEF KeptFrame
  <2>2. ASSUME NEW j \in 1 .. Len(f.registers)
        PROVE  s[f.fp + j - 1] = IF j = i THEN v ELSE f.registers[j]
    <3>1. CASE j = i  BY <1>19, <3>1
    <3>2. CASE j # i
      <4>1. f.fp + j - 1 \in Words /\ f.fp + j - 1 # f.fp + i - 1
        BY <1>15, <1>17, <1>18, <3>2
      <4> QED  BY <1>19, <2>1, <3>2, <4>1
    <3> QED  BY <3>1, <3>2
  <2>3. s[f.fp - 5 + 2] = f.method
    <3>1. stack[f.fp - 5 + 2] = f.method
      BY <1>3, <1>12 DEF KeptFrame, SAVEAREA_FROM_FP, SaveAreaSize, method
    <3>2. f.fp - 5 + 2 \in Words /\ f.fp - 5 + 2 # f.fp + i - 1
      BY <1>15, <1>17, <1>18
    <3> QED  BY <1>19, <3>1, <3>2
  <2>4. /\ gs[n].fp = f.fp /\ gs[n].method = f.method /\ ~gs[n].native
        /\ Len(gs[n].registers) = Len(f.registers)
        /\ \A j \in 1 .. Len(f.registers) : s[f.fp + j - 1] = gs[n].registers[j]
    BY <1>5, <1>8, <1>9, <1>10, <1>11, <2>2
  <2> QED
    BY <1>4, <1>12, <1>21, <2>3, <2>4 DEF KeptFrame, SAVEAREA_FROM_FP, SaveAreaSize, method
<1>23. LinkedFrame(s, gs, n)
  <2> DEFINE top == TopOf(frames, n)
  <2>1. gs[n].fp = f.fp /\ Len(gs[n].registers) = Len(f.registers)
    BY <1>8, <1>9, <1>11
  <2>2. s[f.fp - 5 + 0] = stack[f.fp - 5 + 0]
    <3>1. f.fp - 5 + 0 \in Words /\ f.fp - 5 + 0 # f.fp + i - 1
      BY <1>15, <1>17, <1>18
    <3> QED  BY <1>19, <3>1
  <2>3. top \in Nat /\ top <= interpStackStart  BY <1>4, <1>13
  <2> HIDE DEF top
  <2>4. CASE n > 1 /\ stack[f.fp - 5 + 0] = CallerFP(frames, n)
    BY <1>21, <2>1, <2>2, <2>4 DEF LinkedFrame, SAVEAREA_FROM_FP, SaveAreaSize, prevFrame
  <2>5. CASE /\ f.fp + Len(f.registers) <= top - 5
             /\ stack[f.fp - 5 + 0] = top
             /\ stack[top - 5 + 0] = CallerFP(frames, n)
             /\ stack[top - 5 + 2] = NoFP
    <3>1. /\ top - 5 + 0 \in Words /\ top - 5 + 0 # f.fp + i - 1
          /\ top - 5 + 2 \in Words /\ top - 5 + 2 # f.fp + i - 1
      <4>1. top = up /\ fp + len <= up - 5  BY <1>18, <2>5 DEF top
      <4>2. /\ up - 5 + 0 \in Nat /\ up - 5 + 0 < interpStackStart /\ up - 5 + 0 # fp + i - 1
            /\ up - 5 + 2 \in Nat /\ up - 5 + 2 < interpStackStart /\ up - 5 + 2 # fp + i - 1
        BY <1>16, <4>1
      <4> QED  BY <1>15, <1>18, <4>1, <4>2
    <3>2. s[top - 5 + 0] = stack[top - 5 + 0] /\ s[top - 5 + 2] = stack[top - 5 + 2]
      BY <1>19, <3>1
    <3> QED
      BY <1>21, <2>1, <2>2, <2>5, <3>2
      DEF LinkedFrame, SAVEAREA_FROM_FP, SaveAreaSize, prevFrame, method, top
  <2> QED
    BY <1>3, <1>12, <2>4, <2>5 DEF LinkedFrame, SAVEAREA_FROM_FP, SaveAreaSize, prevFrame, method, top
<1>24. ASSUME NEW k \in 1 .. n, k # n PROVE LinkedFrame(s, gs, k) /\ KeptFrame(s, gs, k)
  <2>1. k \in Nat \ {0} /\ k \in 1 .. n /\ n - 1 \in 1 .. n /\ n # 1  BY <1>2, <1>24
  <2>2. frames[k] \in FrameRecord /\ TopOf(frames, k) \in 0 .. interpStackStart
        /\ frames[k].fp \in Nat /\ frames[n - 1].fp \in Nat
    BY <1>1, <2>1, FramePlaces
  <2>3. f.fp + Len(f.registers) <= frames[n - 1].fp - 5
    BY <1>12, <2>1 DEF TopOf, SAVEAREA_FROM_FP, SaveAreaSize
  <2>4. frames[n - 1].fp <= frames[k].fp
    <3>1. CASE k = n - 1  BY <2>2, <3>1
    <3>2. CASE k # n - 1
      <4>1. k < n - 1  BY <1>24, <2>1, <3>2
      <4>2. frames[n - 1].fp <= frames[k].fp - 5
        BY <1>1, <2>1, <4>1 DEF StackInv, FramesInv, SAVEAREA_FROM_FP, SaveAreaSize
      <4> QED  BY <2>2, <4>2
    <3> QED  BY <3>1, <3>2
  <2>5. \A a \in Words : a >= SAVEAREA_FROM_FP(frames[k].fp) => s[a] = stack[a]
    <3>1. \A a \in Words : a >= frames[k].fp - 5 => a # f.fp + i - 1
      <4>1. PICK p \in Nat : p = frames[k].fp  BY <2>2
      <4>2. PICK q \in Nat : q = frames[n - 1].fp  BY <2>2
      <4>4. fp + len <= q - 5 /\ q <= p  BY <1>18, <2>3, <2>4, <4>1, <4>2
      <4>5. fp + i - 1 < p - 5  BY <1>16, <4>4
      <4>3. \A a \in Words : a \in Nat  BY DEF Words
      <4> QED  BY <1>18, <1>16, <4>1, <4>3, <4>5
    <3> QED  BY <1>19, <3>1 DEF SAVEAREA_FROM_FP, SaveAreaSize
  <2>6. LinkedFrame(stack, frames, k) /\ KeptFrame(stack, frames, k)  BY <1>1, <2>1 DEF StackInv, FramesInv
  <2>7. gs[k] = frames[k] /\ (k > 1 => gs[k - 1] = frames[k - 1])  BY <1>11, <1>24
  <2> QED  BY ONLY <2>1, <2>2, <2>5, <2>6, <2>7, FrameStays
<1>25. \A k \in 1 .. n : LinkedFrame(s, gs, k) /\ KeptFrame(s, gs, k)
  BY <1>22, <1>23, <1>24
<1>26. FramesInv'
  <2>1. \A k, l \in 1 .. n : k < l => gs[l].fp <= SAVEAREA_FROM_FP(gs[k].fp)
    BY <1>1, <1>20 DEF StackInv, FramesInv
  <2>2. \A k \in 1 .. n : SAVEAREA_FROM_FP(gs[k].fp) >= interpStackEnd
    BY <1>1, <1>20 DEF StackInv, FramesInv
  <2> QED  BY <1>6, <1>7, <1>11, <1>25, <2>1, <2>2 DEF FramesInv
<1>27. StackTypesInv'
  <2>1. curFrame' = gs[Len(gs)].fp  BY <1>2, <1>7, <1>11, <1>20
  <2> QED  BY <1>6, <1>7, <1>11, <1>19, <2>1 DEF StackInv, StackTypesInv
<1>28. SizesInv'  BY <1>7 DEF StackInv, SizesInv
<1> QED  BY <1>26, <1>27, <1>28 DEF StackInv

\* The limit is lowered.
LEMMA HandleOverflowKeeps == ASSUME StackInv, dvmHandleStackOverflow PROVE StackInv'
<1> USE DEF StackInv
<1>1. /\ stack' = stack /\ curFrame' = curFrame /\ sizes' = sizes /\ frames' = frames
      /\ ~stackOverflowed /\ stackOverflowed' = TRUE
      /\ interpStackEnd' = interpStackEnd - STACK_OVERFLOW_RESERVE
  BY DEF dvmHandleStackOverflow
<1>2. interpStackEnd = STACK_OVERFLOW_RESERVE /\ interpStackEnd' = 0
  BY <1>1, StackNumbers DEF StackTypesInv
<1>3. StackTypesInv' /\ SizesInv'  BY <1>1, <1>2 DEF StackTypesInv, SizesInv
<1>4. \A k \in 1 .. Len(frames) : SAVEAREA_FROM_FP(frames[k].fp) >= 0
  BY FramePlaces DEF SAVEAREA_FROM_FP, SaveAreaSize
<1>5. FramesInv'  BY <1>1, <1>2, <1>4 DEF FramesInv
<1> QED  BY <1>3, <1>5

\* The limit is raised when no frame is below it.
LEMMA CleanupOverflowKeeps == ASSUME StackInv, dvmCleanupStackOverflow PROVE StackInv'
<1> USE DEF StackInv
<1>1. /\ stack' = stack /\ curFrame' = curFrame /\ sizes' = sizes /\ frames' = frames
      /\ stackOverflowed /\ stackOverflowed' = FALSE
      /\ interpStackEnd' = interpStackEnd + STACK_OVERFLOW_RESERVE
      /\ AllFramesAbove(interpStackEnd + STACK_OVERFLOW_RESERVE)
  BY DEF dvmCleanupStackOverflow
<1>2. interpStackEnd = 0 /\ interpStackEnd' = STACK_OVERFLOW_RESERVE
  BY <1>1, StackNumbers DEF StackTypesInv
<1>3. StackTypesInv' /\ SizesInv'  BY <1>1, <1>2 DEF StackTypesInv, SizesInv
<1>4. ASSUME NEW k \in 1 .. Len(frames)
      PROVE  SAVEAREA_FROM_FP(frames[k].fp) >= STACK_OVERFLOW_RESERVE
  <2>1. frames # <<>>  BY FrameRecords
  <2>2. Executing /\ curFrame \in Nat  BY <2>1, TopWordPlace
  <2>3. curFrame - 5 >= STACK_OVERFLOW_RESERVE
    BY <1>1, <1>2, <2>2, StackNumbers DEF AllFramesAbove, SAVEAREA_FROM_FP, SaveAreaSize
  <2>4. frames[k].fp - 5 >= curFrame - 5 /\ frames[k].fp \in Nat
    BY <2>1, TopWordPlace, FramePlaces DEF TopWord, SAVEAREA_FROM_FP, SaveAreaSize
  <2> QED  BY <2>2, <2>3, <2>4, StackNumbers DEF SAVEAREA_FROM_FP, SaveAreaSize
<1>5. FramesInv'  BY <1>1, <1>2, <1>4 DEF FramesInv
<1> QED  BY <1>3, <1>5

\* A hooked method has just its ins for registers; frames are not looked at.
LEMMA HookKeeps == ASSUME StackInv, NEW m \in Methods, hookMethod(m) PROVE StackInv'
<1> USE DEF StackInv
<1>1. /\ stack' = stack /\ curFrame' = curFrame /\ interpStackEnd' = interpStackEnd
      /\ stackOverflowed' = stackOverflowed /\ frames' = frames
  BY DEF hookMethod
<1>2. PICK r : r = [sizes[m] EXCEPT !.registersSize = sizes[m].insSize, !.outsSize = 0,
                                    !.native = TRUE]
  OBVIOUS
<1>3. sizes' = [sizes EXCEPT ![m] = r]  BY <1>2 DEF hookMethod, HookedSize
<1>4. sizes[m] \in MethodSizes /\ sizes \in [Methods \cup Copies -> MethodSizes]  BY DEF SizesInv
<1>5. r \in MethodSizes /\ r.registersSize = r.insSize
  BY <1>2, <1>4 DEF MethodSizes
<1>6. r.insSize \in Nat  BY <1>5 DEF MethodSizes
<1>7. SizesInv'
  <2>1. sizes' \in [Methods \cup Copies -> MethodSizes]  BY <1>3, <1>4, <1>5
  <2>2. ASSUME NEW n \in Methods \cup Copies
        PROVE  /\ sizes'[n].insSize <= sizes'[n].registersSize
               /\ sizes'[n].native => sizes'[n].insSize = sizes'[n].registersSize
    <3>1. CASE n = m  BY <1>3, <1>4, <1>5, <1>6, <3>1
    <3>2. CASE n # m
      <4>1. sizes'[n] = sizes[n]  BY <1>3, <1>4, <3>2
      <4> QED  BY <4>1 DEF SizesInv
    <3> QED  BY <3>1, <3>2
  <2> QED  BY <2>1, <2>2 DEF SizesInv
<1>8. StackTypesInv'  BY <1>1 DEF StackTypesInv
<1>9. FramesInv'  BY <1>1 DEF FramesInv
<1> QED  BY <1>7, <1>8, <1>9

-----------------------------------------------------------------------------
(* The invariant.                                                           *)

LEMMA StackInitInv == StackInit => StackInv
<1> SUFFICES ASSUME StackInit PROVE StackInv  OBVIOUS
<1>1. StackTypesInv  BY EmptySeq DEF StackInit, StackTypesInv
<1>2. ASSUME NEW m \in Methods
      PROVE  Original(m) \in MethodSizes /\ Original(m).insSize <= Original(m).registersSize
             /\ ~Original(m).native
  BY StackAssumption DEF Original, MethodSizes
<1>3. ASSUME NEW m \in Methods \cup Copies
      PROVE  \E n \in Methods : sizes[m] = Original(n)
  <2>1. CASE m \in Methods  BY <2>1 DEF StackInit
  <2>2. CASE m \in Copies /\ m \notin Methods
    <3>1. \E n \in Methods : Copy(n) = m  BY <2>2 DEF Copies
    <3> QED  BY <2>2, <3>1 DEF StackInit
  <2> QED  BY <2>1, <2>2
<1>4. \A m \in Methods \cup Copies : sizes[m] \in MethodSizes /\ sizes[m].insSize <= sizes[m].registersSize
                                    /\ ~sizes[m].native
  BY <1>2, <1>3
<1>5. SizesInv
  <2>1. sizes \in [Methods \cup Copies -> MethodSizes]  BY <1>4 DEF StackInit
  <2> QED  BY <1>4, <2>1 DEF SizesInv
<1>6. FramesInv
  <2>1. Len(frames) = 0  BY DEF StackInit
  <2> QED  BY <2>1 DEF FramesInv
<1> QED  BY <1>1, <1>5, <1>6 DEF StackInv

LEMMA StackStepInv == StackInv /\ [StackNext]_stackVars => StackInv'
<1> SUFFICES ASSUME StackInv, [StackNext]_stackVars PROVE StackInv'  OBVIOUS
<1>1. CASE UNCHANGED stackVars
  BY <1>1 DEF stackVars, StackInv, StackTypesInv, SizesInv, FramesInv, LinkedFrame, KeptFrame
<1>2. ASSUME NEW m \in Methods, InvokeMethod(m) PROVE StackInv'  BY <1>2, InvokeKeeps
<1>3. ASSUME NEW m \in Methods, hookMethod(m) PROVE StackInv'  BY <1>3, HookKeeps
<1>4. ASSUME NEW m \in Methods \cup Copies, NEW n \in Computed, CallFromVM(m, n) PROVE StackInv'
  BY <1>4, CallFromVMKeeps
<1>5. ASSUME NEW i \in 1 .. StackSize, NEW n \in Computed, SetRegister(i, n) PROVE StackInv'
  BY <1>5, SetRegisterKeeps
<1>6. CASE dvmPopFrame  BY <1>6, PopKeeps
<1>7. CASE dvmHandleStackOverflow  BY <1>7, HandleOverflowKeeps
<1>8. CASE dvmCleanupStackOverflow  BY <1>8, CleanupOverflowKeeps
<1> QED  BY <1>1, <1>2, <1>3, <1>4, <1>5, <1>6, <1>7, <1>8 DEF StackNext

LEMMA StackInvariance == StackSpec => []StackInv
BY StackInitInv, StackStepInv, PTL DEF StackSpec

\* Registers that hold the elements of a sequence are that sequence.
LEMMA RegistersSeen ==
    ASSUME NEW s, NEW fp, NEW q \in Seq(Nat), \A i \in 1 .. Len(q) : s[fp + i - 1] = q[i]
    PROVE  RegistersIn(s, fp, Len(q)) = q
<1>1. PICK n \in Nat : n = Len(q)  BY LenProperties
<1>2. \A i \in 1 .. n : q[i] \in Nat  BY <1>1, ElementOfSeq
<1>3. /\ RegistersIn(s, fp, n) \in Seq(Nat) /\ Len(RegistersIn(s, fp, n)) = n
      /\ \A i \in 1 .. n : RegistersIn(s, fp, n)[i] = q[i]
  BY <1>1, <1>2 DEF RegistersIn
<1> QED  BY <1>1, <1>3, SeqEqual

LEMMA StackTyped == StackInv => StackTypeOK
<1> SUFFICES ASSUME StackInv PROVE StackTypeOK  OBVIOUS
<1>1. /\ stack \in [Words -> Nat] /\ stackOverflowed \in BOOLEAN
      /\ interpStackEnd \in {0, STACK_OVERFLOW_RESERVE}
  BY DEF StackInv, StackTypesInv
<1>2. \A k \in 1 .. Len(frames) : frames[k].fp \in Words
  BY FramePlaces, StackNumbers DEF Words
<1>3. \A k \in 1 .. Len(frames) : frames[k].native \in BOOLEAN  BY FramePlaces, FrameFields
<1>4. interpStackStart \in Nat /\ interpStackStart > 0
  BY StackAssumption DEF interpStackStart
<1>5. curFrame \in Words
  <2>1. CASE frames = <<>>  BY <1>4, <2>1 DEF StackInv, StackTypesInv, NoFP, Words
  <2>2. CASE frames # <<>>  BY <1>2, <2>2, TopWordPlace
  <2> QED  BY <2>1, <2>2
<1>6. \A m \in Methods : sizes[m].registersSize \in Nat /\ sizes[m].native \in BOOLEAN
  BY SizesFields DEF StackInv
<1>7. DOMAIN frames = 1 .. Len(frames)  BY FrameRecords DEF StackInv
<1> QED  BY <1>1, <1>2, <1>3, <1>5, <1>6, <1>7 DEF StackTypeOK

\* The types of the stack's variables; the frames lie within the stack.
THEOREM StackTypeCorrect == StackSpec => []StackTypeOK
BY StackTyped, StackInvariance, PTL

\* Whatever is called, returns, overflows, and is hooked with frames of it on the stack: a
\* walk over the stack meets the frames that were pushed, with their methods and registers;
\* the handler of a hooked method finds its arguments from args[0] on; and no frame
\* reaches into the reserve before it is made available.
THEOREM StackIsSound == StackSpec => []StackSound
<1>1. ASSUME StackInv PROVE StackSound
  <2> USE <1>1
  <2>1. DOMAIN frames = 1 .. Len(frames) /\ Len(frames) \in Nat /\ (frames = <<>> <=> Len(frames) = 0)
    BY FrameRecords DEF StackInv
  <2>2. Chain
    <3>1. curFrame = IF frames = <<>> THEN NoFP ELSE TopFrame.fp
      BY DEF StackInv, StackTypesInv, TopFrame
    <3> QED  BY <2>1, <3>1, LeadsToCaller DEF Chain, CallerFP
  <2>3. \A k \in 1 .. Len(frames) : KeptFrame(stack, frames, k)
    BY DEF StackInv, FramesInv
  <2>4. ASSUME NEW k \in 1 .. Len(frames)
        PROVE  /\ frames[k].registers \in Seq(Nat) /\ Len(frames[k].registers) \in Nat
               /\ frames[k].arguments \in Seq(Nat) /\ Len(frames[k].arguments) \in Nat
    BY FramePlaces, FrameFields
  <2>5. ASSUME NEW k \in 1 .. Len(frames)
        PROVE  RegistersIn(stack, frames[k].fp, Len(frames[k].registers)) = frames[k].registers
    <3>1. \A i \in 1 .. Len(frames[k].registers) :
             stack[frames[k].fp + i - 1] = frames[k].registers[i]
      BY <2>3 DEF KeptFrame
    <3> QED  BY <2>4, <3>1, RegistersSeen
  <2>6. FramesKept
    BY <2>1, <2>2, <2>3, <2>5 DEF FramesKept, KeptFrame, MethodAt
  <2>7. HandlerSeesArguments
    <3> SUFFICES ASSUME NEW k \in 1 .. Len(frames), frames[k].native
                 PROVE  RegistersIn(stack, frames[k].fp, Len(frames[k].arguments))
                          = frames[k].arguments
      BY <2>1 DEF HandlerSeesArguments
    <3>1. Len(frames[k].arguments) <= Len(frames[k].registers)  BY <2>3 DEF KeptFrame
    <3>2. \A i \in 1 .. Len(frames[k].registers) :
             stack[frames[k].fp + i - 1] = frames[k].registers[i]
      BY <2>3 DEF KeptFrame
    <3>3. \A i \in 1 .. Len(frames[k].arguments) :
             frames[k].registers[i] = frames[k].arguments[i]
      BY <2>3 DEF KeptFrame
    <3>4. ASSUME NEW i \in 1 .. Len(frames[k].arguments)
          PROVE  stack[frames[k].fp + i - 1] = frames[k].arguments[i]
      <4>1. i \in 1 .. Len(frames[k].registers)
        <5>1. PICK n \in Nat, m \in Nat :
                n = Len(frames[k].registers) /\ m = Len(frames[k].arguments)
          BY <2>4
        <5>2. m <= n /\ i \in 1 .. m  BY <3>1, <5>1
        <5>3. i \in 1 .. n  BY <5>2
        <5> QED  BY <5>1, <5>3
      <4> QED  BY <3>2, <3>3, <4>1
    <3>5. PICK q \in Seq(Nat) : q = frames[k].arguments  BY <2>4
    <3>6. PICK fp : fp = frames[k].fp  OBVIOUS
    <3>7. \A i \in 1 .. Len(q) : stack[fp + i - 1] = q[i]  BY <3>4, <3>5, <3>6
    <3>8. RegistersIn(stack, fp, Len(q)) = q
      <4>1. q \in Seq(Nat)  BY <3>5
      <4> QED  BY ONLY <3>7, <4>1, RegistersSeen
    <3> QED  BY <3>5, <3>6, <3>8
  <2>8. ReserveKept  BY <2>1, FramePlaces DEF ReserveKept
  <2> QED  BY <2>6, <2>7, <2>8 DEF StackSound
<1> QED  BY <1>1, StackInvariance, PTL

-----------------------------------------------------------------------------
(* ByteOrder.                                                              *)

LEMMA Remainder ==
    ASSUME NEW w \in Nat \ {0}, NEW q \in Int, NEW s \in 0 .. (w - 1), NEW v \in Int, v = w * q + s
    PROVE  v % w = s /\ v \div w = q
<1>1. /\ v = w * (v \div w) + (v % w) /\ v % w \in 0 .. (w - 1)
      /\ v \div w \in Int
  BY Z3
<1>2. PICK p \in Int, r \in 0 .. (w - 1) : p = v \div w /\ r = v % w
  BY <1>1
<1>3. w * (q - p) = r - s  BY <1>1, <1>2, Z3
<1>4. q - p \in Int /\ r - s < w /\ r - s > 0 - w  BY <1>2
<1>5. ~ (q - p >= 1)
  <2> SUFFICES ASSUME q - p >= 1 PROVE FALSE  OBVIOUS
  <2>1. w * (q - p) >= w  BY <1>4, Z3
  <2> QED  BY <1>3, <1>4, <2>1
<1>6. ~ (q - p <= -1)
  <2> SUFFICES ASSUME q - p <= -1 PROVE FALSE  OBVIOUS
  <2>1. w * (q - p) <= 0 - w  BY <1>4, Z3
  <2> QED  BY <1>3, <1>4, <2>1
<1>7. q - p = 0  BY <1>4, <1>5, <1>6
<1>8. w * (q - p) = 0  BY <1>7
<1> QED  BY <1>2, <1>3, <1>7, <1>8

\* One byte more of a number.
LEMMA OneByteMore ==
    ASSUME NEW b \in Nat \ {0}, NEW p \in Nat \ {0}, NEW v \in Int
    PROVE  v % (b * p) = (v % p) + ((v \div p) % b) * p
<1>1. v = p * (v \div p) + (v % p) /\ v % p \in 0 .. (p - 1) /\ v \div p \in Int  BY Z3
<1>2. PICK q \in Int, r \in 0 .. (p - 1) : q = v \div p /\ r = v % p  BY <1>1
<1>3. q = b * (q \div b) + (q % b) /\ q % b \in 0 .. (b - 1) /\ q \div b \in Int  BY Z3
<1>4. PICK c \in Int, s \in 0 .. (b - 1) : c = q \div b /\ s = q % b  BY <1>3
<1>5. q = b * c + s /\ v = p * q + r  BY <1>1, <1>2, <1>3, <1>4
<1>6. v = (b * p) * c + (r + s * p)
  <2>1. p * (b * c + s) = (b * p) * c + s * p  BY Z3
  <2>2. (b * p) * c \in Int /\ s * p \in Int  OBVIOUS
  <2> QED  BY <1>5, <2>1, <2>2
<1>7. b * p \in Nat \ {0}  BY Z3
<1>8. r + s * p \in 0 .. (b * p - 1)
  <2>1. s * p >= 0 /\ s * p \in Int  BY Z3
  <2>2. s * p <= (b - 1) * p  BY Z3
  <2>3. (b - 1) * p = b * p - p  BY Z3
  <2> QED  BY <1>7, <2>1, <2>2, <2>3
<1>9. v % (b * p) = r + s * p
  <2>1. PICK w \in Nat \ {0} : w = b * p  BY <1>7
  <2>2. PICK t \in 0 .. (w - 1) : t = r + s * p  BY <1>8, <2>1
  <2>3. v = w * c + t  BY <1>6, <2>1, <2>2
  <2>4. v % w = t  BY <2>3, Remainder
  <2> QED  BY <2>1, <2>2, <2>4
<1> QED  BY <1>2, <1>4, <1>9

LEMMA Powers ==
    /\ Power \in [0 .. 8 -> Nat \ {0}]
    /\ Power[0] = 1
    /\ \A k \in 1 .. 8 : Power[k] = BYTE * Power[k - 1]
<1> DEFINE D == Nat \ {0}
           step == [x \in D |-> BYTE * x]
           body(f) == [k \in 0 .. 8 |-> IF k = 0 THEN 1 ELSE BYTE * f[k - 1]]
           p == CHOOSE f : f = body(f)
<1>1. Power = p  BY DEF Power
<1>2. step \in [D -> D] /\ 1 \in D
  <2>1. \A x \in D : BYTE * x \in D  BY ByteAssumption, Z3
  <2> QED  BY <2>1
<1>3. PICK f \in [0 .. 8 -> D] : f[0] = 1 /\ \A n \in 1 .. 8 : f[n] = step[f[n - 1]]
  <2>1. PICK E : E = D  OBVIOUS
  <2> HIDE DEF step, D
  <2>2. step \in [E -> E] /\ 1 \in E /\ 8 \in Nat  BY <1>2, <2>1
  <2>3. \E f \in [0 .. 8 -> E] : Iterates(f, step, 1, 8)  BY ONLY <2>2, Iteration
  <2> QED  BY <2>1, <2>3 DEF Iterates
<1>4. ASSUME NEW n \in 0 .. 8 PROVE f[n] = IF n = 0 THEN 1 ELSE BYTE * f[n - 1]
  <2>1. CASE n = 0  BY <1>3, <2>1
  <2>2. CASE n # 0
    <3>1. n \in 1 .. 8 /\ n - 1 \in 0 .. 8  BY <2>2
    <3>2. f[n] = step[f[n - 1]] /\ f[n - 1] \in D  BY <1>3, <3>1
    <3> QED  BY <2>2, <3>2
  <2> QED  BY <2>1, <2>2
<1>5. f = body(f)
  <2>1. f = [n \in 0 .. 8 |-> f[n]]  OBVIOUS
  <2> QED  BY <1>4, <2>1
<1>6. p = body(p)  BY <1>5
<1>7. p[0] = 1 /\ \A k \in 1 .. 8 : p[k] = BYTE * p[k - 1]
  <2> HIDE DEF p
  <2> QED  BY <1>6
<1>8. p \in [0 .. 8 -> D]
  <2> DEFINE S == {k \in Nat : k <= 8 => p[k] \in D}
  <2>1. 0 \in S  BY <1>7
  <2>2. ASSUME NEW n \in Nat, n \in S PROVE n + 1 \in S
    <3>1. CASE n + 1 <= 8
      <4>1. n + 1 \in 1 .. 8 /\ n + 1 - 1 = n /\ n <= 8  BY <3>1
      <4> HIDE DEF p
      <4>2. p[n + 1] = BYTE * p[n] /\ p[n] \in D  BY <1>7, <2>2, <4>1
      <4>3. BYTE * p[n] \in D  BY <4>2, ByteAssumption, Z3
      <4> QED  BY <4>2, <4>3
    <3> QED  BY <3>1
  <2>3. Nat \subseteq S
    <3> HIDE DEF S
    <3> QED  BY <2>1, <2>2, SetInduction
  <2>4. \A k \in 0 .. 8 : p[k] \in D
    <3> HIDE DEF p
    <3> QED  BY <2>3
  <2>5. p = [k \in 0 .. 8 |-> p[k]]
    <3> HIDE DEF p
    <3>1. DOMAIN p = 0 .. 8  BY <1>6
    <3> QED  BY <1>6
  <2> HIDE DEF p
  <2> QED  BY <2>4, <2>5
<1> HIDE DEF p
<1> QED  BY <1>1, <1>7, <1>8

\* A sum from 0 to n is what its recursive definition says.
LEMMA Summation ==
    ASSUME NEW n \in Nat, NEW g, \A k \in 1 .. n : g[k] \in Int
    PROVE  \E f \in [0 .. n -> Int] : f = [k \in 0 .. n |-> IF k = 0 THEN 0 ELSE f[k - 1] + g[k]]
<1> DEFINE Summed(f, m) == f[0] = 0 /\ \A k \in 1 .. m : f[k] = f[k - 1] + g[k]
           S == {m \in Nat : m <= n => \E f \in [0 .. m -> Int] : Summed(f, m)}
<1>1. 0 \in S
  <2> DEFINE f == [k \in 0 .. 0 |-> 0]
  <2>1. f \in [0 .. 0 -> Int] /\ Summed(f, 0)  OBVIOUS
  <2> HIDE DEF f, Summed
  <2> QED  BY <2>1
<1>2. ASSUME NEW m \in Nat, m \in S PROVE m + 1 \in S
  <2> SUFFICES ASSUME m + 1 <= n PROVE \E f \in [0 .. (m + 1) -> Int] : Summed(f, m + 1)  OBVIOUS
  <2>1. PICK f \in [0 .. m -> Int] : Summed(f, m)  BY <1>2
  <2> DEFINE h == [k \in 0 .. (m + 1) |-> IF k = m + 1 THEN f[m] + g[m + 1] ELSE f[k]]
  <2>2. f[m] + g[m + 1] \in Int
    <3>1. m + 1 \in 1 .. n  OBVIOUS
    <3> QED  BY <3>1
  <2>3. \A k \in 0 .. (m + 1) : k # m + 1 => k \in 0 .. m  OBVIOUS
  <2>4. h \in [0 .. (m + 1) -> Int]  BY <2>2, <2>3
  <2>5. h[0] = 0  BY <2>1
  <2>6. ASSUME NEW k \in 1 .. (m + 1) PROVE h[k] = h[k - 1] + g[k]
    <3>1. CASE k = m + 1
      <4>1. k - 1 = m /\ h[k] = f[m] + g[m + 1] /\ h[m] = f[m]  BY <3>1
      <4> QED  BY <3>1, <4>1
    <3>2. CASE k # m + 1
      <4>1. k \in 1 .. m /\ k - 1 \in 0 .. m  BY <3>2
      <4>2. h[k] = f[k] /\ h[k - 1] = f[k - 1]  BY <4>1
      <4> QED  BY <2>1, <4>1, <4>2
    <3> QED  BY <3>1, <3>2
  <2> QED  BY <2>4, <2>5, <2>6
<1>3. PICK f \in [0 .. n -> Int] : Summed(f, n)
  <2>1. Nat \subseteq S
    <3> HIDE DEF S
    <3> QED  BY <1>1, <1>2, SetInduction
  <2> QED  BY <2>1
<1>4. ASSUME NEW k \in 0 .. n PROVE f[k] = IF k = 0 THEN 0 ELSE f[k - 1] + g[k]
  <2>1. CASE k = 0  BY <1>3, <2>1
  <2>2. CASE k # 0
    <3>1. k \in 1 .. n  BY <2>2
    <3> QED  BY <1>3, <2>2, <3>1
  <2> QED  BY <2>1, <2>2
<1>5. f = [k \in 0 .. n |-> f[k]]  OBVIOUS
<1> QED  BY <1>4, <1>5

\* Bytes put together are the number that they are the bytes of, as far as they go.
LEMMA ValueOfDigits ==
    ASSUME NEW n \in 0 .. 8, NEW v \in Int, NEW bytes, \A k \in 0 .. (n - 1) : bytes[k] = Digit(v, k)
    PROVE  Value(bytes, n) = v % Power[n]
<1> DEFINE g == [k \in 1 .. n |-> bytes[k - 1] * Power[k - 1]]
           body(f) == [k \in 0 .. n |-> IF k = 0 THEN 0 ELSE f[k - 1] + bytes[k - 1] * Power[k - 1]]
           sum == CHOOSE f : f = body(f)
<1>1. Value(bytes, n) = sum[n]  BY DEF Value
<1>2. \A k \in 0 .. (n - 1) : k \in 0 .. 8 /\ Power[k] \in Nat \ {0} /\ Digit(v, k) \in Nat
  <2> SUFFICES ASSUME NEW k \in 0 .. (n - 1)
               PROVE  k \in 0 .. 8 /\ Power[k] \in Nat \ {0} /\ Digit(v, k) \in Nat
    OBVIOUS
  <2>1. k \in 0 .. 8 /\ Power[k] \in Nat \ {0}  BY Powers
  <2>2. v \div Power[k] \in Int  BY <2>1, Z3
  <2>3. (v \div Power[k]) % BYTE \in Nat
    <3>1. PICK q \in Int : q = v \div Power[k]  BY <2>2
    <3>2. q % BYTE \in 0 .. (BYTE - 1)  BY ByteAssumption, Z3
    <3> QED  BY <3>1, <3>2, ByteAssumption
  <2> QED  BY <2>1, <2>3 DEF Digit
<1>3. \A k \in 1 .. n : g[k] \in Int
  <2> SUFFICES ASSUME NEW k \in 1 .. n PROVE g[k] \in Int  OBVIOUS
  <2>1. k - 1 \in 0 .. (n - 1)  OBVIOUS
  <2>2. PICK a \in Nat, b \in Nat : a = bytes[k - 1] /\ b = Power[k - 1]  BY <1>2, <2>1
  <2>3. g[k] = a * b  BY <2>2
  <2> QED  BY <2>3
<1>4. PICK f \in [0 .. n -> Int] : f = [k \in 0 .. n |-> IF k = 0 THEN 0 ELSE f[k - 1] + g[k]]
  <2>1. n \in Nat  OBVIOUS
  <2> HIDE DEF g
  <2> QED  BY ONLY <1>3, <2>1, Summation
<1>5. f = body(f)
  <2>1. \A k \in 0 .. n : (IF k = 0 THEN 0 ELSE f[k - 1] + g[k])
                            = (IF k = 0 THEN 0 ELSE f[k - 1] + bytes[k - 1] * Power[k - 1])
    <3> SUFFICES ASSUME NEW k \in 0 .. n, k # 0
                 PROVE  g[k] = bytes[k - 1] * Power[k - 1]
      OBVIOUS
    <3>1. k \in 1 .. n  OBVIOUS
    <3> QED  BY <3>1
  <2> HIDE DEF g
  <2> QED  BY <1>4, <2>1
<1>6. sum = body(sum)  BY <1>5
<1> HIDE DEF sum
<1> DEFINE S == {k \in Nat : k <= n => sum[k] = v % Power[k]}
<1>7. 0 \in S
  <2>1. sum[0] = 0  BY <1>6
  <2>2. v % 1 = 0  BY Z3
  <2> QED  BY <2>1, <2>2, Powers
<1>8. ASSUME NEW k \in Nat, k \in S PROVE k + 1 \in S
  <2> SUFFICES ASSUME k + 1 <= n PROVE sum[k + 1] = v % Power[k + 1]  OBVIOUS
  <2>1. k + 1 \in 0 .. n /\ k + 1 # 0 /\ k + 1 - 1 = k /\ k \in 0 .. (n - 1) /\ k + 1 \in 1 .. 8
    OBVIOUS
  <2>2. sum[k + 1] = sum[k] + bytes[k] * Power[k]
    <3>1. sum[k + 1] = IF k + 1 = 0 THEN 0 ELSE sum[k + 1 - 1] + bytes[k + 1 - 1] * Power[k + 1 - 1]
      BY <1>6, <2>1
    <3> QED  BY <2>1, <3>1
  <2>3. sum[k] = v % Power[k]  BY <1>8, <2>1
  <2>4. PICK p \in Nat \ {0} : p = Power[k]  BY <1>2, <2>1
  <2>5. bytes[k] = (v \div p) % BYTE  BY <2>1, <2>4 DEF Digit
  <2>6. Power[k + 1] = BYTE * p
    <3>1. PICK m \in 1 .. 8 : m = k + 1  BY <2>1
    <3>2. Power[m] = BYTE * Power[m - 1]  BY Powers
    <3>3. m - 1 = k  BY <2>1, <3>1
    <3>4. Power[m] = BYTE * Power[k]  BY <3>2, <3>3
    <3> QED  BY <2>4, <3>1, <3>4
  <2>7. v % (BYTE * p) = (v % p) + ((v \div p) % BYTE) * p  BY OneByteMore, ByteAssumption
  <2> QED  BY <2>2, <2>3, <2>4, <2>5, <2>6, <2>7
<1>9. Nat \subseteq S
  <2> HIDE DEF S
  <2> QED  BY <1>7, <1>8, SetInduction
<1> QED  BY <1>1, <1>9

\* A number that the bytes have room for is read as it was.
LEMMA ReadUnsigned ==
    ASSUME NEW n \in 0 .. 8, NEW v \in Int, v >= 0, v < Power[n] PROVE v % Power[n] = v
<1>1. PICK p \in Nat \ {0} : p = Power[n]  BY Powers
<1>2. v \in 0 .. (p - 1) /\ v = p * 0 + v  BY <1>1
<1>3. v % p = v  BY <1>2, Remainder
<1> QED  BY <1>1, <1>3

LEMMA ReadNegative ==
    ASSUME NEW n \in 0 .. 8, NEW v \in Int, v < 0, v >= 0 - Power[n] PROVE v % Power[n] = v + Power[n]
<1>1. PICK p \in Nat \ {0} : p = Power[n]  BY Powers
<1>2. PICK s \in 0 .. (p - 1) : s = v + p  BY <1>1
<1>3. PICK q \in Int : q = -1  OBVIOUS
<1>4. v = p * q + s  BY <1>1, <1>2, <1>3
<1>5. v % p = s  BY <1>4, Remainder
<1> QED  BY <1>1, <1>2, <1>5

-----------------------------------------------------------------------------
(* FieldAccess.                                                            *)

Types == {"z", "b", "c", "s", "i", "f", "l", "j", "d"}

LEMMA TypeWidths ==
    /\ DOMAIN Width = Types
    /\ Width["z"] = 1 /\ Width["b"] = 1 /\ Width["c"] = 2 /\ Width["s"] = 2
    /\ Width["i"] = 4 /\ Width["f"] = 4 /\ Width["l"] = 4 /\ Width["j"] = 8 /\ Width["d"] = 8
BY DEF Width, Types

LEMMA WidthOfType ==
    ASSUME NEW t \in Types
    PROVE  /\ Width[t] \in {1, 2, 4, 8} /\ WrittenWidth(t) \in {4, 8} /\ Width[t] <= WrittenWidth(t)
           /\ WrittenWidth(t) = IF t \in {"j", "d"} THEN 8 ELSE 4
           /\ Width[t] < 4 => t \in {"z", "b", "c", "s"} /\ Width[t] \in {1, 2}
           /\ t = "z" => Width[t] = 1
BY TypeWidths DEF Types, WrittenWidth

\* Powers of a byte are even, and grow.
LEMMA SmallPowers ==
    /\ \A k \in 1 .. 8 : Power[k] \in Nat /\ Power[k] >= 2 /\ Power[k] \div 2 \in Nat
                         /\ 2 * (Power[k] \div 2) = Power[k]
    /\ \A k \in {1, 2} : Power[4] \div 2 >= Power[k]
<1>1. PICK b \in Nat : BYTE = 2 * b /\ b >= 1
  <2>1. BYTE \in Nat /\ BYTE # 0 /\ BYTE % 2 = 0  BY ByteAssumption
  <2>2. BYTE = 2 * (BYTE \div 2) /\ BYTE \div 2 \in Nat /\ BYTE \div 2 >= 1  BY <2>1
  <2> QED  BY <2>2
<1>2. ASSUME NEW k \in 1 .. 8
      PROVE  /\ Power[k] \in Nat /\ Power[k] >= 2 /\ Power[k] \div 2 \in Nat
             /\ 2 * (Power[k] \div 2) = Power[k]
  <2>1. k - 1 \in 0 .. 8 /\ Power[k] = BYTE * Power[k - 1]  BY Powers
  <2>2. PICK p \in Nat \ {0} : p = Power[k - 1]  BY <2>1, Powers
  <2>3. PICK q \in Nat : q = b * p /\ q >= 1
    <3>1. b * p \in Nat /\ b * p >= 1  BY <1>1, Z3
    <3> QED  BY <3>1
  <2>4. BYTE * p = 2 * q
    <3>1. (2 * b) * p = 2 * (b * p)  BY Z3
    <3> QED  BY <1>1, <2>3, <3>1
  <2>5. Power[k] = 2 * q  BY <2>1, <2>2, <2>4
  <2>6. (2 * q) \div 2 = q  BY <2>3
  <2> QED  BY <2>3, <2>5, <2>6
<1>3. PICK p1 \in Nat, p2 \in Nat, p3 \in Nat, p4 \in Nat :
        p1 = Power[1] /\ p2 = Power[2] /\ p3 = Power[3] /\ p4 = Power[4]
  <2>1. Power[1] \in Nat /\ Power[2] \in Nat /\ Power[3] \in Nat /\ Power[4] \in Nat  BY <1>2
  <2> QED  BY ONLY <2>1
<1>4. p2 = BYTE * p1 /\ p3 = BYTE * p2 /\ p4 = BYTE * p3
  <2>1. Power[2] = BYTE * Power[2 - 1] /\ Power[3] = BYTE * Power[3 - 1]
        /\ Power[4] = BYTE * Power[4 - 1]
    BY Powers
  <2> QED  BY <1>3, <2>1
<1>5. p2 >= 2 * p1 /\ p3 >= 2 * p2 /\ p4 >= 2 * p3
  <2>1. \A p \in Nat : BYTE * p >= 2 * p
    <3> SUFFICES ASSUME NEW p \in Nat PROVE BYTE * p >= 2 * p  OBVIOUS
    <3>1. (2 * b) * p = 2 * (b * p) /\ b * p \in Nat /\ b * p >= p  BY <1>1, Z3
    <3> QED  BY <1>1, <3>1
  <2> QED  BY <1>4, <2>1
<1>6. p4 \div 2 >= p2 /\ p4 \div 2 >= p1  BY <1>5
<1> QED  BY <1>2, <1>3, <1>6

\* The numbers that a type has.
LEMMA EdgeRange ==
    ASSUME NEW t \in Types, NEW v \in EdgeValues(t)
    PROVE  /\ v \in Int
           /\ t \in Signed => v >= 0 - (Power[Width[t]] \div 2) /\ v < Power[Width[t]] \div 2
           /\ t \notin Signed => v >= 0 /\ v < Power[Width[t]]
<1>1. PICK n \in Nat, h \in Nat : n = Power[Width[t]] /\ h = n \div 2 /\ n = 2 * h /\ n >= 2
  <2>1. Width[t] \in 1 .. 8  BY WidthOfType
  <2> QED  BY <2>1, SmallPowers
<1>2. v \in IF t = "z" THEN {0, 1}
            ELSE IF t \in Signed THEN {-h, -1, 0, h - 1} ELSE {0, 1, n - 1}
  BY <1>1 DEF EdgeValues
<1>3. t = "z" => t \notin Signed  BY DEF Signed
<1> QED  BY <1>1, <1>2, <1>3

\* A value whose bytes are all there is read as it was, negative or not.
LEMMA MemberReads ==
    ASSUME NEW t \in Types, NEW v \in Int, NEW bytes, NEW at \in Int,
           \A k \in 0 .. (Width[t] - 1) : bytes[at + k] = Digit(v, k),
           t \in Signed => v >= 0 - (Power[Width[t]] \div 2) /\ v < Power[Width[t]] \div 2,
           t \notin Signed => v >= 0 /\ v < Power[Width[t]]
    PROVE  Member(bytes, at, t) = v
<1>1. Width[t] \in 1 .. 8 /\ Width[t] \in 0 .. 8  BY WidthOfType
<1>2. PICK n \in Nat, h \in Nat : n = Power[Width[t]] /\ h = n \div 2 /\ n = 2 * h /\ n >= 2
  BY <1>1, SmallPowers
<1>3. Bits(bytes, at, Width[t]) = v % n
  <2> DEFINE own == [k \in 0 .. (Width[t] - 1) |-> bytes[at + k]]
  <2>1. \A k \in 0 .. (Width[t] - 1) : own[k] = Digit(v, k)  OBVIOUS
  <2>2. Bits(bytes, at, Width[t]) = Value(own, Width[t])  BY DEF Bits
  <2> HIDE DEF own
  <2> QED  BY <1>1, <1>2, <2>1, <2>2, ValueOfDigits
<1>4. CASE v >= 0
  <2>1. v < n  BY <1>2, <1>4
  <2>2. v % n = v  BY <1>1, <1>2, <1>4, <2>1, ReadUnsigned
  <2>3. t \in Signed => ~ (v >= h)  BY <1>2
  <2> QED  BY <1>2, <1>3, <2>2, <2>3 DEF Member
<1>5. CASE v < 0
  <2>1. t \in Signed /\ v >= 0 - h  BY <1>2, <1>5
  <2>2. v % n = v + n  BY <1>1, <1>2, <1>5, <2>1, ReadNegative
  <2>3. v + n >= h /\ v + n - n = v  BY <1>2, <2>1
  <2> QED  BY <1>2, <1>3, <2>1, <2>2, <2>3 DEF Member
<1> QED  BY <1>4, <1>5

\* What the four bytes or more of a field hold.
Holds(bytes, at, t, v) == \A k \in 0 .. (WrittenWidth(t) - 1) : bytes[at + k] = Digit(v, k)

LEMMA HeldIsRead ==
    ASSUME NEW t \in Types, NEW v \in EdgeValues(t), NEW bytes, NEW at \in Int, Holds(bytes, at, t, v)
    PROVE  /\ Member(bytes, at, t) = v
           /\ Width[t] < 4 => Member(bytes, at, "i") = v
<1>1. Width[t] \in 1 .. 8 /\ WrittenWidth(t) \in {4, 8} /\ Width[t] <= WrittenWidth(t)
  BY WidthOfType
<1>2. \A k \in 0 .. (Width[t] - 1) : bytes[at + k] = Digit(v, k)  BY <1>1 DEF Holds
<1>3. v \in Int  BY EdgeRange
<1>4. Member(bytes, at, t) = v  BY <1>2, <1>3, EdgeRange, MemberReads
<1>5. ASSUME Width[t] < 4 PROVE Member(bytes, at, "i") = v
  <2>1. Width[t] \in {1, 2} /\ Width["i"] = 4 /\ "i" \in Types /\ "i" \in Signed
    BY <1>5, WidthOfType, TypeWidths DEF Types, Signed
  <2>2. \A k \in 0 .. (Width["i"] - 1) : bytes[at + k] = Digit(v, k)  BY <1>1, <2>1 DEF Holds
  <2>3. PICK n \in Nat, h \in Nat : n = Power[Width[t]] /\ h = n \div 2 /\ n = 2 * h
    BY <1>1, SmallPowers
  <2>4. PICK m \in Nat : m = Power[4] \div 2 /\ m >= n
    <3>1. 4 \in 1 .. 8  OBVIOUS
    <3> QED  BY <2>1, <2>3, <3>1, SmallPowers
  <2>5. v >= 0 - m /\ v < m
    <3>1. (v >= 0 - h /\ v < h) \/ (v >= 0 /\ v < n)  BY <2>3, EdgeRange
    <3> QED  BY <1>3, <2>3, <2>4, <3>1
  <2> QED  BY <1>3, <2>1, <2>2, <2>4, <2>5, MemberReads
<1> QED  BY <1>4, <1>5

LEMMA Digits ==
    /\ \A v \in Int, k \in 0 .. 8 : Digit(v, k) \in Byte
    /\ \A k \in 0 .. 8 : Digit(0, k) = 0
    /\ 0 \in Byte
<1>1. ASSUME NEW v \in Int, NEW k \in 0 .. 8 PROVE Digit(v, k) \in Byte /\ (v = 0 => Digit(v, k) = 0)
  <2>1. PICK p \in Nat \ {0} : p = Power[k]  BY Powers
  <2>2. PICK b \in Nat \ {0} : b = BYTE  BY ByteAssumption
  <2>3. PICK q \in Int : q = v \div p /\ (v = 0 => q = 0)
    <3>1. v \div p \in Int /\ 0 \div p = 0  BY Z3
    <3> QED  BY <3>1
  <2>4. q % b \in 0 .. (b - 1) /\ 0 % b = 0  BY Z3
  <2> QED  BY <2>1, <2>2, <2>3, <2>4 DEF Digit, Byte
<1> QED  BY <1>1, ByteAssumption DEF Byte

\* A value is written where it is to be held, and nowhere else.
LEMMA WrittenHolds ==
    ASSUME NEW d, NEW bytes \in [d -> Byte], NEW at \in Int, NEW t \in Types, NEW v \in Int,
           at .. (at + WrittenWidth(t) - 1) \subseteq d
    PROVE  LET new == Written(bytes, at, WrittenWidth(t), v)
           IN  /\ new \in [d -> Byte]
               /\ Holds(new, at, t, v)
               /\ \A a \in d : a \notin at .. (at + WrittenWidth(t) - 1) => new[a] = bytes[a]
<1> DEFINE n == WrittenWidth(t)
           new == Written(bytes, at, n, v)
<1>1. n \in {4, 8}  BY WidthOfType
<1>2. new = [a \in d |-> IF a \in at .. (at + n - 1) THEN Bytes(n, v)[a - at] ELSE bytes[a]]
  BY DEF Written
<1> HIDE DEF new
<1>3. ASSUME NEW a \in at .. (at + n - 1) PROVE a \in d /\ new[a] = Digit(v, a - at) /\ new[a] \in Byte
  <2>1. a \in d  OBVIOUS
  <2>2. a - at \in 0 .. (n - 1) /\ a - at \in 0 .. 8  BY <1>1
  <2>3. Bytes(n, v)[a - at] = Digit(v, a - at)  BY <2>2 DEF Bytes
  <2> HIDE DEF n
  <2>4. new[a] = Digit(v, a - at)  BY <1>2, <2>1, <2>3
  <2> QED  BY <2>1, <2>2, <2>4, Digits
<1>4. \A a \in d : a \notin at .. (at + n - 1) => new[a] = bytes[a]  BY <1>2
<1>5. Holds(new, at, t, v)
  <2> SUFFICES ASSUME NEW k \in 0 .. (n - 1) PROVE new[at + k] = Digit(v, k)  BY DEF Holds
  <2>1. at + k \in at .. (at + n - 1) /\ at + k - at = k  BY <1>1
  <2> QED  BY <1>3, <2>1
<1>6. new \in [d -> Byte]
  <2>1. \A a \in d : new[a] \in Byte  BY <1>3, <1>4
  <2> QED  BY <1>2, <2>1
<1> QED  BY <1>4, <1>5, <1>6 DEF new

LEMMA ZerosHold ==
    ASSUME NEW t \in Types, NEW bytes, NEW at \in Int,
           \A k \in 0 .. (WrittenWidth(t) - 1) : bytes[at + k] = 0
    PROVE  Holds(bytes, at, t, 0) /\ 0 \in EdgeValues(t)
<1>1. WrittenWidth(t) \in {4, 8}  BY WidthOfType
<1>2. \A k \in 0 .. (WrittenWidth(t) - 1) : k \in 0 .. 8  BY <1>1
<1>3. Holds(bytes, at, t, 0)  BY <1>2, Digits DEF Holds
<1>4. 0 \in EdgeValues(t)  BY DEF EdgeValues
<1> QED  BY <1>3, <1>4

-----------------------------------------------------------------------------

Kept(o) == o \notin Volatile \/ FieldType[o] \notin StoredAsInt

\* Each field that is stored at all holds in the bytes of its slot what it was set to.
FieldInv ==
    /\ contents \in [0 .. (ObjectSize - 1) -> Byte]
    /\ sfields \in [DOMAIN StaticType -> Slot]
    /\ \E i \in [DOMAIN FieldType -> Int], s \in [DOMAIN StaticType -> Int] :
          stored = [instance |-> i, static |-> s]
    /\ \A o \in DOMAIN FieldType :
          /\ stored.instance[o] \in EdgeValues(FieldType[o])
          /\ Kept(o) => Holds(contents, o, FieldType[o], stored.instance[o])
    /\ \A k \in DOMAIN StaticType :
          /\ stored.static[k] \in EdgeValues(StaticType[k])
          /\ Holds(sfields[k], 0, StaticType[k], stored.static[k])
    /\ \A a \in 0 .. 7 : contents[a] = 0

\* Where fields are.
LEMMA FieldPlaces ==
    /\ ObjectSize \in Nat
    /\ \A k \in DOMAIN StaticType : StaticType[k] \in Types
    /\ \A o \in DOMAIN FieldType :
          /\ FieldType[o] \in Types /\ o \in Int /\ o >= 8
          /\ o .. (o + WrittenWidth(FieldType[o]) - 1) \subseteq 8 .. (ObjectSize - 1)
          /\ \A p \in DOMAIN FieldType : p > o => p >= o + WrittenWidth(FieldType[o])
<1>1. ObjectSize \in Nat  BY FieldAssumption
<1>2. \A k \in DOMAIN StaticType : StaticType[k] \in Types  BY FieldAssumption, TypeWidths
<1>3. ASSUME NEW o \in DOMAIN FieldType
      PROVE  /\ FieldType[o] \in Types /\ o \in Int /\ o >= 8
             /\ o .. (o + WrittenWidth(FieldType[o]) - 1) \subseteq 8 .. (ObjectSize - 1)
             /\ \A p \in DOMAIN FieldType : p > o => p >= o + WrittenWidth(FieldType[o])
  <2>1. /\ FieldType[o] \in Types /\ o \in 8 .. (ObjectSize - 4)
        /\ FieldType[o] \in {"j", "d"} => o <= ObjectSize - 8
        /\ \A p \in DOMAIN FieldType : p > o => p >= o + IF FieldType[o] \in {"j", "d"} THEN 8 ELSE 4
    BY FieldAssumption, TypeWidths
  <2>2. PICK n \in {4, 8} : n = WrittenWidth(FieldType[o])
                            /\ n = IF FieldType[o] \in {"j", "d"} THEN 8 ELSE 4
    BY <2>1, WidthOfType
  <2>3. o + n <= ObjectSize  BY <1>1, <2>1, <2>2
  <2>4. o .. (o + n - 1) \subseteq 8 .. (ObjectSize - 1)  BY <1>1, <2>1, <2>2, <2>3
  <2> QED  BY <2>1, <2>2, <2>4
<1> QED  BY <1>1, <1>2, <1>3

LEMMA FieldInitInv == FieldInit => FieldInv
<1> SUFFICES ASSUME FieldInit PROVE FieldInv  OBVIOUS
<1> USE DEF FieldInit
<1>1. contents \in [0 .. (ObjectSize - 1) -> Byte] /\ sfields \in [DOMAIN StaticType -> Slot]
  BY Digits DEF Slot
<1>2. \E i \in [DOMAIN FieldType -> Int], s \in [DOMAIN StaticType -> Int] :
        stored = [instance |-> i, static |-> s]
  OBVIOUS
<1>3. ASSUME NEW o \in DOMAIN FieldType
      PROVE  stored.instance[o] \in EdgeValues(FieldType[o])
             /\ Holds(contents, o, FieldType[o], stored.instance[o])
  <2>1. FieldType[o] \in Types /\ o \in Int
        /\ o .. (o + WrittenWidth(FieldType[o]) - 1) \subseteq 8 .. (ObjectSize - 1)
    BY FieldPlaces
  <2>2. WrittenWidth(FieldType[o]) \in {4, 8}  BY <2>1, WidthOfType
  <2>3. ASSUME NEW k \in 0 .. (WrittenWidth(FieldType[o]) - 1) PROVE contents[o + k] = 0
    <3>1. o + k \in o .. (o + WrittenWidth(FieldType[o]) - 1)  BY <2>1, <2>2
    <3>2. o + k \in 0 .. (ObjectSize - 1)  BY <2>1, <3>1, FieldPlaces
    <3> QED  BY <3>2
  <2>4. stored.instance[o] = 0  OBVIOUS
  <2> QED  BY <2>1, <2>3, <2>4, ZerosHold
<1>4. ASSUME NEW k \in DOMAIN StaticType
      PROVE  stored.static[k] \in EdgeValues(StaticType[k])
             /\ Holds(sfields[k], 0, StaticType[k], stored.static[k])
  <2>1. StaticType[k] \in Types  BY FieldPlaces
  <2>2. WrittenWidth(StaticType[k]) \in {4, 8}  BY <2>1, WidthOfType
  <2>3. \A j \in 0 .. (WrittenWidth(StaticType[k]) - 1) : sfields[k][0 + j] = 0  BY <2>2
  <2>4. stored.static[k] = 0  OBVIOUS
  <2> QED  BY <2>1, <2>3, <2>4, ZerosHold
<1>5. \A a \in 0 .. 7 : contents[a] = 0
  <2>1. ObjectSize >= 8 /\ ObjectSize \in Nat  BY FieldAssumption
  <2> QED  BY <2>1
<1> QED  BY <1>1, <1>2, <1>3, <1>4, <1>5 DEF FieldInv

\* Setting an instance field leaves all the others, and the clazz and the lock, alone.
LEMMA SetInstanceKeeps ==
    ASSUME FieldInv, NEW o \in DOMAIN FieldType, NEW v, SetInstance(o, v) PROVE FieldInv'
<1> USE DEF FieldInv
<1> DEFINE t == FieldType[o]
           n == WrittenWidth(t)
<1>1. v \in EdgeValues(t) /\ t \in Types /\ v \in Int  BY FieldPlaces, EdgeRange DEF SetInstance
<1>2. n \in {4, 8}  BY <1>1, WidthOfType
<1>3. o \in Int /\ o .. (o + n - 1) \subseteq 8 .. (ObjectSize - 1) /\ ObjectSize \in Nat
  BY FieldPlaces
<1>4. /\ contents' \in [0 .. (ObjectSize - 1) -> Byte]
      /\ Holds(contents', o, t, v)
      /\ \A a \in 0 .. (ObjectSize - 1) : a \notin o .. (o + n - 1) => contents'[a] = contents[a]
  <2>1. contents' = Written(contents, o, n, v)  BY DEF SetInstance
  <2>2. o .. (o + n - 1) \subseteq 0 .. (ObjectSize - 1)  BY <1>3
  <2>3. PICK d : d = 0 .. (ObjectSize - 1)  OBVIOUS
  <2> HIDE DEF t
  <2> QED  BY <1>1, <1>3, <2>1, <2>2, <2>3, WrittenHolds
<1>5. PICK i \in [DOMAIN FieldType -> Int], s \in [DOMAIN StaticType -> Int] :
        stored = [instance |-> i, static |-> s]
  OBVIOUS
<1>6. PICK j \in [DOMAIN FieldType -> Int] : j = [i EXCEPT ![o] = v]  BY <1>1
<1>7. stored' = [instance |-> j, static |-> s]  BY <1>5, <1>6 DEF SetInstance
<1>8. ASSUME NEW p \in DOMAIN FieldType
      PROVE  /\ stored'.instance[p] \in EdgeValues(FieldType[p])
             /\ Kept(p) => Holds(contents', p, FieldType[p], stored'.instance[p])
  <2>1. CASE p = o
    <3>1. stored'.instance[p] = v  BY <1>6, <1>7, <2>1
    <3> QED  BY <1>1, <1>4, <2>1, <3>1
  <2>2. CASE p # o
    <3>1. stored'.instance[p] = stored.instance[p]  BY <1>5, <1>6, <1>7, <2>2
    <3>2. PICK m \in {4, 8} : m = WrittenWidth(FieldType[p])  BY FieldPlaces, WidthOfType
    <3>3. p \in Int /\ p .. (p + m - 1) \subseteq 8 .. (ObjectSize - 1)
          /\ (p > o => p >= o + n) /\ (o > p => o >= p + m)
      BY <3>2, FieldPlaces
    <3>4. ASSUME NEW k \in 0 .. (m - 1) PROVE contents'[p + k] = contents[p + k]
      <4>1. p + k \in p .. (p + m - 1) /\ p + k \notin o .. (o + n - 1)
        <5>1. PICK w \in {4, 8} : w = n  BY <1>2
        <5>2. (p > o /\ p >= o + w) \/ (o > p /\ o >= p + m)  BY <1>3, <2>2, <3>3, <5>1
        <5>3. p + k \notin o .. (o + w - 1)  BY <1>3, <3>3, <5>2
        <5> QED  BY <3>3, <5>1, <5>3
      <4>2. p + k \in 0 .. (ObjectSize - 1)  BY <3>3, <4>1
      <4> QED  BY <1>4, <4>1, <4>2
    <3>5. Kept(p) => Holds(contents', p, FieldType[p], stored.instance[p])
      BY <3>2, <3>4 DEF Holds
    <3> QED  BY <3>1, <3>5
  <2> QED  BY <2>1, <2>2
<1>9. ASSUME NEW a \in 0 .. 7 PROVE contents'[a] = 0
  <2>1. a \notin 8 .. (ObjectSize - 1) /\ a \in Int  OBVIOUS
  <2>3. a \notin o .. (o + n - 1)  BY ONLY <1>3, <2>1
  <2>2. a \in 0 .. (ObjectSize - 1)
    <3>1. ObjectSize >= 8  BY FieldAssumption
    <3> QED  BY <1>3, <3>1
  <2> QED  BY <1>4, <2>2, <2>3
<1>10. stored'.static = stored.static /\ sfields' = sfields  BY <1>5, <1>7 DEF SetInstance
<1> QED  BY <1>4, <1>7, <1>8, <1>9, <1>10 DEF Kept, Holds

LEMMA IntVolatileKeeps ==
    ASSUME FieldInv, NEW o \in DOMAIN FieldType, NEW v, dvmSetFieldIntVolatile(o, v) PROVE FieldInv'
<1> USE DEF FieldInv
<1>1. v \in EdgeValues(FieldType[o]) /\ v \in Int /\ ~ Kept(o) /\ UNCHANGED <<contents, sfields>>
  BY FieldPlaces, EdgeRange DEF dvmSetFieldIntVolatile, Kept
<1>2. PICK i \in [DOMAIN FieldType -> Int], s \in [DOMAIN StaticType -> Int] :
        stored = [instance |-> i, static |-> s]
  OBVIOUS
<1>3. PICK j \in [DOMAIN FieldType -> Int] : j = [i EXCEPT ![o] = v]  BY <1>1
<1>4. stored' = [instance |-> j, static |-> s]  BY <1>2, <1>3 DEF dvmSetFieldIntVolatile
<1>5. ASSUME NEW p \in DOMAIN FieldType
      PROVE  /\ stored'.instance[p] \in EdgeValues(FieldType[p])
             /\ Kept(p) => Holds(contents', p, FieldType[p], stored'.instance[p])
  <2>1. CASE p = o  BY <1>1, <1>3, <1>4, <2>1
  <2>2. CASE p # o
    <3>1. stored'.instance[p] = stored.instance[p]  BY <1>2, <1>3, <1>4, <2>2
    <3> QED  BY <1>1, <3>1 DEF Holds
  <2> QED  BY <2>1, <2>2
<1>6. stored'.static = stored.static  BY <1>2, <1>4
<1> QED  BY <1>1, <1>4, <1>5, <1>6 DEF Kept, Holds

LEMMA SetStaticKeeps ==
    ASSUME FieldInv, NEW k \in DOMAIN StaticType, NEW v \in EdgeValues(StaticType[k]), SetStatic(k, v)
    PROVE  FieldInv'
<1> USE DEF FieldInv
<1> DEFINE t == StaticType[k]
           n == WrittenWidth(t)
<1>1. t \in Types /\ v \in Int  BY FieldPlaces, EdgeRange
<1>2. n \in {4, 8}  BY <1>1, WidthOfType
<1>3. sfields[k] \in [0 .. 7 -> Byte]  BY DEF Slot
<1>4. PICK new : new = Written(sfields[k], 0, n, v)  OBVIOUS
<1>5. new \in [0 .. 7 -> Byte] /\ Holds(new, 0, t, v)
  <2>1. 0 .. (0 + n - 1) \subseteq 0 .. 7  BY <1>2
  <2>2. PICK d : d = 0 .. 7  OBVIOUS
  <2>3. sfields[k] \in [d -> Byte] /\ 0 .. (0 + WrittenWidth(t) - 1) \subseteq d /\ 0 \in Int
    BY <1>3, <2>1, <2>2
  <2> HIDE DEF t
  <2> QED  BY <1>1, <1>4, <2>2, <2>3, WrittenHolds
<1>6. sfields' = [sfields EXCEPT ![k] = new] /\ contents' = contents  BY <1>4 DEF SetStatic
<1>7. PICK i \in [DOMAIN FieldType -> Int], s \in [DOMAIN StaticType -> Int] :
        stored = [instance |-> i, static |-> s]
  OBVIOUS
<1>8. PICK r \in [DOMAIN StaticType -> Int] : r = [s EXCEPT ![k] = v]  BY <1>1
<1>9. stored' = [instance |-> i, static |-> r]  BY <1>7, <1>8 DEF SetStatic
<1>10. ASSUME NEW p \in DOMAIN StaticType
       PROVE  /\ stored'.static[p] \in EdgeValues(StaticType[p])
              /\ Holds(sfields'[p], 0, StaticType[p], stored'.static[p])
  <2>1. CASE p = k
    <3>1. stored'.static[p] = v /\ sfields'[p] = new  BY <1>6, <1>8, <1>9, <2>1
    <3> QED  BY <1>5, <2>1, <3>1
  <2>2. CASE p # k
    <3>1. stored'.static[p] = stored.static[p] /\ sfields'[p] = sfields[p]
      BY <1>6, <1>7, <1>8, <1>9, <2>2
    <3> QED  BY <3>1
  <2> QED  BY <2>1, <2>2
<1>11. sfields' \in [DOMAIN StaticType -> Slot]  BY <1>5, <1>6 DEF Slot
<1>12. stored'.instance = stored.instance  BY <1>7, <1>9
<1>13. \A o \in DOMAIN FieldType :
          /\ stored'.instance[o] \in EdgeValues(FieldType[o])
          /\ Kept(o) => Holds(contents', o, FieldType[o], stored'.instance[o])
  BY <1>6, <1>12
<1>14. \A a \in 0 .. 7 : contents'[a] = 0  BY <1>6
<1>15. contents' \in [0 .. (ObjectSize - 1) -> Byte]  BY <1>6
<1> HIDE DEF t, n, FieldInv
<1> QED  BY <1>9, <1>10, <1>11, <1>13, <1>14, <1>15 DEF FieldInv, Kept, Holds

LEMMA FieldStepInv == FieldInv /\ [FieldNext]_fieldVars => FieldInv'
<1> SUFFICES ASSUME FieldInv, [FieldNext]_fieldVars PROVE FieldInv'  OBVIOUS
<1>1. CASE UNCHANGED fieldVars  BY <1>1 DEF fieldVars, FieldInv, Kept, Holds
<1>2. ASSUME NEW v \in FieldNumbers, NEW o \in DOMAIN FieldType,
             dvmSetField(o, v) \/ dvmSetFieldIntVolatile(o, v) \/ dvmSetFieldWideVolatile(o, v)
      PROVE  FieldInv'
  BY <1>2, SetInstanceKeeps, IntVolatileKeeps DEF dvmSetField, dvmSetFieldWideVolatile
<1>3. ASSUME NEW v \in FieldNumbers, NEW k \in DOMAIN StaticType,
             dvmSetStaticField(k, v) \/ dvmSetStaticFieldVolatile(k, v)
      PROVE  FieldInv'
  BY <1>3, SetStaticKeeps DEF dvmSetStaticField, dvmSetStaticFieldVolatile
<1> QED  BY <1>1, <1>2, <1>3 DEF FieldNext

LEMMA FieldTyped == FieldInv => FieldTypeOK
BY DEF FieldInv, FieldTypeOK

LEMMA FieldsAreSound == FieldInv => FieldsSound
<1> SUFFICES ASSUME FieldInv PROVE FieldsSound  OBVIOUS
<1> USE DEF FieldInv
<1>1. ASSUME NEW o \in DOMAIN FieldType, Kept(o)
      PROVE  /\ dvmGetField(o) = stored.instance[o]
             /\ Width[FieldType[o]] < 4 => Member(contents, o, "i") = stored.instance[o]
  <2>1. FieldType[o] \in Types /\ o \in Int  BY FieldPlaces
  <2>2. stored.instance[o] \in EdgeValues(FieldType[o])
        /\ Holds(contents, o, FieldType[o], stored.instance[o])
    BY <1>1
  <2>3. PICK v \in EdgeValues(FieldType[o]) : v = stored.instance[o]  BY <2>2
  <2> QED  BY <2>1, <2>2, <2>3, HeldIsRead DEF dvmGetField
<1>2. ASSUME NEW k \in DOMAIN StaticType PROVE dvmGetStaticField(k) = stored.static[k]
  <2>1. StaticType[k] \in Types  BY FieldPlaces
  <2>2. PICK v \in EdgeValues(StaticType[k]) :
          v = stored.static[k] /\ Holds(sfields[k], 0, StaticType[k], v)
    OBVIOUS
  <2> QED  BY <2>1, <2>2, HeldIsRead DEF dvmGetStaticField
<1>3. FieldsReadBack  BY <1>1, <1>2 DEF FieldsReadBack, Kept
<1>4. WordsWhole  BY <1>1 DEF WordsWhole, Kept
<1> QED  BY <1>3, <1>4 DEF FieldsSound

LEMMA FieldInvariance == FieldSpec => []FieldInv
BY FieldInitInv, FieldStepInv, PTL DEF FieldSpec

THEOREM FieldsAreKept == FieldSpec => []FieldsSound
BY FieldInvariance, FieldsAreSound, PTL

-----------------------------------------------------------------------------
(* Packets.                                                                *)

Text == UNION {[1 .. n -> Characters] : n \in 0 .. MaxText}

\* What a field is in the buffer.
Encoded(f) ==
    IF f.kind = "utf8" THEN setUtf8String(f.value)
    ELSE IF f.kind = "BE" THEN setBE(f.width, f.value[1]) ELSE setLE(f.width, f.value[1])

\* What the receiver may make of a field.
Understood(f, r) ==
    IF f.kind # "utf8" THEN r = f.value[1]
    ELSE /\ r.length = Len(f.value)
         /\ "new" \in DOMAIN r => r.new = Append(f.value, 0)
         /\ "buf" \in DOMAIN r =>
              /\ IsPrefix(Front(r.buf), f.value)
              /\ Len(r.buf) <= BufLen /\ Last(r.buf) = 0
              /\ r.length >= BufLen => Len(r.buf) = BufLen

Results ==
    Int \cup [length : Nat] \cup [length : Nat, buf : Seq(Nat)] \cup [length : Nat, new : Seq(Nat)]

\* The fields end where end says, one behind the other, and the cursor is at an end.
Placed(end) ==
    /\ end[0] = 0
    /\ \A k \in 1 .. Len(sent) :
         /\ end[k] = end[k - 1] + Size(sent[k]) /\ end[k] <= Len(buf)
         /\ \A j \in 1 .. Size(sent[k]) : buf[end[k - 1] + j] = Encoded(sent[k])[j]
    /\ end[Len(sent)] = Len(buf)
    /\ ppSrc = end[Len(received)]

\* The invariant that the steps preserve.
PacketsInv ==
    /\ buf \in Seq(Byte)
    /\ sent \in Seq(Fields) /\ Len(sent) <= MaxFields
    /\ received \in Seq(Results) /\ Len(received) <= Len(sent)
    /\ \E end \in [0 .. Len(sent) -> Nat] : Placed(end)
    /\ \A k \in 1 .. Len(received) : Understood(sent[k], received[k])

\* The values that a number of n bytes is tried with fit in it.
LEMMA EdgesFit ==
    ASSUME NEW n \in {1, 2, 4, 8}, NEW v \in EdgesOf(n) PROVE v \in Int /\ v >= 0 /\ v < Power[n]
<1>1. n \in 1 .. 8 /\ n \in 0 .. 8 /\ n - 1 \in 0 .. 8  OBVIOUS
<1>2. PICK p \in Nat \ {0} : p = Power[n - 1]  BY <1>1, Powers
<1>3. PICK w \in Nat : w = Power[n]  BY <1>1, Powers
<1>4. w = BYTE * p  BY <1>1, <1>2, <1>3, Powers
<1>5. BYTE \in Nat /\ BYTE >= 2
  <2>1. BYTE \in Nat /\ BYTE # 0 /\ BYTE % 2 = 0  BY ByteAssumption
  <2> QED  BY <2>1
<1>6. w >= 2 * p /\ w >= BYTE
  <2>1. BYTE * p >= 2 * p  BY <1>5, Z3
  <2>2. BYTE * p >= BYTE  BY <1>5, Z3
  <2> QED  BY <1>4, <2>1, <2>2
<1>7. v \in {0, 1, w - 1, p, w - BYTE}  BY <1>2, <1>3 DEF EdgesOf
<1>8. v \in Int /\ v >= 0 /\ v < w  BY <1>5, <1>6, <1>7
<1> QED  BY <1>3, <1>8

\* A field is a number or a string.
NumbersOf(n) == [kind : Orders, width : {n}, value : {<<v>> : v \in EdgesOf(n)}]
Strings == [kind : {"utf8"}, width : {0}, value : Text]

LEMMA KindsOfFields == Fields = (UNION {NumbersOf(n) : n \in Widths}) \cup Strings
BY Zenon DEF Fields, Text, NumbersOf, Strings

LEMMA FieldShape ==
    ASSUME NEW f \in Fields
    PROVE  \/ /\ f.kind \in Orders /\ f.width \in {1, 2, 4, 8}
              /\ f.value[1] \in Int /\ f.value[1] >= 0 /\ f.value[1] < Power[f.width]
           \/ f.kind = "utf8" /\ f.value \in Seq(Characters) /\ Len(f.value) \in 0 .. MaxText
<1>2. ASSUME NEW n \in Widths, f \in NumbersOf(n)
      PROVE  /\ f.kind \in Orders /\ f.width \in {1, 2, 4, 8}
             /\ f.value[1] \in Int /\ f.value[1] >= 0 /\ f.value[1] < Power[f.width]
  <2>1. f.kind \in Orders /\ f.width = n /\ f.value \in {<<v>> : v \in EdgesOf(n)}
    BY <1>2 DEF NumbersOf
  <2>2. PICK v \in EdgesOf(n) : f.value = <<v>>  BY <2>1
  <2>3. n \in {1, 2, 4, 8}  BY PacketsAssumption
  <2>4. v \in Int /\ v >= 0 /\ v < Power[n]  BY <2>3, EdgesFit
  <2>5. f.value[1] = v  BY <2>2
  <2> QED  BY <2>1, <2>3, <2>4, <2>5
<1>3. CASE f \in Strings
  <2>1. f.kind = "utf8" /\ f.value \in Text  BY <1>3 DEF Strings
  <2>2. PICK n \in 0 .. MaxText : f.value \in [1 .. n -> Characters]  BY <2>1 DEF Text
  <2>3. n \in Nat  BY PacketsAssumption
  <2>4. f.value \in Seq(Characters) /\ Len(f.value) = n  BY <2>2, <2>3
  <2> QED  BY <2>1, <2>4
<1>4. f \in UNION {NumbersOf(n) : n \in Widths} \/ f \in Strings
  BY KindsOfFields
<1>5. ASSUME f \in UNION {NumbersOf(n) : n \in Widths} PROVE \E n \in Widths : f \in NumbersOf(n)
  <2>1. PICK T \in {NumbersOf(n) : n \in Widths} : f \in T  BY <1>5, Zenon
  <2>2. PICK n \in Widths : T = NumbersOf(n)  BY <2>1, Zenon
  <2> QED  BY <2>1, <2>2
<1> QED  BY <1>2, <1>3, <1>4, <1>5

LEMMA LengthFits == ASSUME NEW n \in 0 .. MaxText PROVE n \in Nat /\ n < Power[4]
<1>1. PICK p \in Nat : p = Power[4]  BY Powers
<1> QED  BY <1>1, PacketsAssumption

LEMMA NumberEncoded ==
    ASSUME NEW n \in 0 .. 8, NEW v \in Int
    PROVE  /\ setBE(n, v) \in Seq(Byte) /\ Len(setBE(n, v)) = n
           /\ \A j \in 1 .. n : setBE(n, v)[j] = Digit(v, n - j)
           /\ setLE(n, v) \in Seq(Byte) /\ Len(setLE(n, v)) = n
           /\ \A j \in 1 .. n : setLE(n, v)[j] = Digit(v, j - 1)
<1>1. \A j \in 1 .. n : Digit(v, n - j) \in Byte /\ Digit(v, j - 1) \in Byte
  <2> SUFFICES ASSUME NEW j \in 1 .. n PROVE Digit(v, n - j) \in Byte /\ Digit(v, j - 1) \in Byte
    OBVIOUS
  <2>1. n - j \in 0 .. 8 /\ j - 1 \in 0 .. 8  OBVIOUS
  <2> QED  BY <2>1, Digits
<1>2. setBE(n, v) \in [1 .. n -> Byte] /\ setLE(n, v) \in [1 .. n -> Byte]  BY <1>1 DEF setBE, setLE
<1>3. n \in Nat  OBVIOUS
<1>4. setBE(n, v) \in Seq(Byte) /\ setLE(n, v) \in Seq(Byte)  BY <1>2, <1>3
<1>5. Len(setBE(n, v)) = n /\ Len(setLE(n, v)) = n  BY <1>2, <1>3, <1>4
<1> QED  BY <1>4, <1>5 DEF setBE, setLE

LEMMA TextEncoded ==
    ASSUME NEW str \in Seq(Characters), Len(str) \in 0 .. MaxText
    PROVE  /\ setUtf8String(str) \in Seq(Byte) /\ Len(setUtf8String(str)) = 4 + Len(str)
           /\ \A j \in 1 .. 4 : setUtf8String(str)[j] = Digit(Len(str), 4 - j)
           /\ \A j \in 1 .. Len(str) : setUtf8String(str)[4 + j] = str[j]
<1> DEFINE s == setBE(4, Len(str))
<1>1. Len(str) \in Int /\ Len(str) \in Nat  BY PacketsAssumption
<1>2. s \in Seq(Byte) /\ Len(s) = 4 /\ \A j \in 1 .. 4 : s[j] = Digit(Len(str), 4 - j)
  BY <1>1, NumberEncoded
<1>3. str \in Seq(Byte)
  <2>1. Characters \subseteq Byte  BY PacketsAssumption DEF Byte
  <2> QED  BY <2>1
<1> HIDE DEF s
<1>4. /\ s \o str \in Seq(Byte) /\ Len(s \o str) = 4 + Len(str)
      /\ \A i \in 1 .. (4 + Len(str)) : (s \o str)[i] = IF i <= 4 THEN s[i] ELSE str[i - 4]
  <2>1. PICK n \in Nat : n = Len(str)  BY <1>1
  <2>2. Len(s) = 4 /\ Len(str) = n /\ s \in Seq(Byte) /\ str \in Seq(Byte) /\ 4 \in Nat /\ n \in Nat
    BY <1>2, <1>3, <2>1
  <2>3. /\ s \o str \in Seq(Byte) /\ Len(s \o str) = Len(s) + Len(str)
        /\ \A i \in 1 .. (Len(s) + Len(str)) :
              (s \o str)[i] = IF i <= Len(s) THEN s[i] ELSE str[i - Len(s)]
    BY <2>2, ConcatProperties
  <2> QED  BY <2>1, <2>2, <2>3
<1>5. setUtf8String(str) = s \o str  BY DEF setUtf8String, s
<1>6. ASSUME NEW j \in 1 .. 4 PROVE setUtf8String(str)[j] = Digit(Len(str), 4 - j)
  <2>1. j \in 1 .. (4 + Len(str)) /\ j <= 4  BY <1>1
  <2> QED  BY <1>2, <1>4, <1>5, <2>1
<1>7. ASSUME NEW j \in 1 .. Len(str) PROVE setUtf8String(str)[4 + j] = str[j]
  <2>1. PICK i \in 1 .. (4 + Len(str)) : i = 4 + j /\ ~ (i <= 4) /\ i - 4 = j  BY <1>1
  <2>2. (s \o str)[i] = IF i <= 4 THEN s[i] ELSE str[i - 4]  BY <1>4
  <2>3. (s \o str)[i] = str[j]  BY <2>1, <2>2
  <2> QED  BY <1>5, <2>1, <2>3
<1> QED  BY <1>4, <1>5, <1>6, <1>7

LEMMA FieldEncoded ==
    ASSUME NEW f \in Fields
    PROVE  Encoded(f) \in Seq(Byte) /\ Len(Encoded(f)) = Size(f) /\ Size(f) \in Nat
<1>1. CASE f.kind \in Orders /\ f.width \in {1, 2, 4, 8} /\ f.value[1] \in Int
  <2>1. f.kind # "utf8"  BY <1>1 DEF Orders
  <2>2. PICK n \in 0 .. 8, v \in Int : n = f.width /\ v = f.value[1]
    <3>1. f.width \in 0 .. 8 /\ f.value[1] \in Int  BY <1>1
    <3> QED  BY <3>1
  <2>3. Size(f) = n /\ n \in Nat  BY <2>1, <2>2 DEF Size
  <2>4. Encoded(f) = setBE(n, v) \/ Encoded(f) = setLE(n, v)  BY <2>1, <2>2 DEF Encoded
  <2> QED  BY <2>3, <2>4, NumberEncoded
<1>2. CASE f.kind = "utf8" /\ f.value \in Seq(Characters) /\ Len(f.value) \in 0 .. MaxText
  <2>1. Encoded(f) = setUtf8String(f.value) /\ Size(f) = 4 + Len(f.value)
    BY <1>2 DEF Encoded, Size
  <2>2. Len(f.value) \in Nat  BY <1>2, LengthFits
  <2> QED  BY <1>2, <2>1, <2>2, TextEncoded
<1> QED  BY <1>1, <1>2, FieldShape

\* The sum of the sizes is where the invariant says.
LEMMA EndsWhereItSays ==
    ASSUME PacketsInv, NEW end \in [0 .. Len(sent) -> Nat], Placed(end), NEW n \in 0 .. Len(sent)
    PROVE  EndOf(n) = end[n]
<1> DEFINE body(f) == [k \in 0 .. n |-> IF k = 0 THEN 0 ELSE f[k - 1] + Size(sent[k])]
           sum == CHOOSE f : f = body(f)
           e == [k \in 0 .. n |-> end[k]]
<1>1. EndOf(n) = sum[n]  BY DEF EndOf
<1>2. Len(sent) \in Nat  BY DEF PacketsInv
<1>3. e = body(e)
  <2>1. ASSUME NEW k \in 0 .. n PROVE e[k] = IF k = 0 THEN 0 ELSE e[k - 1] + Size(sent[k])
    <3>1. CASE k = 0  BY <3>1 DEF Placed
    <3>2. CASE k # 0
      <4>1. k \in 1 .. Len(sent) /\ k - 1 \in 0 .. n  BY <1>2, <3>2
      <4>2. end[k] = end[k - 1] + Size(sent[k])  BY <4>1 DEF Placed
      <4> QED  BY <3>2, <4>1, <4>2
    <3> QED  BY <3>1, <3>2
  <2>2. e = [k \in 0 .. n |-> e[k]]  OBVIOUS
  <2> HIDE DEF e
  <2> QED  BY <2>1, <2>2
<1>4. sum = body(sum)
  <2> HIDE DEF e
  <2> QED  BY <1>3
<1> HIDE DEF sum
<1> DEFINE S == {k \in Nat : k <= n => sum[k] = end[k]}
<1>5. 0 \in S
  <2>1. sum[0] = 0  BY <1>4
  <2> QED  BY <2>1 DEF Placed
<1>6. ASSUME NEW k \in Nat, k \in S PROVE k + 1 \in S
  <2> SUFFICES ASSUME k + 1 <= n PROVE sum[k + 1] = end[k + 1]  OBVIOUS
  <2>1. PICK m \in 1 .. Len(sent) : m = k + 1 /\ m - 1 = k /\ m \in 0 .. n /\ m # 0  BY <1>2
  <2>2. sum[m] = sum[m - 1] + Size(sent[m])  BY <1>4, <2>1
  <2>3. end[m] = end[m - 1] + Size(sent[m])  BY DEF Placed
  <2>4. sum[k] = end[k]  BY <1>6
  <2> QED  BY <2>1, <2>2, <2>3, <2>4
<1>7. Nat \subseteq S
  <2> HIDE DEF S
  <2> QED  BY <1>5, <1>6, SetInduction
<1>8. n \in Nat  BY <1>2
<1> QED  BY <1>1, <1>7, <1>8

LEMMA PacketsInitInv == PacketsInit => PacketsInv
<1> SUFFICES ASSUME PacketsInit PROVE PacketsInv  OBVIOUS
<1>1. buf = <<>> /\ sent = <<>> /\ received = <<>> /\ ppSrc = 0  BY DEF PacketsInit
<1>2. Len(buf) = 0 /\ Len(sent) = 0 /\ Len(received) = 0  BY <1>1
<1>3. [k \in 0 .. 0 |-> 0] \in [0 .. 0 -> Nat] /\ Placed([k \in 0 .. 0 |-> 0])
  BY <1>1, <1>2 DEF Placed
<1>4. 0 <= MaxFields  BY PacketsAssumption
<1> QED  BY <1>1, <1>2, <1>3, <1>4 DEF PacketsInv

\* A field is added behind the others.
LEMMA AddKeeps ==
    ASSUME PacketsInv, NEW f \in Fields, buf' = buf \o Encoded(f), Add(f)
    PROVE  PacketsInv'
<1>1. /\ buf \in Seq(Byte) /\ sent \in Seq(Fields) /\ received = <<>> /\ Len(received) = 0
      /\ Len(sent) < MaxFields /\ MaxFields \in Nat
      /\ sent' = Append(sent, f) /\ ppSrc' = ppSrc /\ received' = received
  BY PacketsAssumption DEF PacketsInv, Add
<1>2. PICK end \in [0 .. Len(sent) -> Nat] : Placed(end)  BY DEF PacketsInv
<1>3. Encoded(f) \in Seq(Byte) /\ Len(Encoded(f)) = Size(f) /\ Size(f) \in Nat  BY FieldEncoded
<1>4. PICK code \in Seq(Byte), size \in Nat : code = Encoded(f) /\ size = Size(f) /\ Len(code) = size
  BY <1>3
<1>5. PICK n \in Nat, m \in Nat : n = Len(sent) /\ m = Len(buf)  BY <1>1
<1>6. /\ buf' \in Seq(Byte) /\ Len(buf') = m + size
      /\ \A i \in 1 .. (m + size) : buf'[i] = IF i <= m THEN buf[i] ELSE code[i - m]
  <2>1. Len(buf) = m /\ Len(code) = size /\ buf \in Seq(Byte) /\ code \in Seq(Byte)
        /\ m \in Nat /\ size \in Nat
    BY <1>1, <1>4, <1>5
  <2>2. /\ buf \o code \in Seq(Byte) /\ Len(buf \o code) = Len(buf) + Len(code)
        /\ \A i \in 1 .. (Len(buf) + Len(code)) :
              (buf \o code)[i] = IF i <= Len(buf) THEN buf[i] ELSE code[i - Len(buf)]
    BY <2>1, ConcatProperties
  <2>3. buf' = buf \o code  BY <1>4
  <2> QED  BY <2>1, <2>2, <2>3
<1>7. /\ sent' \in Seq(Fields) /\ Len(sent') = n + 1
      /\ \A k \in 1 .. n : sent'[k] = sent[k]
      /\ sent'[n + 1] = f
  BY <1>1, <1>5
<1>8. PICK new \in [0 .. (n + 1) -> Nat] :
        /\ \A k \in 0 .. n : new[k] = end[k]
        /\ new[n + 1] = m + size
  <2> DEFINE g == [k \in 0 .. (n + 1) |-> IF k = n + 1 THEN m + size ELSE end[k]]
  <2>1. \A k \in 0 .. (n + 1) : k # n + 1 => k \in 0 .. n  OBVIOUS
  <2>2. g \in [0 .. (n + 1) -> Nat]  BY <1>5, <2>1
  <2>3. \A k \in 0 .. n : g[k] = end[k]  OBVIOUS
  <2>4. g[n + 1] = m + size  OBVIOUS
  <2> HIDE DEF g
  <2> QED  BY <2>2, <2>3, <2>4
<1>9. end[n] = m /\ end[0] = 0 /\ ppSrc = end[0]  BY <1>1, <1>2, <1>5 DEF Placed
<1>10. ASSUME NEW k \in 1 .. (n + 1)
       PROVE  /\ new[k] = new[k - 1] + Size(sent'[k]) /\ new[k] <= m + size
              /\ \A j \in 1 .. Size(sent'[k]) : buf'[new[k - 1] + j] = Encoded(sent'[k])[j]
  <2>1. CASE k = n + 1
    <3>1. k - 1 = n /\ n \in 0 .. n  BY <2>1
    <3>2. new[k] = m + size /\ new[k - 1] = m /\ sent'[k] = f  BY <1>7, <1>8, <1>9, <2>1, <3>1
    <3>3. ASSUME NEW j \in 1 .. size PROVE buf'[m + j] = code[j]
      <4>1. PICK i \in 1 .. (m + size) : i = m + j /\ ~ (i <= m) /\ i - m = j  OBVIOUS
      <4>2. buf'[i] = IF i <= m THEN buf[i] ELSE code[i - m]  BY <1>6
      <4>3. buf'[i] = code[j]  BY <4>1, <4>2
      <4> QED  BY <4>1, <4>3
    <3>4. Size(sent'[k]) = size /\ Encoded(sent'[k]) = code  BY <1>4, <3>2
    <3>5. new[k] = new[k - 1] + size /\ new[k] <= m + size  BY <3>2
    <3>6. \A j \in 1 .. size : buf'[new[k - 1] + j] = code[j]  BY <3>2, <3>3
    <3> QED  BY <3>4, <3>5, <3>6
  <2>2. CASE k # n + 1
    <3>1. k \in 1 .. n /\ k - 1 \in 0 .. n /\ k \in 0 .. n  BY <2>2
    <3>2. /\ end[k] = end[k - 1] + Size(sent[k]) /\ end[k] <= m
          /\ \A j \in 1 .. Size(sent[k]) : buf[end[k - 1] + j] = Encoded(sent[k])[j]
      BY <1>2, <1>5, <3>1 DEF Placed
    <3>3. PICK a \in Nat, b \in Nat : a = end[k - 1] /\ b = end[k]
      <4>1. end[k - 1] \in Nat /\ end[k] \in Nat  BY <1>5, <3>1
      <4> QED  BY <4>1
    <3>4. new[k] = b /\ new[k - 1] = a /\ sent'[k] = sent[k]  BY <1>7, <1>8, <3>1, <3>3
    <3>5. PICK size2 \in Nat : size2 = Size(sent[k])
      <4>1. sent[k] \in Fields  BY <1>1, <1>5, <3>1
      <4> QED  BY <4>1, FieldEncoded
    <3>6. b = a + size2 /\ b <= m  BY <3>2, <3>3, <3>5
    <3>7. ASSUME NEW j \in 1 .. size2 PROVE buf'[a + j] = Encoded(sent[k])[j]
      <4>1. PICK i \in 1 .. (m + size) : i = a + j /\ i <= m  BY <3>6
      <4>2. buf'[i] = buf[i]  BY <1>6, <4>1
      <4>3. buf[a + j] = Encoded(sent[k])[j]  BY <3>2, <3>3, <3>5
      <4> QED  BY <4>1, <4>2, <4>3
    <3>8. Size(sent'[k]) = size2 /\ Encoded(sent'[k]) = Encoded(sent[k])  BY <3>4, <3>5
    <3>9. new[k] = new[k - 1] + size2 /\ new[k] <= m + size  BY <3>4, <3>6
    <3>10. \A j \in 1 .. size2 : buf'[new[k - 1] + j] = Encoded(sent[k])[j]  BY <3>4, <3>7
    <3> QED  BY <3>8, <3>9, <3>10
  <2> QED  BY <2>1, <2>2
<1>11. new[0] = 0 /\ ppSrc' = new[0] /\ new[n + 1] = m + size
  <2>1. 0 \in 0 .. n  OBVIOUS
  <2> QED  BY <1>1, <1>8, <1>9, <2>1
<1>12. Len(received') = 0 /\ received' \in Seq(Results)  BY <1>1
<1>13. Placed(new)'
  <2>1. /\ \A k \in 1 .. Len(sent') :
             /\ new[k] = new[k - 1] + Size(sent'[k]) /\ new[k] <= Len(buf')
             /\ \A j \in 1 .. Size(sent'[k]) : buf'[new[k - 1] + j] = Encoded(sent'[k])[j]
        /\ new[0] = 0 /\ new[Len(sent')] = Len(buf') /\ ppSrc' = new[Len(received')]
    <3>1. Len(sent') = n + 1 /\ Len(buf') = m + size /\ Len(received') = 0  BY <1>6, <1>7, <1>12
    <3>2. new[0] = 0 /\ new[Len(sent')] = Len(buf') /\ ppSrc' = new[Len(received')]
      BY <1>11, <3>1
    <3> QED  BY ONLY <1>10, <3>1, <3>2
  <2> QED  BY <2>1 DEF Placed, Size, Encoded, setBE, setLE, setUtf8String
<1>14. new \in [0 .. Len(sent') -> Nat]  BY <1>7
<1>15. Len(sent') <= MaxFields /\ Len(received') <= Len(sent')  BY <1>1, <1>5, <1>7, <1>12
<1>16. \A k \in 1 .. Len(received') : Understood(sent'[k], received'[k])  BY <1>12
<1> QED
  BY <1>6, <1>7, <1>12, <1>13, <1>14, <1>15, <1>16
  DEF PacketsInv, Understood

\* The digits of a number that it is taken for, most significant first or last.
LEMMA NumberRead ==
    ASSUME NEW n \in 0 .. 8, NEW v \in Int, v >= 0, v < Power[n], NEW addr \in Nat
    PROVE  /\ (\A j \in 1 .. n : buf[addr + j] = Digit(v, n - j)) => getBE(n, addr) = v
           /\ (\A j \in 1 .. n : buf[addr + j] = Digit(v, j - 1)) => getLE(n, addr) = v
<1>1. ASSUME \A j \in 1 .. n : buf[addr + j] = Digit(v, n - j) PROVE getBE(n, addr) = v
  <2> DEFINE bytes == [k \in 0 .. (n - 1) |-> src(addr, n - 1 - k)]
  <2>1. ASSUME NEW k \in 0 .. (n - 1) PROVE bytes[k] = Digit(v, k)
    <3>1. PICK j \in 1 .. n : j = n - k /\ addr + (n - 1 - k) + 1 = addr + j /\ n - j = k  OBVIOUS
    <3>2. buf[addr + j] = Digit(v, n - j)  BY <1>1
    <3> QED  BY <3>1, <3>2 DEF src
  <2> HIDE DEF bytes
  <2>2. Value(bytes, n) = v % Power[n]  BY <2>1, ValueOfDigits
  <2>3. v % Power[n] = v  BY ReadUnsigned
  <2> QED  BY <2>2, <2>3 DEF getBE, bytes
<1>2. ASSUME \A j \in 1 .. n : buf[addr + j] = Digit(v, j - 1) PROVE getLE(n, addr) = v
  <2> DEFINE bytes == [k \in 0 .. (n - 1) |-> src(addr, k)]
  <2>1. ASSUME NEW k \in 0 .. (n - 1) PROVE bytes[k] = Digit(v, k)
    <3>1. PICK j \in 1 .. n : j = k + 1 /\ addr + k + 1 = addr + j /\ j - 1 = k  OBVIOUS
    <3>2. buf[addr + j] = Digit(v, j - 1)  BY <1>2
    <3> QED  BY <3>1, <3>2 DEF src
  <2> HIDE DEF bytes
  <2>2. Value(bytes, n) = v % Power[n]  BY <2>1, ValueOfDigits
  <2>3. v % Power[n] = v  BY ReadUnsigned
  <2> QED  BY <2>2, <2>3 DEF getLE, bytes
<1> QED  BY <1>1, <1>2

\* What the receiver finds at its cursor: the next field.
LEMMA NextIsThere ==
    ASSUME PacketsInv, Len(received) < Len(sent)
    PROVE  /\ ppSrc \in Nat /\ next \in Fields
           /\ \A j \in 1 .. Size(next) : buf[ppSrc + j] = Encoded(next)[j]
           /\ next.kind = "BE" => getBE(next.width, ppSrc) = next.value[1]
           /\ next.kind = "LE" => getLE(next.width, ppSrc) = next.value[1]
           /\ next.kind = "utf8" =>
                 /\ getBE(4, ppSrc) = Len(next.value)
                 /\ \A n \in 0 .. Len(next.value) :
                       TextAt(ppSrc + 4, n) = [k \in 1 .. n |-> next.value[k]]
<1>1. PICK end \in [0 .. Len(sent) -> Nat] : Placed(end)  BY DEF PacketsInv
<1>2. sent \in Seq(Fields) /\ Len(sent) \in Nat /\ Len(received) \in Nat  BY DEF PacketsInv
<1>3. PICK k \in 1 .. Len(sent) : k = Len(received) + 1 /\ k - 1 = Len(received)  BY <1>2
<1>4. PICK f \in Fields : f = next /\ f = sent[k]  BY <1>2, <1>3 DEF next
<1>5. PICK addr \in Nat : addr = ppSrc /\ addr = end[k - 1]
  <2>1. ppSrc = end[k - 1] /\ end[k - 1] \in Nat  BY <1>1, <1>2, <1>3 DEF Placed
  <2> QED  BY <2>1
<1>6. \A j \in 1 .. Size(f) : buf[addr + j] = Encoded(f)[j]  BY <1>1, <1>4, <1>5 DEF Placed
<1>7. ASSUME f.kind \in Orders, f.width \in {1, 2, 4, 8},
             f.value[1] \in Int, f.value[1] >= 0, f.value[1] < Power[f.width]
      PROVE  /\ f.kind = "BE" => getBE(f.width, addr) = f.value[1]
             /\ f.kind = "LE" => getLE(f.width, addr) = f.value[1]
  <2>1. PICK n \in {1, 2, 4, 8} : n = f.width  BY <1>7
  <2>2. PICK v \in Int : v = f.value[1] /\ v >= 0 /\ v < Power[n]  BY <1>7, <2>1
  <2>3. Size(f) = n /\ n \in 0 .. 8  BY <1>7, <2>1 DEF Size, Orders
  <2>4. CASE f.kind = "BE"
    <3>1. Encoded(f) = setBE(n, v)  BY <2>1, <2>2, <2>4 DEF Encoded
    <3>2. \A j \in 1 .. n : buf[addr + j] = Digit(v, n - j)  
      <4>1. \A j \in 1 .. n : setBE(n, v)[j] = Digit(v, n - j)  BY <2>3, NumberEncoded
      <4> QED  BY <1>6, <2>3, <3>1, <4>1
    <3> QED  BY <2>1, <2>2, <2>3, <2>4, <3>2, NumberRead
  <2>5. CASE f.kind = "LE"
    <3>1. Encoded(f) = setLE(n, v)  BY <2>1, <2>2, <2>5 DEF Encoded
    <3>2. \A j \in 1 .. n : buf[addr + j] = Digit(v, j - 1)  
      <4>1. \A j \in 1 .. n : setLE(n, v)[j] = Digit(v, j - 1)  BY <2>3, NumberEncoded
      <4> QED  BY <1>6, <2>3, <3>1, <4>1
    <3> QED  BY <2>1, <2>2, <2>3, <2>5, <3>2, NumberRead
  <2> QED  BY <1>7, <2>4, <2>5 DEF Orders
<1>8. ASSUME f.kind = "utf8", f.value \in Seq(Characters), Len(f.value) \in 0 .. MaxText
      PROVE  /\ getBE(4, addr) = Len(f.value)
             /\ \A n \in 0 .. Len(f.value) :
                   TextAt(addr + 4, n) = [i \in 1 .. n |-> f.value[i]]
  <2>1. Len(f.value) \in Nat /\ Len(f.value) < Power[4]  BY <1>8, LengthFits
  <2>2. PICK str \in Seq(Characters), length \in Nat : str = f.value /\ length = Len(str)
    BY <1>8, <2>1
  <2>3. Size(f) = 4 + length /\ Encoded(f) = setUtf8String(str)  BY <1>8, <2>2 DEF Size, Encoded
  <2>4. /\ \A j \in 1 .. 4 : setUtf8String(str)[j] = Digit(length, 4 - j)
        /\ \A j \in 1 .. length : setUtf8String(str)[4 + j] = str[j]
    BY <1>8, <2>2, TextEncoded
  <2>5. \A j \in 1 .. (4 + length) : buf[addr + j] = setUtf8String(str)[j]  BY <1>6, <2>3
  <2>6. ASSUME NEW j \in 1 .. 4 PROVE buf[addr + j] = Digit(length, 4 - j)
    <3>1. j \in 1 .. (4 + length)  OBVIOUS
    <3> QED  BY <2>4, <2>5, <3>1
  <2>7. getBE(4, addr) = length
    <3>1. 4 \in 0 .. 8 /\ length \in Int /\ length >= 0 /\ length < Power[4]  BY <2>1, <2>2
    <3> QED  BY <2>6, <3>1, NumberRead
  <2>8. ASSUME NEW n \in 0 .. length
        PROVE  TextAt(addr + 4, n) = [i \in 1 .. n |-> str[i]]
    <3>1. ASSUME NEW i \in 1 .. n PROVE src(addr + 4, i - 1) = str[i]
      <4>1. i \in 1 .. length  OBVIOUS
      <4>2. PICK j \in 1 .. (4 + length) : j = 4 + i /\ addr + 4 + (i - 1) + 1 = addr + j  BY <4>1
      <4>3. buf[addr + j] = setUtf8String(str)[j]  BY <2>5
      <4>4. setUtf8String(str)[4 + i] = str[i]  BY <2>4, <4>1
      <4> QED  BY <4>2, <4>3, <4>4 DEF src
    <3> QED  BY <3>1 DEF TextAt
  <2> QED  BY <2>2, <2>7, <2>8
<1>9. CASE f.kind \in Orders /\ f.width \in {1, 2, 4, 8}
           /\ f.value[1] \in Int /\ f.value[1] >= 0 /\ f.value[1] < Power[f.width]
  <2>1. f.kind # "utf8"  BY <1>9 DEF Orders
  <2> QED  BY <1>4, <1>5, <1>6, <1>7, <1>9, <2>1
<1>10. CASE f.kind = "utf8" /\ f.value \in Seq(Characters) /\ Len(f.value) \in 0 .. MaxText
  BY <1>4, <1>5, <1>6, <1>8, <1>10
<1> QED  BY <1>9, <1>10, FieldShape

\* The receiver takes the next field, and its cursor goes to the end of it.
LEMMA TookKeeps ==
    ASSUME PacketsInv, Len(received) < Len(sent),
           NEW r \in Results, Understood(next, r), Took(Size(next), r)
    PROVE  PacketsInv'
<1>1. PICK end \in [0 .. Len(sent) -> Nat] : Placed(end)  BY DEF PacketsInv
<1>2. /\ sent \in Seq(Fields) /\ Len(sent) \in Nat /\ received \in Seq(Results) /\ Len(received) \in Nat
      /\ buf' = buf /\ sent' = sent /\ ppSrc' = ppSrc + Size(next) /\ received' = Append(received, r)
  BY DEF PacketsInv, Took
<1>3. PICK m \in Nat : m = Len(received)  BY <1>2
<1>4. /\ received' \in Seq(Results) /\ Len(received') = m + 1
      /\ \A k \in 1 .. m : received'[k] = received[k]
      /\ received'[m + 1] = r
  BY <1>2, <1>3
<1>5. PICK k \in 1 .. Len(sent) : k = m + 1 /\ k - 1 = m  BY <1>2, <1>3
<1>6. next = sent[k]  BY <1>3, <1>5 DEF next
<1>7. ppSrc' = end[m + 1]
  <2>1. end[k] = end[k - 1] + Size(sent[k]) /\ ppSrc = end[m]  BY <1>1, <1>3 DEF Placed
  <2>2. ppSrc + Size(next) = end[k]  BY <1>5, <1>6, <2>1
  <2> QED  BY <1>2, <1>5, <2>2
<1>8. Placed(end)'
  <2>1. ppSrc' = end[Len(received')]  BY <1>4, <1>7
  <2>2. /\ end[0] = 0
        /\ \A j \in 1 .. Len(sent') :
             /\ end[j] = end[j - 1] + Size(sent'[j]) /\ end[j] <= Len(buf')
             /\ \A i \in 1 .. Size(sent'[j]) : buf'[end[j - 1] + i] = Encoded(sent'[j])[i]
        /\ end[Len(sent')] = Len(buf')
    BY <1>1, <1>2, Zenon DEF Placed
  <2> QED  BY <2>1, <2>2 DEF Placed, Size, Encoded, setBE, setLE, setUtf8String
<1>9. ASSUME NEW i \in 1 .. (m + 1) PROVE Understood(sent[i], received'[i])
  <2>1. CASE i = m + 1  BY <1>4, <1>5, <1>6, <2>1
  <2>2. CASE i # m + 1
    <3>1. i \in 1 .. m  BY <2>2
    <3>2. received'[i] = received[i] /\ Understood(sent[i], received[i])
      BY <1>3, <1>4, <3>1 DEF PacketsInv
    <3> QED  BY <3>2
  <2> QED  BY <2>1, <2>2
<1>10. m + 1 <= Len(sent)  BY <1>5
<1> QED  BY <1>1, <1>2, <1>4, <1>8, <1>9, <1>10 DEF PacketsInv, Understood


LEMMA NumberTaken ==
    ASSUME PacketsInv, readBE \/ readLE PROVE PacketsInv'
<1>1. Len(received) < Len(sent) /\ next.kind \in Orders  BY DEF readBE, readLE, Expects, Orders
<1>2. next \in Fields /\ next.kind # "utf8"  BY <1>1, NextIsThere DEF Orders
<1>3. next.value[1] \in Int  BY <1>1, <1>2, FieldShape
<1>4. Size(next) = next.width  BY <1>2 DEF Size
<1>5. Took(Size(next), next.value[1])
  BY <1>1, <1>4, NextIsThere DEF readBE, readLE, Expects
<1>6. next.value[1] \in Results /\ Understood(next, next.value[1])
  BY <1>2, <1>3 DEF Results, Understood
<1> QED  BY <1>1, <1>5, <1>6, TookKeeps

\* What a string is received as.
LEMMA TextUnderstood ==
    ASSUME NEW f \in Fields, f.kind = "utf8",
           NEW length \in Nat, length = Len(f.value), NEW n \in 0 .. length, NEW text,
           text = Append([k \in 1 .. n |-> f.value[k]], 0)
    PROVE  /\ [length |-> length] \in Results /\ Understood(f, [length |-> length])
           /\ n = length => /\ [length |-> length, new |-> text] \in Results
                            /\ Understood(f, [length |-> length, new |-> text])
           /\ n = copyLen(length) => /\ [length |-> length, buf |-> text] \in Results
                                     /\ Understood(f, [length |-> length, buf |-> text])
<1>1. f.value \in Seq(Characters)  BY FieldShape DEF Orders
<1>2. Characters \subseteq Nat  BY PacketsAssumption
<1>3. PICK str \in Seq(Nat) : str = f.value /\ Len(str) = length
  <2>1. PICK chars \in Seq(Characters) : chars = f.value  BY <1>1
  <2>2. chars \in Seq(Nat)  BY <1>2, SeqMonotonic
  <2> QED  BY <2>1, <2>2
<1>4. PICK begin \in Seq(Nat) :
        begin = [k \in 1 .. n |-> str[k]] /\ Len(begin) = n /\ \A k \in 1 .. n : begin[k] = str[k]
  <2> DEFINE b == [k \in 1 .. n |-> str[k]]
  <2>1. n \in Nat /\ \A k \in 1 .. n : k \in 1 .. Len(str) /\ str[k] \in Nat  BY <1>3
  <2>2. b \in [1 .. n -> Nat]  BY <2>1
  <2>3. b \in Seq(Nat) /\ Len(b) = n  BY <2>1, <2>2
  <2> QED  BY <2>3
<1>5. text = Append(begin, 0)  BY <1>3, <1>4
<1>6. /\ text \in Seq(Nat) /\ Len(text) = n + 1
      /\ \A k \in 1 .. n : text[k] = begin[k]
      /\ text[n + 1] = 0
  <2>1. PICK m \in Nat : m = n  OBVIOUS
  <2>2. /\ Append(begin, 0) \in Seq(Nat)
        /\ Len(Append(begin, 0)) = Len(begin) + 1
        /\ \A i \in 1 .. Len(begin) : Append(begin, 0)[i] = begin[i]
        /\ Append(begin, 0)[Len(begin) + 1] = 0
    BY AppendProperties
  <2>3. Len(begin) = m  BY <1>4, <2>1
  <2>4. /\ Append(begin, 0) \in Seq(Nat) /\ Len(Append(begin, 0)) = m + 1
        /\ \A i \in 1 .. m : Append(begin, 0)[i] = begin[i]
        /\ Append(begin, 0)[m + 1] = 0
    BY <2>2, <2>3, Zenon
  <2> QED  BY <1>5, <2>1, <2>4
<1>7. [length |-> length] \in Results /\ Understood(f, [length |-> length])
  <2>1. DOMAIN [length |-> length] = {"length"}  OBVIOUS
  <2> QED  BY <2>1 DEF Results, Understood
<1>8. ASSUME n = length
      PROVE  /\ [length |-> length, new |-> text] \in Results
             /\ Understood(f, [length |-> length, new |-> text])
  <2>1. begin = str
    <3>1. Len(begin) = Len(str) /\ \A k \in 1 .. Len(begin) : begin[k] = str[k]  BY <1>3, <1>4, <1>8
    <3> QED  BY <3>1, SeqEqual
  <2>2. text = Append(f.value, 0)  BY <1>3, <1>5, <2>1
  <2>3. DOMAIN [length |-> length, new |-> text] = {"length", "new"}  OBVIOUS
  <2> QED  BY <1>6, <2>2, <2>3 DEF Results, Understood
<1>9. ASSUME n = copyLen(length)
      PROVE  /\ [length |-> length, buf |-> text] \in Results
             /\ Understood(f, [length |-> length, buf |-> text])
  <2>1. DOMAIN [length |-> length, buf |-> text] = {"length", "buf"}  OBVIOUS
  <2>2. n + 1 <= BufLen /\ (length >= BufLen => n + 1 = BufLen)
    BY <1>9, PacketsAssumption DEF copyLen
  <2>3. Last(text) = 0  BY <1>6 DEF Last
  <2>4. Front(text) = begin
    <3>1. Front(text) = SubSeq(text, 1, n)
      <4>1. Len(text) - 1 = n  BY <1>6
      <4> QED  BY <4>1 DEF Front
    <3>2. \A k \in 1 .. n : text[k] \in Nat  BY <1>6
    <3>3. /\ SubSeq(text, 1, n) \in Seq(Nat)
          /\ Len(SubSeq(text, 1, n)) = (IF 1 <= n THEN n - 1 + 1 ELSE 0)
          /\ \A i \in 1 .. (n - 1 + 1) : SubSeq(text, 1, n)[i] = text[1 + i - 1]
      BY <3>2, SubSeqProperties
    <3>4. Len(SubSeq(text, 1, n)) = n  BY <3>3
    <3>5. ASSUME NEW i \in 1 .. n PROVE SubSeq(text, 1, n)[i] = begin[i]
      <4>1. i \in 1 .. (n - 1 + 1) /\ 1 + i - 1 = i  OBVIOUS
      <4> QED  BY <1>6, <3>3, <4>1
    <3> QED  BY <1>4, <3>1, <3>3, <3>4, <3>5, SeqEqual
  <2>5. IsPrefix(begin, str)
    <3>1. \A k \in 1 .. n : str[k] \in Nat  BY <1>3
    <3>2. /\ SubSeq(begin, 1, n) \in Seq(Nat) /\ SubSeq(str, 1, n) \in Seq(Nat)
          /\ Len(SubSeq(begin, 1, n)) = Len(SubSeq(str, 1, n))
          /\ Len(SubSeq(begin, 1, n)) = (IF 1 <= n THEN n - 1 + 1 ELSE 0)
      BY <1>4, <3>1, SubSeqProperties
    <3>3. ASSUME NEW i \in 1 .. n PROVE SubSeq(begin, 1, n)[i] = SubSeq(str, 1, n)[i]
      <4>1. /\ \A j \in 1 .. (n - 1 + 1) : SubSeq(begin, 1, n)[j] = begin[1 + j - 1]
            /\ \A j \in 1 .. (n - 1 + 1) : SubSeq(str, 1, n)[j] = str[1 + j - 1]
        BY <1>4, <3>1, SubSeqProperties
      <4>2. i \in 1 .. (n - 1 + 1) /\ 1 + i - 1 = i  OBVIOUS
      <4> QED  BY <1>4, <4>1, <4>2
    <3>4. Len(SubSeq(begin, 1, n)) = n  BY <3>2
    <3>5. SubSeq(begin, 1, n) = SubSeq(str, 1, n)  BY <3>2, <3>3, <3>4, SeqEqual
    <3> QED  BY <1>3, <1>4, <3>5 DEF IsPrefix
  <2>6. [length |-> length, buf |-> text] \in Results  BY <1>6 DEF Results
  <2>7. IsPrefix(Front(text), f.value)  BY <1>3, <2>4, <2>5
  <2> QED  BY <1>3, <1>6, <2>1, <2>2, <2>3, <2>6, <2>7 DEF Understood
<1> QED  BY <1>7, <1>8, <1>9

LEMMA TextTaken ==
    ASSUME PacketsInv, skipUtf8String \/ readUtf8String \/ readNewUtf8String PROVE PacketsInv'
<1>1. Len(received) < Len(sent) /\ next.kind = "utf8"
  BY DEF skipUtf8String, readUtf8String, readNewUtf8String, Expects
<1>2. PICK f \in Fields : f = next  BY <1>1, NextIsThere
<1>3. PICK length \in Nat : length = Len(f.value) /\ length = getBE(4, ppSrc)
  <2>1. Len(f.value) \in Nat  BY <1>1, <1>2, FieldShape, LengthFits DEF Orders
  <2> QED  BY <1>1, <1>2, <2>1, NextIsThere
<1>4. Size(f) = 4 + length  BY <1>1, <1>2, <1>3 DEF Size
<1>5. \A n \in 0 .. length : TextAt(ppSrc + 4, n) = [k \in 1 .. n |-> f.value[k]]
  BY <1>1, <1>2, <1>3, NextIsThere
<1>6. CASE skipUtf8String
  <2>1. Took(Size(next), [length |-> length])  BY <1>2, <1>3, <1>4, <1>6 DEF skipUtf8String
  <2>2. length \in 0 .. length  OBVIOUS
  <2>3. [length |-> length] \in Results /\ Understood(f, [length |-> length])
    BY <1>1, <1>2, <1>3, <2>2, TextUnderstood
  <2> QED  BY <1>1, <1>2, <2>1, <2>3, TookKeeps
<1>7. CASE readUtf8String
  <2>1. PICK n \in 0 .. length : n = copyLen(length)
    <3>1. copyLen(length) \in 0 .. length  BY PacketsAssumption DEF copyLen
    <3> QED  BY <3>1
  <2>2. PICK text : text = Append(TextAt(ppSrc + 4, n), 0)  OBVIOUS
  <2>3. Took(Size(next), [length |-> length, buf |-> text])
    BY <1>2, <1>3, <1>4, <1>7, <2>1, <2>2 DEF readUtf8String
  <2>4. text = Append([k \in 1 .. n |-> f.value[k]], 0)  BY <1>5, <2>2
  <2>5. [length |-> length, buf |-> text] \in Results
        /\ Understood(f, [length |-> length, buf |-> text])
    BY <1>1, <1>2, <1>3, <2>1, <2>4, TextUnderstood
  <2> QED  BY <1>1, <1>2, <2>3, <2>5, TookKeeps
<1>8. CASE readNewUtf8String
  <2>1. PICK n \in 0 .. length : n = length  OBVIOUS
  <2>2. PICK text : text = Append(TextAt(ppSrc + 4, n), 0)  OBVIOUS
  <2>3. Took(Size(next), [length |-> length, new |-> text])
    BY <1>2, <1>3, <1>4, <1>8, <2>1, <2>2 DEF readNewUtf8String
  <2>4. text = Append([k \in 1 .. n |-> f.value[k]], 0)  BY <1>5, <2>2
  <2>5. [length |-> length, new |-> text] \in Results
        /\ Understood(f, [length |-> length, new |-> text])
    BY <1>1, <1>2, <1>3, <2>1, <2>4, TextUnderstood
  <2> QED  BY <1>1, <1>2, <2>3, <2>5, TookKeeps
<1> QED  BY <1>6, <1>7, <1>8

LEMMA PacketsStepInv == PacketsInv /\ [PacketsNext]_packetVars => PacketsInv'
<1> SUFFICES ASSUME PacketsInv, [PacketsNext]_packetVars PROVE PacketsInv'  OBVIOUS
<1>1. ASSUME NEW f \in Fields, expandBufAdd(f) \/ expandBufAddUtf8String(f) PROVE PacketsInv'
  <2>1. buf' = buf \o Encoded(f) /\ Add(f)
    BY <1>1 DEF expandBufAdd, expandBufAddUtf8String, Encoded, Orders
  <2> QED  BY <2>1, AddKeeps
<1>2. CASE UNCHANGED packetVars
  <2>1. buf' = buf /\ sent' = sent /\ ppSrc' = ppSrc /\ received' = received
    BY <1>2 DEF packetVars
  <2>2. PICK end \in [0 .. Len(sent) -> Nat] : Placed(end)  BY DEF PacketsInv
  <2>3. Placed(end)'
    <3>1. /\ end[0] = 0
          /\ \A j \in 1 .. Len(sent') :
               /\ end[j] = end[j - 1] + Size(sent'[j]) /\ end[j] <= Len(buf')
               /\ \A i \in 1 .. Size(sent'[j]) : buf'[end[j - 1] + i] = Encoded(sent'[j])[i]
          /\ end[Len(sent')] = Len(buf')
          /\ ppSrc' = end[Len(received')]
      BY <2>1, <2>2, Zenon DEF Placed
    <3> QED  BY <3>1 DEF Placed, Size, Encoded, setBE, setLE, setUtf8String
  <2> QED  BY <2>1, <2>2, <2>3 DEF PacketsInv, Understood
<1> QED  BY <1>1, <1>2, NumberTaken, TextTaken DEF PacketsNext

\* What the other modules may rely on.
LEMMA PacketsTyped == PacketsInv => PacketsTypeOK
<1> SUFFICES ASSUME PacketsInv PROVE PacketsTypeOK  OBVIOUS
<1>1. PICK end \in [0 .. Len(sent) -> Nat] : Placed(end)  BY DEF PacketsInv
<1>2. Len(sent) \in Nat /\ Len(received) \in Nat /\ Len(buf) \in Nat /\ Len(received) <= Len(sent)
  BY DEF PacketsInv
<1>3. ppSrc = end[Len(received)] /\ ppSrc \in Nat  BY <1>1, <1>2 DEF Placed
<1>4. ppSrc <= Len(buf)
  <2>1. CASE Len(received) = 0  BY <1>1, <1>2, <1>3, <2>1 DEF Placed
  <2>2. CASE Len(received) # 0
    <3>1. Len(received) \in 1 .. Len(sent)  BY <1>2, <2>2
    <3> QED  BY <1>1, <1>3, <3>1 DEF Placed
  <2> QED  BY <2>1, <2>2
<1> QED  BY <1>2, <1>3, <1>4 DEF PacketsInv, PacketsTypeOK

LEMMA PacketsAreRight == PacketsInv => PacketsSound
<1> SUFFICES ASSUME PacketsInv PROVE PacketsSound  OBVIOUS
<1>1. PICK end \in [0 .. Len(sent) -> Nat] : Placed(end)  BY DEF PacketsInv
<1>2. Len(sent) \in Nat /\ Len(received) \in Nat /\ Len(received) <= Len(sent)
      /\ DOMAIN received = 1 .. Len(received)
  BY DEF PacketsInv
<1>3. ppSrc = EndOf(Len(received))
  <2>1. Len(received) \in 0 .. Len(sent)  BY <1>2
  <2>2. EndOf(Len(received)) = end[Len(received)]  BY <1>1, <2>1, EndsWhereItSays
  <2> QED  BY <1>1, <2>2 DEF Placed
<1>4. \A k \in DOMAIN received : Understood(sent[k], received[k])  BY <1>2 DEF PacketsInv
<1>5. ReceivedIsSent  BY <1>3, <1>4 DEF ReceivedIsSent, Understood
<1>6. StaysInBuffer  BY <1>4 DEF StaysInBuffer, Understood
<1> QED  BY <1>5, <1>6 DEF PacketsSound

\* What one side of the debugger's connection writes the other reads, for any numbers of
\* up to eight bytes and any texts, in any order: the cursor is always at the end of a
\* field, and the buffer holds the digits of each where the invariant says it lies.
THEOREM PacketsAreSound == PacketsSpec => []PacketsSound
<1>1. PacketsSpec => []PacketsInv  BY PacketsInitInv, PacketsStepInv, PTL DEF PacketsSpec
<1> QED  BY <1>1, PacketsAreRight, PTL

-----------------------------------------------------------------------------
(* All that MCVm has side by side.                                         *)

VmInv == GCInv /\ StackInv /\ PacketsInv /\ FieldInv

LEMMA VmStepInv ==
    ASSUME "mark" \notin BoxingPhases, VmInv,
           [VmNext]_<<part, gcVars, stackVars, packetVars, fieldVars>>
    PROVE  VmInv'
<1>1. [GCNext]_gcVars /\ [StackNext]_stackVars /\ [PacketsNext]_packetVars /\ [FieldNext]_fieldVars
  BY DEF VmNext
<1> QED  BY <1>1, GCStepInv, StackStepInv, PacketsStepInv, FieldStepInv DEF VmInv

\* Every part keeps to its types, for any heap, stack, field layout and packets: bitmaps
\* and cards are those of objects, frames lie within the stack, the cursor of a receiver
\* stays within what has been sent, and slots of fields hold bytes.
THEOREM VmTypeCorrect == ASSUME "mark" \notin BoxingPhases PROVE VmSpec => []VmTypeOK
<1>1. VmInit => VmInv
  BY GCInitInv, StackInitInv, PacketsInitInv, FieldInitInv DEF VmInit, VmInv
<1>2. VmInv /\ [VmNext]_<<part, gcVars, stackVars, packetVars, fieldVars>> => VmInv'
  BY VmStepInv
<1>3. VmInv => VmTypeOK
  BY StackTyped, PacketsTyped, FieldTyped DEF VmInv, GCInv, TypesInv, VmTypeOK
<1> QED  BY <1>1, <1>2, <1>3, PTL DEF VmSpec
=============================================================================
