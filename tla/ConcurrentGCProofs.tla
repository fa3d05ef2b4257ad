------------------------- MODULE ConcurrentGCProofs -------------------------
(***************************************************************************)
(* That the collector of ConcurrentGC frees nothing that a thread can      *)
(* reach, for every layout of the heap, and that visitObject finds the     *)
(* references of every object, provided that boxMethodArgs is not executed *)
(* while the collector marks.                                              *)
(***************************************************************************)
EXTENDS ConcurrentGC, FiniteSetTheorems, SequenceTheorems, WellFoundedInduction, TLAPS

\* The objects whose bit is set.
ObjectsIn(hb) == {o \in Addrs : dvmHeapBitmapIsObjectBitSet(hb, o)}

\* No object above the highest has its bit set.
Bounded(hb) == hb \in HeapBitmap /\ \A o \in Addrs : BitOf(o) \in hb.bits => o <= hb.max

TypesInv ==
    /\ GCTypeOK
    /\ Bounded(live) /\ Bounded(marks)

\* The super of a class is where it belongs.
HasSuper(m, c) == m[<<c, "super", 0>>] = Layout[c].super

\* How far the linking of a class is shows in what it holds, and only classes whose super
\* has been stored have objects.
Links(m, st) ==
    /\ \A c \in Addrs : IF c \in Linking THEN st[c] # CLASS_NOTREADY
                                         ELSE st[c] = CLASS_RESOLVED
    /\ \A c \in Addrs : dvmIsClassObject(c) /\ st[c] = CLASS_RESOLVED =>
          HasSuper(m, c)

LinkInv ==
    /\ Links(mem, status)
    /\ \A l \in Locations :
          /\ mem[l] = Idx => l[2] \in {"super", "interface"}
                             /\ status[l[1]] \in {CLASS_IDX, CLASS_ERROR}
          /\ l[2] \in {"super", "interface"} /\ status[l[1]] = CLASS_IDX => mem[l] = Idx
    /\ \A o \in allocated : HasSuper(mem, Layout[o].clazz)

\* What is live contains what the thread holds and all that leads to; of the others only
\* the garbage that is still to be swept is there.
LiveInv ==
    /\ Held \subseteq ObjectsIn(live)
    /\ \A o \in ObjectsIn(live) : Children(o) \subseteq ObjectsIn(live)
    /\ allocated = ObjectsIn(live) \cup (IF phase = "sweep" THEN Garbage ELSE {})

\* While marking: an object scanned refers to marked ones, or is on a dirty card, or is
\* about to be.
MarkInv ==
    phase = "mark" =>
      /\ Old \subseteq ObjectsIn(marks) /\ ObjectsIn(marks) \subseteq allocated
      /\ scanned \subseteq ObjectsIn(marks)
      /\ \A o \in scanned : \/ Children(o) \subseteq ObjectsIn(marks)
                            \/ CardOf(o) \in cards \/ o = barrier

GCInv == TypesInv /\ LinkInv /\ LiveInv /\ MarkInv

-----------------------------------------------------------------------------
(* Numbers.                                                                 *)

LEMMA LeastElement ==
    ASSUME NEW T \in SUBSET Nat, T # {}
    PROVE  \E x \in T : \A y \in T : x <= y
<1> DEFINE R == OpToRel(<, Nat)
<1>1. IsWellFoundedOn(R, Nat)  BY NatLessThanWellFounded
<1>2. \A x, y \in Nat : <<y, x>> \in R <=> y < x  BY DEF OpToRel
<1> HIDE DEF R
<1>3. PICK x \in T : \A y \in T : ~ (<<y, x>> \in R)  BY <1>1, WFMin
<1>4. \A y \in T : ~ (y < x)  BY <1>2, <1>3
<1> QED  BY <1>3, <1>4

\* Induction, for a set of numbers.
LEMMA SetInduction ==
    ASSUME NEW S, 0 \in S, \A n \in Nat : n \in S => n + 1 \in S
    PROVE  Nat \subseteq S
<1> DEFINE T == {n \in Nat : n \notin S}
<1> SUFFICES ASSUME T # {} PROVE FALSE
  OBVIOUS
<1>1. PICK x \in T : \A y \in T : x <= y
  <2> T \in SUBSET Nat  OBVIOUS
  <2> HIDE DEF T
  <2> QED  BY LeastElement
<1>2. x # 0 /\ x - 1 \in Nat /\ x - 1 \notin T  BY <1>1
<1> QED  BY <1>1, <1>2

LEMMA GreatestElement ==
    ASSUME NEW T \in SUBSET Nat, IsFiniteSet(T), T # {}
    PROVE  \E x \in T : \A y \in T : y <= x
<1>1. PICK s \in Seq(T) : \A x \in T : \E i \in 1 .. Len(s) : s[i] = x
  BY DEF IsFiniteSet
<1>2. PICK n \in Nat : n = Len(s)  OBVIOUS
<1>3. \A i \in 1 .. n : s[i] \in T /\ s[i] \in Nat
  <2>1. \A i \in 1 .. n : s[i] \in T  BY <1>2, ElementOfSeq
  <2> QED  BY <2>1
<1> DEFINE Covered(k) == \E b \in Nat : \A i \in 1 .. n : i <= k => s[i] <= b
           S == {k \in Nat : Covered(k)}
<1>4. Covered(0)  OBVIOUS
<1>5. ASSUME NEW k \in Nat, Covered(k) PROVE Covered(k + 1)
  <2>1. PICK b \in Nat : \A i \in 1 .. n : i <= k => s[i] <= b  BY <1>5
  <2>2. CASE k + 1 \in 1 .. n
    <3>1. s[k + 1] \in Nat  BY <1>3, <2>2
    <3>2. PICK d \in Nat : b <= d /\ s[k + 1] <= d  BY <3>1
    <3>3. \A i \in 1 .. n : s[i] \in Nat  BY <1>3
    <3>4. ASSUME NEW i \in 1 .. n, i <= k + 1 PROVE s[i] <= d
      <4>1. CASE i = k + 1  BY <3>2, <4>1
      <4>2. CASE i # k + 1
        <5>1. i <= k  BY <3>4, <4>2
        <5> QED  BY <2>1, <3>2, <3>3, <5>1
      <4> QED  BY <4>1, <4>2
    <3> QED  BY <3>4
  <2>3. CASE k + 1 \notin 1 .. n
    <3>1. \A i \in 1 .. n : i <= k + 1 => i <= k  BY <2>3
    <3> QED  BY <2>1, <3>1
  <2> QED  BY <2>2, <2>3
<1>6. n \in S
  <2>1. \A k \in Nat : k \in S <=> Covered(k)  OBVIOUS
  <2> HIDE DEF S, Covered
  <2>2. 0 \in S /\ \A k \in Nat : k \in S => k + 1 \in S  BY <1>4, <1>5, <2>1
  <2> QED  BY <2>2, SetInduction
<1>7. PICK b \in Nat : \A i \in 1 .. n : i <= n => s[i] <= b  BY <1>6
<1>8. \A x \in T : x <= b  BY <1>1, <1>2, <1>7
<1> DEFINE U == {u \in Nat : \A x \in T : x <= u}
<1>9. PICK u \in U : \A v \in U : u <= v
  <2>1. U \in SUBSET Nat /\ U # {}  BY <1>8
  <2> HIDE DEF U
  <2> QED  BY <2>1, LeastElement
<1>10. u \in T
  <2> SUFFICES ASSUME u \notin T PROVE FALSE  OBVIOUS
  <2>1. u \in Nat /\ \A x \in T : x \in Nat /\ x <= u /\ x # u  BY <1>9
  <2>2. \A x \in T : x <= u - 1  BY <2>1
  <2>3. u - 1 \in Nat
    <3>1. PICK x \in T : x \in Nat /\ x <= u /\ x # u  BY <2>1
    <3> QED  BY <2>1, <3>1
  <2>4. u - 1 \in U  BY <2>2, <2>3
  <2> QED  BY <1>9, <2>1, <2>4
<1> QED  BY <1>9, <1>10

\* A definition by recursion on 0 .. top whose every step is a function of what the step
\* before it gave has the values that the definition says.
Iterates(f, step, first, top) ==
    f[0] = first /\ \A n \in 1 .. top : f[n] = step[f[n - 1]]

LEMMA Iteration ==
    ASSUME NEW D, NEW step, step \in [D -> D], NEW first, first \in D, NEW top \in Nat
    PROVE  \E f \in [0 .. top -> D] : Iterates(f, step, first, top)
<1> USE DEF Iterates
<1> DEFINE Defined(k) == \E f \in [0 .. k -> D] : Iterates(f, step, first, k)
           S == {k \in Nat : Defined(k)}
<1>1. Defined(0)
  <2> DEFINE f == [n \in 0 .. 0 |-> first]
  <2>1. f \in [0 .. 0 -> D] /\ f[0] = first /\ \A n \in 1 .. 0 : f[n] = step[f[n - 1]]
    OBVIOUS
  <2> QED  BY <2>1
<1>2. ASSUME NEW k \in Nat, Defined(k) PROVE Defined(k + 1)
  <2>1. PICK f \in [0 .. k -> D] : Iterates(f, step, first, k)
    BY <1>2
  <2> DEFINE g == [n \in 0 .. (k + 1) |-> IF n = k + 1 THEN step[f[k]] ELSE f[n]]
  <2>2. f[k] \in D /\ step[f[k]] \in D  OBVIOUS
  <2>3. \A n \in 0 .. (k + 1) : n # k + 1 => n \in 0 .. k  OBVIOUS
  <2>4. g \in [0 .. (k + 1) -> D]  BY <2>2, <2>3
  <2>5. g[0] = first  BY <2>1
  <2>6. ASSUME NEW n \in 1 .. (k + 1) PROVE g[n] = step[g[n - 1]]
    <3>1. CASE n = k + 1
      <4>1. g[n] = step[f[k]] /\ n - 1 = k /\ g[k] = f[k]  BY <3>1
      <4> QED  BY <4>1
    <3>2. CASE n # k + 1
      <4>1. n \in 1 .. k /\ n - 1 \in 0 .. k  BY <3>2
      <4>2. g[n] = f[n] /\ g[n - 1] = f[n - 1]  BY <4>1
      <4> QED  BY <2>1, <4>1, <4>2
    <3> QED  BY <3>1, <3>2
  <2> QED  BY <2>4, <2>5, <2>6
<1>3. top \in S
  <2>1. 0 \in S /\ \A k \in Nat : k \in S => k + 1 \in S  BY <1>1, <1>2
  <2> HIDE DEF S
  <2> QED  BY <2>1, SetInduction
<1> QED  BY <1>3

-----------------------------------------------------------------------------
(* Bitmaps.                                                                 *)

LEMMA Addresses ==
    /\ Addrs \subseteq Nat /\ Addrs # {} /\ IsFiniteSet(Addrs)
    /\ \A a \in Addrs : a % 8 = 0
    /\ HB_BITS_PER_WORD \in Nat \ {0}
    /\ HeapBase \in Addrs /\ \A a \in Addrs : HeapBase <= a
<1>1. /\ Addrs \subseteq Nat /\ Addrs # {} /\ IsFiniteSet(Addrs)
      /\ \A a \in Addrs : a % 8 = 0
      /\ HB_BITS_PER_WORD \in Nat \ {0}
  BY LayoutAssumption DEF HB_OBJECT_ALIGNMENT
<1>2. \E a \in Addrs : \A b \in Addrs : a <= b  BY <1>1, LeastElement
<1> QED  BY <1>1, <1>2 DEF HeapBase

LEMMA Quotients ==
    ASSUME NEW w \in Int, w > 0, NEW p \in Int, NEW q \in Int,
           p \div w = q \div w, p % w = q % w
    PROVE  p = q
BY Z3

\* Each object has a bit of its own.
LEMMA ObjectBits ==
    /\ \A a \in Addrs : BitOf(a) \in Nat \X Nat
    /\ \A a, b \in Addrs : BitOf(a) = BitOf(b) => a = b
<1> DEFINE w == HB_BITS_PER_WORD
           q(a) == (a - HeapBase) \div 8
<1>1. w \in Nat /\ w > 0  BY Addresses
<1>2. \A a \in Addrs : BitOf(a) = <<q(a) \div w, w - 1 - (q(a) % w)>>
  BY DEF BitOf, HB_OFFSET_TO_INDEX, HB_OFFSET_TO_MASK, HB_OBJECT_ALIGNMENT
<1>3. ASSUME NEW a \in Addrs
      PROVE  q(a) \in Nat /\ a = HeapBase + 8 * q(a)
  <2>1. a \in Nat /\ HeapBase \in Nat /\ HeapBase <= a /\ a % 8 = 0 /\ HeapBase % 8 = 0
    BY Addresses
  <2> QED  BY <2>1
<1> HIDE DEF w, q
<1>4. ASSUME NEW a \in Addrs
      PROVE  q(a) \div w \in Nat /\ q(a) % w \in 0 .. (w - 1)
  BY <1>1, <1>3
<1>5. ASSUME NEW a \in Addrs PROVE BitOf(a) \in Nat \X Nat
  <2>1. w - 1 - (q(a) % w) \in Nat  BY <1>1, <1>4
  <2> QED  BY <1>2, <1>4, <2>1
<1>6. ASSUME NEW a \in Addrs, NEW b \in Addrs, BitOf(a) = BitOf(b) PROVE a = b
  <2>1. q(a) \div w = q(b) \div w /\ w - 1 - (q(a) % w) = w - 1 - (q(b) % w)
    BY <1>2, <1>6
  <2>2. q(a) % w = q(b) % w  BY <1>1, <1>4, <2>1
  <2>3. q(a) = q(b)  BY <1>1, <1>3, <2>1, <2>2, Quotients
  <2> QED  BY <1>3, <2>3
<1> QED  BY <1>5, <1>6

LEMMA MarkedObjects ==
    ASSUME NEW hb, Bounded(hb), NEW S \in SUBSET Addrs
    PROVE  Bounded(Marked(hb, S)) /\ ObjectsIn(Marked(hb, S)) = ObjectsIn(hb) \cup S
<1> DEFINE new == Marked(hb, S)
<1>1. hb.bits \in SUBSET (Nat \X Nat) /\ hb.max \in Addrs \cup {-1}
  BY DEF Bounded, HeapBitmap
<1>2. Addrs \subseteq Nat /\ \A m \in Addrs \cup {-1} : m \in Int  BY Addresses
<1>3. new.bits = hb.bits \cup {BitOf(o) : o \in S}  BY DEF Marked
<1>4. /\ new.max \in Addrs \cup {-1} /\ hb.max <= new.max
      /\ \A o \in S : o <= new.max
  <2>1. CASE \A o \in S : o <= hb.max
    <3>1. new.max = hb.max  BY <2>1 DEF Marked
    <3>2. hb.max \in Int  BY <1>1, <1>2
    <3> QED  BY <1>1, <2>1, <3>1, <3>2
  <2>2. CASE ~ \A o \in S : o <= hb.max
    <3>1. PICK p \in S : ~ (p <= hb.max)  BY <2>2
    <3>2. S \in SUBSET Nat /\ IsFiniteSet(S) /\ S # {}
      BY <1>2, <3>1, Addresses, FS_Subset
    <3>3. \E o \in S : \A r \in S : r <= o  BY <3>2, GreatestElement
    <3>4. new.max = CHOOSE o \in S : \A r \in S : r <= o  BY <2>2 DEF Marked
    <3>5. new.max \in S /\ \A r \in S : r <= new.max  BY <3>3, <3>4
    <3> HIDE DEF new
    <3>7. hb.max \in Int  BY <1>1, <1>2
    <3>6. p <= new.max /\ p \in Nat /\ new.max \in Nat /\ hb.max \in Int
      BY <1>2, <3>1, <3>5, <3>7
    <3> QED  BY <3>1, <3>5, <3>6
  <2> QED  BY <2>1, <2>2
<1>5. new \in HeapBitmap
  <2>1. new = [bits |-> new.bits, max |-> new.max]  BY DEF Marked
  <2>2. new.bits \in SUBSET (Nat \X Nat)  BY <1>1, <1>3, ObjectBits
  <2> HIDE DEF new
  <2> QED  BY <1>4, <2>1, <2>2 DEF HeapBitmap
<1> HIDE DEF new
<1>6. \A o \in Addrs : BitOf(o) \in new.bits => BitOf(o) \in hb.bits \/ o \in S
  BY <1>3, ObjectBits
<1>7. \A o \in Addrs : BitOf(o) \in hb.bits => o <= hb.max  BY DEF Bounded
<1>8. \A o \in Addrs : BitOf(o) \in new.bits => o <= new.max
  <2> TAKE o \in Addrs
  <2> HAVE BitOf(o) \in new.bits
  <2>4. new.max \in Addrs \cup {-1} /\ hb.max \in Addrs \cup {-1}  BY <1>1, <1>4
  <2>1. o \in Int /\ hb.max \in Int /\ new.max \in Int  BY <1>2, <2>4
  <2>2. CASE o \in S  BY <1>4, <2>2
  <2>3. CASE o \notin S
    <3>1. o <= hb.max  BY <1>6, <1>7, <2>3
    <3> QED  BY <1>4, <2>1, <3>1
  <2> QED  BY <2>2, <2>3
<1>9. Bounded(new)  BY <1>5, <1>8 DEF Bounded
<1>10. \A o \in Addrs : o \in ObjectsIn(hb) <=> BitOf(o) \in hb.bits
  BY <1>7 DEF ObjectsIn, dvmHeapBitmapIsObjectBitSet
<1>11. \A o \in Addrs : o \in ObjectsIn(new) <=> BitOf(o) \in new.bits
  BY <1>8 DEF ObjectsIn, dvmHeapBitmapIsObjectBitSet
<1>12. ObjectsIn(new) \subseteq Addrs /\ ObjectsIn(hb) \subseteq Addrs  BY DEF ObjectsIn
<1>13. \A o \in Addrs : o \in ObjectsIn(new) <=> o \in ObjectsIn(hb) \/ o \in S
  BY <1>3, <1>6, <1>10, <1>11
<1> QED  BY <1>9, <1>12, <1>13 DEF new

LEMMA BitSet ==
    ASSUME NEW hb, Bounded(hb), NEW o \in Addrs
    PROVE  /\ Bounded(dvmHeapBitmapSetObjectBit(hb, o))
           /\ ObjectsIn(dvmHeapBitmapSetObjectBit(hb, o)) = ObjectsIn(hb) \cup {o}
<1>1. hb.max \in Int /\ o \in Int
  <2>1. hb.max \in Addrs \cup {-1}  BY DEF Bounded, HeapBitmap
  <2>2. \A m \in Addrs \cup {-1} : m \in Int  BY Addresses
  <2> QED  BY <2>1, <2>2
<1>2. Marked(hb, {o}).bits = hb.bits \cup {BitOf(o)}  BY DEF Marked
<1>3. Marked(hb, {o}).max = IF o > hb.max THEN o ELSE hb.max
  <2>1. CASE o <= hb.max  BY <1>1, <2>1 DEF Marked
  <2>2. CASE ~ (o <= hb.max)
    <3>1. Marked(hb, {o}).max = CHOOSE p \in {o} : \A q \in {o} : q <= p
      BY <2>2 DEF Marked
    <3>2. \E p \in {o} : \A q \in {o} : q <= p  BY <1>1
    <3>3. Marked(hb, {o}).max \in {o}  BY <3>1, <3>2
    <3> QED  BY <1>1, <2>2, <3>3
  <2> QED  BY <2>1, <2>2
<1>4. dvmHeapBitmapSetObjectBit(hb, o) = Marked(hb, {o})
  <2>1. Marked(hb, {o}) = [bits |-> Marked(hb, {o}).bits, max |-> Marked(hb, {o}).max]
    BY DEF Marked
  <2> QED  BY <1>2, <1>3, <2>1 DEF dvmHeapBitmapSetObjectBit
<1> QED  BY <1>4, MarkedObjects

LEMMA NoBits == Bounded(EmptyBitmap) /\ ObjectsIn(EmptyBitmap) = {}
BY DEF Bounded, ObjectsIn, EmptyBitmap, HeapBitmap, dvmHeapBitmapIsObjectBitSet

-----------------------------------------------------------------------------
(* Classes above a class.                                                   *)

\* What up is in the definition of SuperChain.
Climbs(up, m, c) ==
    /\ up[0] = {c}
    /\ \A n \in 1 .. Depth :
         up[n] = up[n - 1] \cup ({m[<<k, "super", 0>>] : k \in up[n - 1]} \cap Addrs)

LEMMA ChainSteps ==
    ASSUME NEW m, NEW c \in Addrs
    PROVE  \E up : Climbs(up, m, c) /\ SuperChain(m, c) = up[Depth]
<1> DEFINE step == [s \in SUBSET Addrs |-> s \cup ({m[<<k, "super", 0>>] : k \in s} \cap Addrs)]
           body(f) == [n \in 0 .. Depth |->
                         IF n = 0 THEN {c}
                         ELSE LET s == f[n - 1]
                              IN s \cup ({m[<<k, "super", 0>>] : k \in s} \cap Addrs)]
           up == CHOOSE f : f = body(f)
<1>1. Depth \in Nat  BY LayoutAssumption
<1>2. SuperChain(m, c) = up[Depth]  BY DEF SuperChain
<1>3. step \in [SUBSET Addrs -> SUBSET Addrs] /\ {c} \in SUBSET Addrs  OBVIOUS
<1>4. PICK f \in [0 .. Depth -> SUBSET Addrs] :
         f[0] = {c} /\ \A n \in 1 .. Depth : f[n] = step[f[n - 1]]
  <2>1. PICK D : D = SUBSET Addrs  OBVIOUS
  <2>2. PICK first : first = {c}  OBVIOUS
  <2> HIDE DEF step
  <2>3. step \in [D -> D] /\ first \in D  BY <1>3, <2>1, <2>2
  <2>4. \E f \in [0 .. Depth -> D] : Iterates(f, step, first, Depth)
    BY ONLY <1>1, <2>3, Iteration
  <2> QED  BY <2>1, <2>2, <2>4 DEF Iterates
<1>5. ASSUME NEW n \in 0 .. Depth
      PROVE  f[n] = IF n = 0 THEN {c}
                    ELSE LET s == f[n - 1]
                         IN s \cup ({m[<<k, "super", 0>>] : k \in s} \cap Addrs)
  <2>1. CASE n = 0  BY <1>4, <2>1
  <2>2. CASE n # 0
    <3>1. n \in 1 .. Depth /\ n - 1 \in 0 .. Depth  BY <1>1, <2>2
    <3>2. f[n] = step[f[n - 1]] /\ f[n - 1] \in SUBSET Addrs  BY <1>4, <3>1
    <3>3. step[f[n - 1]] = f[n - 1] \cup ({m[<<k, "super", 0>>] : k \in f[n - 1]} \cap Addrs)
      BY <3>2
    <3> HIDE DEF step
    <3> QED  BY <2>2, <3>2, <3>3
  <2> QED  BY <2>1, <2>2
<1>6. f = body(f)
  <2>1. f = [n \in 0 .. Depth |-> f[n]]  OBVIOUS
  <2> QED  BY <1>5, <2>1
<1>7. up = body(up)
  <2> HIDE DEF body
  <2> QED  BY <1>6
<1>8. up[0] = {c}
  <2>1. body(up)[0] = {c}  BY <1>1
  <2> HIDE DEF body, up
  <2> QED  BY <1>7, <2>1
<1>9. ASSUME NEW n \in 1 .. Depth
      PROVE  up[n] = up[n - 1] \cup ({m[<<k, "super", 0>>] : k \in up[n - 1]} \cap Addrs)
  <2> HIDE DEF up
  <2>1. n \in 0 .. Depth /\ n # 0  BY <1>1
  <2>2. body(up)[n] = up[n - 1] \cup ({m[<<k, "super", 0>>] : k \in up[n - 1]} \cap Addrs)
    BY <2>1
  <2> HIDE DEF body
  <2> QED  BY <1>7, <2>2
<1> HIDE DEF up
<1>10. Climbs(up, m, c)  BY <1>8, <1>9 DEF Climbs
<1> QED  BY <1>2, <1>10

\* Which classes are above one depends on what these hold.
LEMMA ChainAgrees ==
    ASSUME NEW m, NEW l, NEW P \in SUBSET Addrs, NEW c \in P,
           \A x \in P : /\ m[<<x, "super", 0>>] = l[<<x, "super", 0>>]
                        /\ m[<<x, "super", 0>>] \in Addrs => m[<<x, "super", 0>>] \in P
    PROVE  SuperChain(m, c) = SuperChain(l, c) /\ SuperChain(m, c) \subseteq P
<1>1. Depth \in Nat /\ c \in Addrs  BY LayoutAssumption
<1>2. PICK up : Climbs(up, m, c) /\ SuperChain(m, c) = up[Depth]
  BY <1>1, ChainSteps
<1>3. PICK vp : Climbs(vp, l, c) /\ SuperChain(l, c) = vp[Depth]
  BY <1>1, ChainSteps
<1> DEFINE S == {n \in Nat : n <= Depth => up[n] = vp[n] /\ up[n] \subseteq P}
<1>4. 0 \in S  BY <1>2, <1>3 DEF Climbs
<1>5. ASSUME NEW n \in Nat, n \in S PROVE n + 1 \in S
  <2> SUFFICES ASSUME n + 1 <= Depth PROVE up[n + 1] = vp[n + 1] /\ up[n + 1] \subseteq P
    OBVIOUS
  <2>1. n + 1 \in 1 .. Depth /\ (n + 1) - 1 = n /\ n <= Depth  BY <1>1
  <2>2. up[n] = vp[n] /\ up[n] \subseteq P  BY <1>5, <2>1
  <2>3. up[n + 1] = up[n] \cup ({m[<<k, "super", 0>>] : k \in up[n]} \cap Addrs)
    BY <1>2, <2>1 DEF Climbs
  <2>4. vp[n + 1] = vp[n] \cup ({l[<<k, "super", 0>>] : k \in vp[n]} \cap Addrs)
    BY <1>3, <2>1 DEF Climbs
  <2>5. {m[<<k, "super", 0>>] : k \in up[n]} = {l[<<k, "super", 0>>] : k \in vp[n]}
    BY <2>2
  <2>6. {m[<<k, "super", 0>>] : k \in up[n]} \cap Addrs \subseteq P  BY <2>2
  <2> QED  BY <2>2, <2>3, <2>4, <2>5, <2>6
<1>6. Depth \in S
  <2> HIDE DEF S
  <2> QED  BY <1>1, <1>4, <1>5, SetInduction
<1> QED  BY <1>1, <1>2, <1>3, <1>6

\* The fields of a class whose super has been stored, and of those above it, are what they
\* will be for good.
LEMMA FieldsLinked ==
    ASSUME NEW m, NEW st, Links(m, st), NEW c \in Addrs, dvmIsClassObject(c), HasSuper(m, c)
    PROVE  InheritedFields(m, c) = InheritedFields(Linked, c)
<1> DEFINE P == {x \in Addrs : dvmIsClassObject(x) /\ HasSuper(m, x)}
<1>1. ASSUME NEW x \in P
      PROVE  /\ m[<<x, "super", 0>>] = Linked[<<x, "super", 0>>]
             /\ m[<<x, "super", 0>>] \in Addrs => m[<<x, "super", 0>>] \in P
  <2>1. m[<<x, "super", 0>>] = Layout[x].super  BY DEF HasSuper
  <2>2. Linked[<<x, "super", 0>>] = Layout[x].super  BY DEF Linked
  <2>3. ASSUME Layout[x].super \in Addrs PROVE Layout[x].super \in P
    <3>1. Layout[x].super # Null  BY <2>3, LayoutAssumption
    <3>2. dvmIsClassObject(Layout[x].super)  BY <3>1, ShapesAssumption
    <3>3. Layout[x].super \notin Linking  BY HeapAssumption
    <3> QED  BY <2>3, <3>2, <3>3 DEF Links
  <2> QED  BY <2>1, <2>2, <2>3
<1>2. P \in SUBSET Addrs /\ c \in P  OBVIOUS
<1> HIDE DEF P
<1>3. SuperChain(m, c) = SuperChain(Linked, c)  BY <1>1, <1>2, ChainAgrees
<1> QED  BY <1>3 DEF InheritedFields

\* The offsets of fields are those of words.
LEMMA FieldOffsets ==
    ASSUME NEW m, NEW c \in Addrs, NEW off \in InheritedFields(m, c)
    PROVE  /\ off \in UNION {Layout[k].ifields : k \in Addrs}
           /\ off \in Nat /\ off >= 8 /\ off % 4 = 0
<1>1. SuperChain(m, c) \subseteq Addrs
  <2>1. \A x \in Addrs : /\ m[<<x, "super", 0>>] = m[<<x, "super", 0>>]
                         /\ m[<<x, "super", 0>>] \in Addrs => m[<<x, "super", 0>>] \in Addrs
    OBVIOUS
  <2> QED  BY <2>1, ChainAgrees
<1>2. PICK k \in Addrs : off \in Layout[k].ifields  BY <1>1 DEF InheritedFields
<1>3. Layout[k] \in Shapes  BY LayoutAssumption
<1>4. Layout[k].ifields \in SUBSET Nat  BY <1>3 DEF Shapes
<1>5. off >= 8 /\ off % 4 = 0
  BY <1>2, ShapesAssumption DEF CLASS_SMALLEST_OFFSET, CLASS_OFFSET_ALIGNMENT
<1> QED  BY <1>2, <1>4, <1>5

\* However the fields are found, by refOffsets or by a walk over the classes, they are found.
LEMMA FieldsVisited ==
    ASSUME NEW m, NEW o \in Addrs, Layout[o].clazz \in Addrs
    PROVE  visitFields(m, o) = {<<o, "field", off>> : off \in InheritedFields(m, Layout[o].clazz)}
<1> DEFINE c == Layout[o].clazz
           fields == InheritedFields(m, c)
           bits == refOffsets(m, c)
<1>1. \A off \in fields :
        CLASS_OFFSET_FROM_CLZ(CLASS_BIT_NUMBER_FROM_OFFSET(off)) = off
  <2> TAKE off \in fields
  <2>1. off \in Nat /\ off >= 8 /\ off % 4 = 0  BY FieldOffsets
  <2>2. ((off - 8) \div 4) * 4 + 8 = off
    <3> HIDE DEF fields
    <3> QED  BY <2>1
  <2> QED
    BY <2>2 DEF CLASS_OFFSET_FROM_CLZ, CLASS_BIT_NUMBER_FROM_OFFSET, CLASS_SMALLEST_OFFSET,
                CLASS_OFFSET_ALIGNMENT
<1>2. ASSUME bits # CLASS_WALK_SUPER
      PROVE  {CLASS_OFFSET_FROM_CLZ(rshift) : rshift \in bits} = fields
  <2>1. bits = {CLASS_BIT_NUMBER_FROM_OFFSET(off) : off \in fields}
    BY <1>2 DEF refOffsets
  <2> HIDE DEF bits, fields
  <2> QED  BY <1>1, <2>1
<1> QED  BY <1>2 DEF visitFields

-----------------------------------------------------------------------------
(* What visitObject visits.                                                 *)

LEMMA LayoutFields ==
    ASSUME NEW a \in Addrs
    PROVE  /\ Layout[a].clazz \in Addrs /\ Layout[a].clazz \in Old
           /\ dvmIsClassObject(Layout[a].clazz)
           /\ Layout[a].super \in Old \cup {Null} /\ Layout[a].element \in Old \cup {Null}
           /\ Layout[a].sfields \in Seq({"L", "[", "I"})
           /\ Layout[a].interfaceCount \in Nat /\ Layout[a].length \in Nat
           /\ Null \notin Addrs /\ Idx \notin Addrs /\ Idx # Null
<1>1. Layout[a] \in Shapes  BY LayoutAssumption
<1>2. /\ Layout[a].clazz \in Addrs /\ Layout[a].super \in Addrs \cup {Null}
      /\ Layout[a].element \in Addrs \cup {Null}
      /\ Layout[a].sfields \in Seq({"L", "[", "I"})
      /\ Layout[a].interfaceCount \in Nat /\ Layout[a].length \in Nat
  BY <1>1 DEF Shapes
<1>3. Layout[a].clazz \notin Young /\ Layout[a].super \notin Young /\ Layout[a].element \notin Young
  BY HeapAssumption
<1>4. Young \subseteq Addrs  BY GCAssumption
<1>5. dvmIsClassObject(Layout[a].clazz)  BY ShapesAssumption
<1>6. Null \notin Addrs /\ Idx \notin Addrs /\ Idx # Null  BY LayoutAssumption
<1> QED  BY <1>2, <1>3, <1>4, <1>5, <1>6 DEF Old

\* The locations of an object, by their parts.
LEMMA LocationParts ==
    ASSUME NEW o \in Addrs
    PROVE  /\ \A l \in LocationsIn[o] : l = <<o, l[2], l[3]>>
           /\ \A p, n : <<o, p, n>> \in LocationsIn[o] <=>
                \/ p = "clazz" /\ n = 0
                \/ p = "field" /\ n \in UNION {Layout[c].ifields : c \in Addrs}
                \/ /\ dvmIsClassObject(o)
                   /\ \/ p \in {"super", "classLoader", "elementClass"} /\ n = 0
                      \/ p = "static" /\ n \in DOMAIN Layout[o].sfields
                      \/ p = "interface" /\ n \in 1 .. Layout[o].interfaceCount
                \/ /\ ~dvmIsClassObject(o)
                   /\ \/ p = "contents" /\ n \in 0 .. (Layout[o].length - 1)
                      \/ p = "referent" /\ n = 0
<1> DEFINE F == UNION {Layout[c].ifields : c \in Addrs}
           C == {<<o, "super", 0>>, <<o, "classLoader", 0>>, <<o, "elementClass", 0>>}
                    \cup {<<o, "static", i>> : i \in DOMAIN Layout[o].sfields}
                    \cup {<<o, "interface", i>> : i \in 1 .. Layout[o].interfaceCount}
           D == {<<o, "contents", i>> : i \in 0 .. (Layout[o].length - 1)}
                    \cup {<<o, "referent", 0>>}
           G == {<<o, "field", off>> : off \in F}
<1>1. LocationsIn[o] = {<<o, "clazz", 0>>} \cup (IF dvmIsClassObject(o) THEN C ELSE D)
                          \cup G
  BY DEF LocationsIn
<1> HIDE DEF F
<1>2. /\ \A l \in G : l = <<o, l[2], l[3]>>
      /\ \A p, n : <<o, p, n>> \in G <=> p = "field" /\ n \in F
  OBVIOUS
<1>3. \A l \in C \cup D : l = <<o, l[2], l[3]>>  OBVIOUS
<1>4. \A p, n : <<o, p, n>> \in C <=>
                      \/ p \in {"super", "classLoader", "elementClass"} /\ n = 0
                      \/ p = "static" /\ n \in DOMAIN Layout[o].sfields
                      \/ p = "interface" /\ n \in 1 .. Layout[o].interfaceCount
  OBVIOUS
<1>5. \A p, n : <<o, p, n>> \in D <=>
                      \/ p = "contents" /\ n \in 0 .. (Layout[o].length - 1)
                      \/ p = "referent" /\ n = 0
  OBVIOUS
<1> HIDE DEF C, D, G
<1>6. \A p, n : <<o, p, n>> \in LocationsIn[o] <=>
        \/ p = "clazz" /\ n = 0
        \/ <<o, p, n>> \in G
        \/ dvmIsClassObject(o) /\ <<o, p, n>> \in C
        \/ ~dvmIsClassObject(o) /\ <<o, p, n>> \in D
  BY <1>1
<1>7. \A l \in LocationsIn[o] : l = <<o, l[2], l[3]>>  BY <1>1, <1>3, <1>2
<1>8. F = UNION {Layout[c].ifields : c \in Addrs}  BY DEF F
<1>9. ASSUME NEW p, NEW n
      PROVE  <<o, p, n>> \in LocationsIn[o] <=>
                \/ p = "clazz" /\ n = 0
                \/ p = "field" /\ n \in F
                \/ /\ dvmIsClassObject(o)
                   /\ \/ p \in {"super", "classLoader", "elementClass"} /\ n = 0
                      \/ p = "static" /\ n \in DOMAIN Layout[o].sfields
                      \/ p = "interface" /\ n \in 1 .. Layout[o].interfaceCount
                \/ /\ ~dvmIsClassObject(o)
                   /\ \/ p = "contents" /\ n \in 0 .. (Layout[o].length - 1)
                      \/ p = "referent" /\ n = 0
  <2>1. <<o, p, n>> \in G <=> p = "field" /\ n \in F  BY <1>2
  <2>2. <<o, p, n>> \in C <=>
                      \/ p \in {"super", "classLoader", "elementClass"} /\ n = 0
                      \/ p = "static" /\ n \in DOMAIN Layout[o].sfields
                      \/ p = "interface" /\ n \in 1 .. Layout[o].interfaceCount
    BY <1>4
  <2>3. <<o, p, n>> \in D <=>
                      \/ p = "contents" /\ n \in 0 .. (Layout[o].length - 1)
                      \/ p = "referent" /\ n = 0
    BY <1>5
  <2>4. <<o, p, n>> \in LocationsIn[o] <=>
           \/ p = "clazz" /\ n = 0
           \/ <<o, p, n>> \in G
           \/ dvmIsClassObject(o) /\ <<o, p, n>> \in C
           \/ ~dvmIsClassObject(o) /\ <<o, p, n>> \in D
    BY <1>6
  <2> QED  BY <2>1, <2>2, <2>3, <2>4
<1> QED  BY <1>7, <1>8, <1>9

\* What is visited, by parts.
LEMMA VisitedParts ==
    ASSUME NEW m, NEW st, NEW o \in Addrs
    PROVE  LET c == Layout[o].clazz IN
           /\ \A l \in visitObject(m, st, o) : l = <<o, l[2], l[3]>>
           /\ \A p, n : <<o, p, n>> \in visitObject(m, st, o) <=>
                \/ p = "clazz" /\ n = 0
                \/ p = "field" /\ n \in InheritedFields(m, c)
                   /\ (dvmIsClassObject(o) \/ ~IS_CLASS_FLAG_SET(c, "CLASS_ISARRAY"))
                \/ /\ dvmIsClassObject(o)
                   /\ \/ p = "classLoader" /\ n = 0
                      \/ p = "elementClass" /\ n = 0 /\ IS_CLASS_FLAG_SET(o, "CLASS_ISARRAY")
                      \/ p = "static" /\ n \in DOMAIN Layout[o].sfields
                         /\ Layout[o].sfields[n] \in {"[", "L"}
                      \/ p = "super" /\ n = 0 /\ st[o] > CLASS_IDX
                      \/ p = "interface" /\ n \in 1 .. Layout[o].interfaceCount
                         /\ st[o] > CLASS_IDX
                \/ /\ ~dvmIsClassObject(o)
                   /\ \/ p = "contents" /\ n \in 0 .. (Layout[o].length - 1)
                         /\ IS_CLASS_FLAG_SET(c, "CLASS_ISARRAY")
                         /\ IS_CLASS_FLAG_SET(c, "CLASS_ISOBJECTARRAY")
                      \/ p = "referent" /\ n = 0 /\ ~IS_CLASS_FLAG_SET(c, "CLASS_ISARRAY")
                         /\ IS_CLASS_FLAG_SET(c, "CLASS_ISREFERENCE")
<1> DEFINE c == Layout[o].clazz
           F == {<<o, "field", off>> : off \in InheritedFields(m, c)}
<1>1. visitFields(m, o) = F  BY LayoutFields, FieldsVisited
<1>2. /\ \A l \in F : l = <<o, l[2], l[3]>>
      /\ \A p, n : <<o, p, n>> \in F <=> p = "field" /\ n \in InheritedFields(m, c)
  OBVIOUS
<1> DEFINE S == visitStaticFields(o)
           I == visitInterfaces(o)
<1>3. /\ \A l \in S : l = <<o, l[2], l[3]>>
      /\ \A p, n : <<o, p, n>> \in S <=>
           p = "static" /\ n \in DOMAIN Layout[o].sfields /\ Layout[o].sfields[n] \in {"[", "L"}
  BY DEF visitStaticFields
<1>4. /\ \A l \in I : l = <<o, l[2], l[3]>>
      /\ \A p, n : <<o, p, n>> \in I <=> p = "interface" /\ n \in 1 .. Layout[o].interfaceCount
  BY DEF visitInterfaces
<1> HIDE DEF F, S, I
<1>5. CASE dvmIsClassObject(o)
  <2>1. visitObject(m, st, o) =
          {<<o, "clazz", 0>>, <<o, "classLoader", 0>>}
          \cup (IF IS_CLASS_FLAG_SET(o, "CLASS_ISARRAY") THEN {<<o, "elementClass", 0>>} ELSE {})
          \cup F \cup S
          \cup (IF st[o] > CLASS_IDX THEN {<<o, "super", 0>>} \cup I ELSE {})
    BY <1>1, <1>5 DEF visitObject, visitClassObject, S, I
  <2>2. \A l \in visitObject(m, st, o) : l = <<o, l[2], l[3]>>
    BY <1>2, <1>3, <1>4, <2>1
  <2>3. \A p, n : <<o, p, n>> \in visitObject(m, st, o) <=>
          \/ p = "clazz" /\ n = 0
          \/ p = "classLoader" /\ n = 0
          \/ p = "elementClass" /\ n = 0 /\ IS_CLASS_FLAG_SET(o, "CLASS_ISARRAY")
          \/ <<o, p, n>> \in F \/ <<o, p, n>> \in S
          \/ st[o] > CLASS_IDX /\ ((p = "super" /\ n = 0) \/ <<o, p, n>> \in I)
    BY <2>1
  <2> QED  BY <1>2, <1>3, <1>4, <1>5, <2>2, <2>3
<1>6. CASE ~dvmIsClassObject(o) /\ IS_CLASS_FLAG_SET(c, "CLASS_ISARRAY")
  <2> DEFINE A == {<<o, "contents", i>> : i \in 0 .. (Layout[o].length - 1)}
  <2>1. visitObject(m, st, o) =
          {<<o, "clazz", 0>>}
          \cup (IF IS_CLASS_FLAG_SET(c, "CLASS_ISOBJECTARRAY") THEN A ELSE {})
    BY <1>6 DEF visitObject, visitArrayObject
  <2>2. /\ \A l \in A : l = <<o, l[2], l[3]>>
        /\ \A p, n : <<o, p, n>> \in A <=> p = "contents" /\ n \in 0 .. (Layout[o].length - 1)
    OBVIOUS
  <2> HIDE DEF A
  <2>3. \A l \in visitObject(m, st, o) : l = <<o, l[2], l[3]>>  BY <2>1, <2>2
  <2>4. \A p, n : <<o, p, n>> \in visitObject(m, st, o) <=>
          \/ p = "clazz" /\ n = 0
          \/ IS_CLASS_FLAG_SET(c, "CLASS_ISOBJECTARRAY") /\ <<o, p, n>> \in A
    BY <2>1
  <2> QED  BY <1>6, <2>2, <2>3, <2>4
<1>7. CASE ~dvmIsClassObject(o) /\ ~IS_CLASS_FLAG_SET(c, "CLASS_ISARRAY")
  <2>1. visitObject(m, st, o) =
          {<<o, "clazz", 0>>} \cup F
          \cup (IF IS_CLASS_FLAG_SET(c, "CLASS_ISREFERENCE") THEN {<<o, "referent", 0>>} ELSE {})
    <3>1. CASE IS_CLASS_FLAG_SET(c, "CLASS_ISREFERENCE")
      BY <1>1, <1>7, <3>1 DEF visitObject, visitReferenceObject, visitDataObject
    <3>2. CASE ~IS_CLASS_FLAG_SET(c, "CLASS_ISREFERENCE")
      BY <1>1, <1>7, <3>2 DEF visitObject, visitDataObject
    <3> QED  BY <3>1, <3>2
  <2>2. \A l \in visitObject(m, st, o) : l = <<o, l[2], l[3]>>  BY <1>2, <2>1
  <2>3. \A p, n : <<o, p, n>> \in visitObject(m, st, o) <=>
          \/ p = "clazz" /\ n = 0
          \/ <<o, p, n>> \in F
          \/ IS_CLASS_FLAG_SET(c, "CLASS_ISREFERENCE") /\ p = "referent" /\ n = 0
    BY <2>1
  <2> QED  BY <1>2, <1>7, <2>2, <2>3
<1> QED  BY <1>5, <1>6, <1>7

\* What is visited of an object that there is, whatever is stored meanwhile.
Visits(st, o) == visitObject(Linked, st, o)

LEMMA VisitsSteady ==
    ASSUME NEW m, NEW st, Links(m, st), NEW o \in Addrs, HasSuper(m, Layout[o].clazz)
    PROVE  visitObject(m, st, o) = Visits(st, o)
<1>1. Layout[o].clazz \in Addrs /\ dvmIsClassObject(Layout[o].clazz)  BY LayoutFields
<1>2. InheritedFields(m, Layout[o].clazz) = InheritedFields(Linked, Layout[o].clazz)
  BY <1>1, FieldsLinked
<1>3. visitFields(m, o) = visitFields(Linked, o)  BY <1>1, <1>2, FieldsVisited
<1> QED
  BY <1>3 DEF Visits, visitObject, visitClassObject, visitReferenceObject, visitDataObject

LEMMA VisitsWithin ==
    ASSUME NEW st, NEW o \in Addrs
    PROVE  /\ Visits(st, o) \subseteq LocationsIn[o]
           /\ \A l \in LocationsIn[o] : l[1] = o /\ l \in Locations
<1>1. ASSUME NEW p, NEW n, <<o, p, n>> \in visitObject(Linked, st, o)
      PROVE  <<o, p, n>> \in LocationsIn[o]
  <2> DEFINE c == Layout[o].clazz
             F == UNION {Layout[k].ifields : k \in Addrs}
  <2>1. c \in Addrs  BY LayoutFields
  <2>2. InheritedFields(Linked, c) \subseteq F  BY <2>1, FieldOffsets
  <2>4. <<o, p, n>> \in visitObject(Linked, st, o) <=>
          \/ p = "clazz" /\ n = 0
          \/ p = "field" /\ n \in InheritedFields(Linked, c)
             /\ (dvmIsClassObject(o) \/ ~IS_CLASS_FLAG_SET(c, "CLASS_ISARRAY"))
          \/ /\ dvmIsClassObject(o)
             /\ \/ p = "classLoader" /\ n = 0
                \/ p = "elementClass" /\ n = 0 /\ IS_CLASS_FLAG_SET(o, "CLASS_ISARRAY")
                \/ p = "static" /\ n \in DOMAIN Layout[o].sfields
                   /\ Layout[o].sfields[n] \in {"[", "L"}
                \/ p = "super" /\ n = 0 /\ st[o] > CLASS_IDX
                \/ p = "interface" /\ n \in 1 .. Layout[o].interfaceCount
                   /\ st[o] > CLASS_IDX
          \/ /\ ~dvmIsClassObject(o)
             /\ \/ p = "contents" /\ n \in 0 .. (Layout[o].length - 1)
                   /\ IS_CLASS_FLAG_SET(c, "CLASS_ISARRAY")
                   /\ IS_CLASS_FLAG_SET(c, "CLASS_ISOBJECTARRAY")
                \/ p = "referent" /\ n = 0 /\ ~IS_CLASS_FLAG_SET(c, "CLASS_ISARRAY")
                   /\ IS_CLASS_FLAG_SET(c, "CLASS_ISREFERENCE")
    BY VisitedParts
  <2>3. CASE p = "field" /\ n \in InheritedFields(Linked, c)
    <3> HIDE DEF c, F
    <3> QED  BY <2>2, <2>3, LocationParts DEF F
  <2>5. CASE dvmIsClassObject(o) /\ p \in {"super", "classLoader", "elementClass"} /\ n = 0
    BY <2>5, LocationParts
  <2>6. CASE dvmIsClassObject(o) /\ p = "static" /\ n \in DOMAIN Layout[o].sfields
    BY <2>6, LocationParts
  <2>7. CASE dvmIsClassObject(o) /\ p = "interface" /\ n \in 1 .. Layout[o].interfaceCount
    BY <2>7, LocationParts
  <2>8. CASE ~dvmIsClassObject(o) /\ p = "contents" /\ n \in 0 .. (Layout[o].length - 1)
    BY <2>8, LocationParts
  <2>9. CASE ~dvmIsClassObject(o) /\ p = "referent" /\ n = 0
    BY <2>9, LocationParts
  <2>10. CASE p = "clazz" /\ n = 0  BY <2>10, LocationParts
  <2> HIDE DEF c, F
  <2> QED  BY <1>1, <2>3, <2>4, <2>5, <2>6, <2>7, <2>8, <2>9, <2>10
<1>2. \A l \in visitObject(Linked, st, o) : l = <<o, l[2], l[3]>>  BY VisitedParts
<1>3. Visits(st, o) \subseteq LocationsIn[o]  BY <1>1, <1>2 DEF Visits
<1>4. \A l \in LocationsIn[o] : l[1] = o
  <2> TAKE l \in LocationsIn[o]
  <2>1. l = <<o, l[2], l[3]>>  BY LocationParts
  <2> QED  BY <2>1
<1> QED  BY <1>3, <1>4 DEF Locations

\* Where references are stored is visited.
LEMMA StoredVisited ==
    ASSUME NEW st, NEW l \in MutableLocs
    PROVE  /\ l[1] \in Addrs /\ l \in Locations /\ l \in Visits(st, l[1])
           /\ l[2] \in {"static", "field", "contents"}
<1> DEFINE o == l[1]
           c == Layout[o].clazz
<1>1. /\ o \in Addrs /\ l \in LocationsIn[o]
      /\ \/ l[2] = "static" /\ Layout[o].sfields[l[3]] # "I"
         \/ l[2] = "field" /\ l[3] \in InheritedFields(Linked, c)
         \/ l[2] = "contents" /\ IS_CLASS_FLAG_SET(c, "CLASS_ISOBJECTARRAY")
  BY HeapAssumption
<1>2. l = <<o, l[2], l[3]>>  BY <1>1, LocationParts
<1> HIDE DEF o
<1>3. PICK p, n : l = <<o, p, n>> /\ p = l[2] /\ n = l[3]  BY <1>2
<1>4. c \in Addrs /\ Layout[o].sfields \in Seq({"L", "[", "I"})  BY <1>1, LayoutFields
<1>5. l \in visitObject(Linked, st, o)
  <2>1. CASE p = "static" /\ Layout[o].sfields[n] # "I"
    <3>1. dvmIsClassObject(o) /\ n \in DOMAIN Layout[o].sfields
      BY <1>1, <1>3, <2>1, LocationParts
    <3>2. Layout[o].sfields[n] \in {"L", "[", "I"}  BY <1>4, <3>1, ElementOfSeq, LenProperties
    <3> QED  BY <1>1, <1>3, <2>1, <3>1, <3>2, VisitedParts
  <2>2. CASE p = "field" /\ n \in InheritedFields(Linked, c)
    <3>1. ~IS_CLASS_FLAG_SET(c, "CLASS_ISARRAY")  BY <1>4, <2>2, HeapAssumption
    <3> QED  BY <1>1, <1>3, <2>2, <3>1, VisitedParts
  <2>3. CASE p = "contents" /\ IS_CLASS_FLAG_SET(c, "CLASS_ISOBJECTARRAY")
    <3>1. ~dvmIsClassObject(o) /\ n \in 0 .. (Layout[o].length - 1)
      BY <1>1, <1>3, <2>3, LocationParts
    <3>2. IS_CLASS_FLAG_SET(c, "CLASS_ISARRAY")  BY <1>4, <2>3, ShapesAssumption
    <3> QED  BY <1>1, <1>3, <2>3, <3>1, <3>2, VisitedParts
  <2> QED  BY <1>1, <1>3, <2>1, <2>2, <2>3
<1> QED  BY <1>1, <1>5 DEF o, Visits, Locations

\* visitObject is right of every object there is.
LEMMA VisitIsRight ==
    ASSUME TypesInv, LinkInv, NEW o \in allocated
    PROVE  visitObject(mem, status, o) =
             {l \in LocationsIn[o] : HoldsReference(l)} \ Hidden(o)
<1> DEFINE c == Layout[o].clazz
           V == visitObject(mem, status, o)
           F == InheritedFields(mem, c)
<1>1. o \in Addrs /\ mem \in [Locations -> Addrs \cup {Null, Idx}] /\ status \in [Addrs -> ClassStatus]
  BY DEF TypesInv, GCTypeOK
<1>2. /\ c \in Addrs /\ dvmIsClassObject(c) /\ HasSuper(mem, c)
      /\ Layout[o].sfields \in Seq({"L", "[", "I"})
  BY <1>1, LayoutFields DEF LinkInv
<1>3. F = InheritedFields(Linked, c)  BY <1>2, FieldsLinked DEF LinkInv
<1>4. V = Visits(status, o)  BY <1>1, <1>2, VisitsSteady DEF LinkInv
<1>5. V \subseteq LocationsIn[o] /\ \A l \in LocationsIn[o] : l \in Locations
  BY <1>1, <1>4, VisitsWithin
<1>6. /\ status[o] > CLASS_IDX <=> status[o] \notin {CLASS_IDX, CLASS_ERROR}
      /\ CLASS_IDX # CLASS_ERROR
  <2>1. status[o] \in ClassStatus /\ (o \in Linking => status[o] # CLASS_NOTREADY)
        /\ (o \notin Linking => status[o] = CLASS_RESOLVED)
    BY <1>1 DEF LinkInv, Links
  <2> QED
    BY <2>1 DEF ClassStatus, CLASS_ERROR, CLASS_NOTREADY, CLASS_IDX, CLASS_LOADED, CLASS_RESOLVED
<1> HIDE DEF V, F, c
<1>7. ASSUME NEW p, NEW n, <<o, p, n>> \in LocationsIn[o]
      PROVE  <<o, p, n>> \in V <=> HoldsReference(<<o, p, n>>) /\ <<o, p, n>> \notin Hidden(o)
  <2> DEFINE l == <<o, p, n>>
  <2>1. l[1] = o /\ l[2] = p /\ l[3] = n  OBVIOUS
  <2>2. /\ mem[l] = Idx => p \in {"super", "interface"} /\ status[o] \in {CLASS_IDX, CLASS_ERROR}
        /\ p \in {"super", "interface"} /\ status[o] = CLASS_IDX => mem[l] = Idx
    BY <1>5, <1>7, <2>1 DEF LinkInv
  <2>11. l \in Hidden(o) <=> status[o] = CLASS_ERROR /\ p \in {"super", "interface"}
    <3>1. p \in {"super", "interface"} =>
            IF p = "interface" THEN n \in 1 .. Layout[o].interfaceCount ELSE n = 0
      BY <1>1, <1>7, LocationParts
    <3> QED  BY <3>1 DEF Hidden, visitInterfaces
  <2> HIDE DEF l
  <2>3. HoldsReference(l) <=>
          CASE p = "clazz" -> TRUE
            [] p = "field" -> n \in F
            [] p = "static" -> Layout[o].sfields[n] # "I"
            [] p = "contents" -> Layout[c].element # Null
                                   /\ IS_CLASS_FLAG_SET(c, "CLASS_ISOBJECTARRAY")
            [] p = "elementClass" -> Layout[o].element # Null
            [] p = "referent" -> IS_CLASS_FLAG_SET(c, "CLASS_ISREFERENCE")
            [] OTHER -> mem[l] # Idx
    BY <2>1 DEF HoldsReference, F, c, IS_CLASS_FLAG_SET
  <2>4. CASE p = "clazz"
    <3>1. n = 0  BY <1>1, <1>7, <2>4, LocationParts
    <3>2. HoldsReference(l)  BY <2>3, <2>4
    <3> QED  BY <1>1, <2>4, <2>11, <3>1, <3>2, VisitedParts DEF V, l
  <2>5. CASE p = "field"
    <3>1. IS_CLASS_FLAG_SET(c, "CLASS_ISARRAY") => n \notin F
      BY <1>2, <1>3, HeapAssumption
    <3>2. l \in V <=> n \in F /\ (dvmIsClassObject(o) \/ ~IS_CLASS_FLAG_SET(c, "CLASS_ISARRAY"))
      BY <1>1, <2>5, VisitedParts DEF V, F, c, l
    <3>3. HoldsReference(l) <=> n \in F  BY <2>3, <2>5
    <3> QED  BY <2>5, <2>11, <3>1, <3>2, <3>3 DEF l
  <2>6. CASE p = "static"
    <3>1. dvmIsClassObject(o) /\ n \in DOMAIN Layout[o].sfields
      BY <1>1, <1>7, <2>6, LocationParts
    <3>2. Layout[o].sfields[n] \in {"L", "[", "I"}
      BY <1>2, <3>1, ElementOfSeq, LenProperties
    <3>3. l \in V <=> Layout[o].sfields[n] \in {"[", "L"}
      BY <1>1, <2>6, <3>1, VisitedParts DEF V, l
    <3>4. HoldsReference(l) <=> Layout[o].sfields[n] # "I"  BY <2>3, <2>6
    <3> QED  BY <2>6, <2>11, <3>2, <3>3, <3>4 DEF l
  <2>7. CASE p = "contents"
    <3>1. ~dvmIsClassObject(o) /\ n \in 0 .. (Layout[o].length - 1)
      BY <1>1, <1>7, <2>7, LocationParts
    <3>2. l \in V <=> IS_CLASS_FLAG_SET(c, "CLASS_ISARRAY")
                        /\ IS_CLASS_FLAG_SET(c, "CLASS_ISOBJECTARRAY")
      BY <1>1, <2>7, <3>1, VisitedParts DEF V, c, l
    <3>3. HoldsReference(l) <=> Layout[c].element # Null
                                  /\ IS_CLASS_FLAG_SET(c, "CLASS_ISOBJECTARRAY")
      BY <2>3, <2>7
    <3>4. Layout[c].element # Null <=> IS_CLASS_FLAG_SET(c, "CLASS_ISARRAY")
      BY <1>2, ShapesAssumption
    <3> QED  BY <2>7, <2>11, <3>2, <3>3, <3>4 DEF l
  <2>8. CASE p = "elementClass"
    <3>1. dvmIsClassObject(o) /\ n = 0  BY <1>1, <1>7, <2>8, LocationParts
    <3>2. l \in V <=> IS_CLASS_FLAG_SET(o, "CLASS_ISARRAY")
      BY <1>1, <2>8, <3>1, VisitedParts DEF V, l
    <3>3. HoldsReference(l) <=> Layout[o].element # Null  BY <2>3, <2>8
    <3>4. Layout[o].element # Null <=> IS_CLASS_FLAG_SET(o, "CLASS_ISARRAY")
      BY <1>1, ShapesAssumption
    <3> QED  BY <2>8, <2>11, <3>2, <3>3, <3>4 DEF l
  <2>9. CASE p = "referent"
    <3>1. ~dvmIsClassObject(o) /\ n = 0  BY <1>1, <1>7, <2>9, LocationParts
    <3>2. l \in V <=> ~IS_CLASS_FLAG_SET(c, "CLASS_ISARRAY")
                        /\ IS_CLASS_FLAG_SET(c, "CLASS_ISREFERENCE")
      BY <1>1, <2>9, <3>1, VisitedParts DEF V, c, l
    <3>3. HoldsReference(l) <=> IS_CLASS_FLAG_SET(c, "CLASS_ISREFERENCE")  BY <2>3, <2>9
    <3>4. IS_CLASS_FLAG_SET(c, "CLASS_ISREFERENCE") => ~IS_CLASS_FLAG_SET(c, "CLASS_ISARRAY")
      BY <1>2, ShapesAssumption
    <3> QED  BY <2>9, <2>11, <3>2, <3>3, <3>4 DEF l
  <2>10. CASE p \in {"super", "interface", "classLoader"}
    <3>1. dvmIsClassObject(o)
          /\ IF p = "interface" THEN n \in 1 .. Layout[o].interfaceCount ELSE n = 0
      BY <1>1, <1>7, <2>10, LocationParts
    <3>2. l \in V <=> (p \in {"super", "interface"} => status[o] > CLASS_IDX)
      BY <1>1, <2>10, <3>1, VisitedParts DEF V, l
    <3>3. HoldsReference(l) <=> mem[l] # Idx  BY <2>3, <2>10
    <3> QED  BY <1>6, <2>2, <2>10, <2>11, <3>2, <3>3 DEF l
  <2> QED
    BY <1>1, <1>7, <2>4, <2>5, <2>6, <2>7, <2>8, <2>9, <2>10, LocationParts
<1>8. \A l \in LocationsIn[o] : l \in V <=> HoldsReference(l) /\ l \notin Hidden(o)
  <2> TAKE l \in LocationsIn[o]
  <2>1. PICK p, n : l = <<o, p, n>>  BY <1>1, LocationParts
  <2> QED  BY <1>7, <2>1
<1> QED  BY <1>5, <1>8 DEF V

-----------------------------------------------------------------------------
(* What objects refer to, and what can be reached.                          *)

LEMMA ChildrenAre ==
    ASSUME NEW o \in Addrs, Links(mem, status), HasSuper(mem, Layout[o].clazz)
    PROVE  Children(o) = {mem[l] : l \in Visits(status, o)} \cap Addrs
BY VisitsSteady DEF Children, ValuesAt

\* A step adds to the references of an object what it stores there.
LEMMA ChildrenKept ==
    ASSUME NEW o \in Addrs, NEW X,
           Links(mem, status), HasSuper(mem, Layout[o].clazz),
           Links(mem', status'), HasSuper(mem', Layout[o].clazz),
           \A l \in Visits(status', o) :
              \/ l \in Visits(status, o) /\ mem'[l] = mem[l]
              \/ mem'[l] \notin Addrs
              \/ mem'[l] \in X
    PROVE  Children(o)' \subseteq Children(o) \cup X
<1>1. Children(o) = {mem[l] : l \in Visits(status, o)} \cap Addrs  BY ChildrenAre
<1>2. visitObject(mem', status', o) = Visits(status', o)  BY VisitsSteady
<1>3. Children(o)' = {mem'[l] : l \in Visits(status', o)} \cap Addrs
  BY <1>2 DEF Children, ValuesAt
<1> HIDE DEF Children
<1> QED  BY <1>1, <1>3

\* What reach is in the definition of Reachable.
Referred(r) == UNION {Children(o) : o \in r}

Spreads(reach, s) ==
    /\ reach[0] = s
    /\ \A n \in 1 .. Cardinality(Young) :
         reach[n] = reach[n - 1] \cup (Referred(reach[n - 1]) \ Old)

LEMMA YoungIsFinite ==
    Young \subseteq Addrs /\ IsFiniteSet(Young) /\ Cardinality(Young) \in Nat /\ Old \cap Young = {}
<1>1. Young \subseteq Addrs /\ IsFiniteSet(Addrs)  BY GCAssumption, Addresses
<1> QED  BY <1>1, FS_Subset, FS_CardinalityType DEF Old

LEMMA ReachableSteps ==
    ASSUME NEW s \in SUBSET Addrs
    PROVE  \E reach : Spreads(reach, s) /\ Reachable(s) = reach[Cardinality(Young)]
<1> DEFINE top == Cardinality(Young)
           step == [r \in SUBSET Addrs |-> r \cup ((UNION {Children(o) : o \in r}) \ Old)]
           body(f) == [n \in 0 .. top |->
                         IF n = 0 THEN s
                         ELSE LET r == f[n - 1]
                              IN r \cup ((UNION {Children(o) : o \in r}) \ Old)]
           reach == CHOOSE f : f = body(f)
<1>1. top \in Nat  BY YoungIsFinite
<1>2. Reachable(s) = reach[top]  BY DEF Reachable
<1>3. \A o : Children(o) \subseteq Addrs  BY DEF Children, ValuesAt
<1>4. step \in [SUBSET Addrs -> SUBSET Addrs]
  <2> HIDE DEF Children
  <2>1. \A r \in SUBSET Addrs : r \cup ((UNION {Children(o) : o \in r}) \ Old) \in SUBSET Addrs
    BY <1>3
  <2> QED  BY <2>1
<1> HIDE DEF top
<1>5. PICK f \in [0 .. top -> SUBSET Addrs] :
         f[0] = s /\ \A n \in 1 .. top : f[n] = step[f[n - 1]]
  <2>1. PICK D : D = SUBSET Addrs  OBVIOUS
  <2> HIDE DEF step
  <2>2. step \in [D -> D] /\ s \in D  BY <1>4, <2>1
  <2>3. \E f \in [0 .. top -> D] : Iterates(f, step, s, top)
    BY ONLY <1>1, <2>2, Iteration
  <2> QED  BY <2>1, <2>3 DEF Iterates
<1>6. ASSUME NEW n \in 0 .. top
      PROVE  f[n] = IF n = 0 THEN s
                    ELSE LET r == f[n - 1]
                         IN r \cup ((UNION {Children(o) : o \in r}) \ Old)
  <2>1. CASE n = 0  BY <1>5, <2>1
  <2>2. CASE n # 0
    <3>1. n \in 1 .. top /\ n - 1 \in 0 .. top  BY <1>1, <2>2
    <3>2. f[n] = step[f[n - 1]] /\ f[n - 1] \in SUBSET Addrs  BY <1>5, <3>1
    <3>3. step[f[n - 1]] = f[n - 1] \cup ((UNION {Children(o) : o \in f[n - 1]}) \ Old)
      BY <3>2
    <3> HIDE DEF step
    <3> QED  BY <2>2, <3>2, <3>3
  <2> QED  BY <2>1, <2>2
<1>7. f = body(f)
  <2>1. f = [n \in 0 .. top |-> f[n]]  OBVIOUS
  <2> QED  BY <1>6, <2>1
<1>8. reach = body(reach)
  <2> HIDE DEF body
  <2> QED  BY <1>7
<1>9. reach[0] = s
  <2>1. body(reach)[0] = s  BY <1>1
  <2> HIDE DEF body, reach
  <2> QED  BY <1>8, <2>1
<1>10. ASSUME NEW n \in 1 .. top
       PROVE  reach[n] = reach[n - 1] \cup (Referred(reach[n - 1]) \ Old)
  <2> HIDE DEF reach
  <2>3. Referred(reach[n - 1]) = UNION {Children(o) : o \in reach[n - 1]}  BY DEF Referred
  <2>1. n \in 0 .. top /\ n # 0  BY <1>1
  <2>2. body(reach)[n] = reach[n - 1] \cup ((UNION {Children(o) : o \in reach[n - 1]}) \ Old)
    BY <2>1
  <2> HIDE DEF body
  <2>4. reach[n] = reach[n - 1] \cup ((UNION {Children(o) : o \in reach[n - 1]}) \ Old)
    BY <1>8, <2>2
  <2> HIDE DEF Children
  <2> QED  BY <2>3, <2>4
<1> HIDE DEF reach
<1>11. Spreads(reach, s)  BY <1>9, <1>10 DEF Spreads, top
<1> QED  BY <1>2, <1>11 DEF top

\* Nothing beyond a set that is closed can be reached from within.
LEMMA ReachableWithin ==
    ASSUME NEW T \in SUBSET Addrs, NEW s \in SUBSET T, \A o \in T : Children(o) \subseteq T
    PROVE  Reachable(s) \subseteq T
<1>1. PICK top \in Nat : top = Cardinality(Young)  BY YoungIsFinite
<1>2. PICK r : Spreads(r, s) /\ Reachable(s) = r[top]
  BY <1>1, ReachableSteps
<1> DEFINE S == {n \in Nat : n <= top => r[n] \subseteq T}
<1>3. 0 \in S  BY <1>2 DEF Spreads
<1>4. ASSUME NEW n \in Nat, n \in S PROVE n + 1 \in S
  <2> SUFFICES ASSUME n + 1 <= top PROVE r[n + 1] \subseteq T  OBVIOUS
  <2>1. n + 1 \in 1 .. top /\ (n + 1) - 1 = n /\ r[n] \subseteq T  BY <1>4
  <2>2. r[n + 1] = r[n] \cup (Referred(r[n]) \ Old)
    BY <1>1, <1>2, <2>1 DEF Spreads
  <2>3. Referred(r[n]) \subseteq T
    <3> HIDE DEF Children
    <3> QED  BY <2>1 DEF Referred
  <2> QED  BY <2>1, <2>2, <2>3
<1>5. top \in S
  <2> HIDE DEF S
  <2> QED  BY <1>3, <1>4, SetInduction
<1> QED  BY <1>2, <1>5

\* As many steps as there are young objects are enough.
LEMMA ReachableClosed ==
    ASSUME NEW s \in SUBSET Young
    PROVE  /\ s \subseteq Reachable(s) /\ Reachable(s) \subseteq Young
           /\ \A o \in Reachable(s) : Children(o) \subseteq Reachable(s) \cup Old
<1>1. PICK top \in Nat : top = Cardinality(Young)  BY YoungIsFinite
<1>2. PICK r : Spreads(r, s) /\ Reachable(s) = r[top]
  <2>1. s \in SUBSET Addrs  BY YoungIsFinite
  <2> QED  BY <1>1, <2>1, ReachableSteps
<1>3. \A o : Children(o) \subseteq Old \cup Young  BY DEF Children, ValuesAt, Old
<1> DEFINE Closed(n) == \A o \in r[n] : Children(o) \subseteq r[n] \cup Old
           Good(n) == /\ s \subseteq r[n] /\ r[n] \subseteq Young
                      /\ Closed(n) \/ Cardinality(r[n]) >= n
           S == {n \in Nat : n <= top => Good(n)}
<1> HIDE DEF Children
<1>4. Good(0)
  <2>1. r[0] = s /\ IsFiniteSet(s)  BY <1>2, YoungIsFinite, FS_Subset DEF Spreads
  <2>2. Cardinality(s) \in Nat  BY <2>1, FS_CardinalityType
  <2> QED  BY <2>1, <2>2
<1>5. ASSUME NEW n \in Nat, Good(n), n + 1 <= top PROVE Good(n + 1)
  <2>1. n + 1 \in 1 .. top /\ (n + 1) - 1 = n  BY <1>5
  <2> DEFINE spread == Referred(r[n])
  <2>2. r[n + 1] = r[n] \cup (spread \ Old)
    BY <1>1, <1>2, <2>1 DEF Spreads
  <2>7. spread \subseteq Old \cup Young  BY <1>3 DEF Referred
  <2>8. Closed(n) <=> spread \subseteq r[n] \cup Old  BY DEF Referred
  <2>9. s \subseteq r[n] /\ r[n] \subseteq Young  BY <1>5
  <2> HIDE DEF spread
  <2>3. s \subseteq r[n + 1] /\ r[n] \subseteq r[n + 1] /\ r[n + 1] \subseteq Young
    BY <2>2, <2>7, <2>9
  <2>4. CASE Closed(n)
    <3>1. r[n + 1] = r[n]
      <4>1. spread \subseteq r[n] \cup Old  BY <2>4, <2>8
      <4> QED  BY <2>2, <4>1
    <3> QED  BY <2>3, <2>4, <3>1
  <2>5. CASE ~Closed(n)
    <3>1. r[n + 1] # r[n]
      <4>1. ~(spread \subseteq r[n] \cup Old)  BY <2>5, <2>8
      <4> QED  BY <2>2, <4>1
    <3>2. IsFiniteSet(r[n + 1])  BY <2>3, YoungIsFinite, FS_Subset
    <3>3. IsFiniteSet(r[n]) /\ Cardinality(r[n]) <= Cardinality(r[n + 1])
          /\ Cardinality(r[n]) # Cardinality(r[n + 1])
      BY <2>3, <3>1, <3>2, FS_Subset
    <3>4. Cardinality(r[n]) \in Nat /\ Cardinality(r[n + 1]) \in Nat
      BY <3>2, <3>3, FS_CardinalityType
    <3>5. Cardinality(r[n]) >= n  BY <1>5, <2>5
    <3>6. Cardinality(r[n + 1]) >= n + 1
      <4> HIDE DEF Closed
      <4> QED  BY <3>3, <3>4, <3>5
    <3> QED  BY <2>3, <3>6
  <2> QED  BY <2>4, <2>5
<1>6. top \in S
  <2> HIDE DEF Good
  <2>1. 0 \in S /\ \A n \in Nat : n \in S => n + 1 \in S  BY <1>4, <1>5
  <2> HIDE DEF S
  <2> QED  BY <2>1, SetInduction
<1>7. Good(top)  BY <1>6
<1>8. Closed(top)
  <2> SUFFICES ASSUME Cardinality(r[top]) >= top PROVE Closed(top)  BY <1>7
  <2>1. r[top] \subseteq Young /\ IsFiniteSet(Young)  BY <1>7, YoungIsFinite
  <2>2. Cardinality(r[top]) <= top /\ IsFiniteSet(r[top])  BY <1>1, <2>1, FS_Subset
  <2>3. Cardinality(r[top]) \in Nat  BY <2>2, FS_CardinalityType
  <2>4. Cardinality(r[top]) = Cardinality(Young)  BY <1>1, <2>2, <2>3
  <2>5. r[top] = Young  BY <2>1, <2>4, FS_Subset
  <2> QED  BY <1>3, <2>5
<1> QED  BY <1>2, <1>7, <1>8
-----------------------------------------------------------------------------
(* What steps of the thread preserve.                                       *)

LEMMA GCNumbers ==
    /\ Addrs \subseteq Nat /\ \A m \in Addrs \cup {-1} : m \in Int
    /\ \A a \in Addrs : CardOf(a) \in Card
    /\ Null \notin Addrs /\ Idx \notin Addrs /\ Idx # Null
    /\ Old \cap Young = {} /\ Old \cup Young = Addrs
    /\ Linking \subseteq Old
    /\ {CLASS_ERROR, CLASS_IDX, CLASS_LOADED, CLASS_RESOLVED} \subseteq ClassStatus
    /\ CLASS_ERROR \notin {CLASS_NOTREADY, CLASS_IDX, CLASS_LOADED, CLASS_RESOLVED}
    /\ CLASS_IDX # CLASS_RESOLVED /\ CLASS_LOADED # CLASS_RESOLVED /\ CLASS_IDX # CLASS_LOADED
    /\ CLASS_NOTREADY \notin {CLASS_IDX, CLASS_LOADED, CLASS_RESOLVED}
    /\ CLASS_RESOLVED > CLASS_IDX /\ CLASS_LOADED > CLASS_IDX /\ ~(CLASS_IDX > CLASS_IDX)
    /\ ~(CLASS_ERROR > CLASS_IDX)
<1>1. Addrs \subseteq Nat /\ \A m \in Addrs \cup {-1} : m \in Int  BY Addresses
<1>2. \A a \in Addrs : CardOf(a) \in Card  BY DEF CardOf, Card
<1>3. Null \notin Addrs /\ Idx \notin Addrs /\ Idx # Null  BY LayoutAssumption
<1>4. Young \subseteq Addrs /\ Linking \subseteq Addrs \ Young  BY GCAssumption
<1>5. Old \cap Young = {} /\ Old \cup Young = Addrs /\ Linking \subseteq Old
  BY <1>4 DEF Old
<1>6. /\ {CLASS_ERROR, CLASS_IDX, CLASS_LOADED, CLASS_RESOLVED} \subseteq ClassStatus
      /\ CLASS_ERROR \notin {CLASS_NOTREADY, CLASS_IDX, CLASS_LOADED, CLASS_RESOLVED}
      /\ CLASS_IDX # CLASS_RESOLVED /\ CLASS_LOADED # CLASS_RESOLVED /\ CLASS_IDX # CLASS_LOADED
      /\ CLASS_NOTREADY \notin {CLASS_IDX, CLASS_LOADED, CLASS_RESOLVED}
      /\ CLASS_RESOLVED > CLASS_IDX /\ CLASS_LOADED > CLASS_IDX /\ ~(CLASS_IDX > CLASS_IDX)
      /\ ~(CLASS_ERROR > CLASS_IDX)
  BY DEF ClassStatus, CLASS_ERROR, CLASS_NOTREADY, CLASS_IDX, CLASS_LOADED, CLASS_RESOLVED
<1> QED  BY <1>1, <1>2, <1>3, <1>5, <1>6

LEMMA ObjectsAre ==
    \A hb : /\ ObjectsIn(hb) \subseteq Addrs
            /\ \A o \in Addrs : o \in ObjectsIn(hb) <=> dvmHeapBitmapIsObjectBitSet(hb, o)
BY DEF ObjectsIn

LEMMA LocationFacts ==
    ASSUME NEW k \in Locations
    PROVE  k[1] \in Addrs /\ k \in LocationsIn[k[1]] /\ k = <<k[1], k[2], k[3]>>
<1>1. PICK a \in Addrs : k \in LocationsIn[a]  BY DEF Locations
<1>2. k[1] = a  BY <1>1, VisitsWithin
<1>3. k = <<a, k[2], k[3]>>  BY <1>1, LocationParts
<1> QED  BY <1>1, <1>2, <1>3

\* What an object holds first is the null reference, or old, or an index.
LEMMA FirstContents ==
    ASSUME NEW k \in Locations
    PROVE  /\ InitialMem(k) \in Old \cup {Null, Idx}
           /\ InitialMem(k) = Idx <=> k[2] \in {"super", "interface"} /\ k[1] \in Linking
           /\ k[2] = "super" /\ k[1] \notin Linking => InitialMem(k) = Layout[k[1]].super
<1>1. k[1] \in Addrs  BY LocationFacts
<1>2. /\ Layout[k[1]].clazz \in Old /\ Layout[k[1]].super \in Old \cup {Null}
      /\ Layout[k[1]].element \in Old \cup {Null}
  BY <1>1, LayoutFields
<1>3. Null \notin Addrs /\ Idx \notin Addrs /\ Idx # Null /\ Old \subseteq Addrs
  BY GCNumbers
<1>4. CASE k[2] = "clazz"  BY <1>2, <1>3, <1>4 DEF InitialMem
<1>5. CASE k[2] = "elementClass"  BY <1>2, <1>3, <1>5 DEF InitialMem
<1>6. CASE k[2] \in {"super", "interface"} /\ k[1] \in Linking
  BY <1>2, <1>3, <1>6 DEF InitialMem
<1>7. CASE k[2] = "super" /\ k[1] \notin Linking  BY <1>2, <1>3, <1>7 DEF InitialMem
<1>8. CASE k[2] \notin {"clazz", "elementClass", "super"}
           /\ ~(k[2] = "interface" /\ k[1] \in Linking)
  <2>1. InitialMem(k) = Null  BY <1>8 DEF InitialMem
  <2> QED  BY <1>3, <1>8, <2>1
<1> QED  BY <1>4, <1>5, <1>6, <1>7, <1>8

\* What the invariant says, in the terms of the operators that are defined here.
LEMMA Facts ==
    ASSUME GCInv
    PROVE  /\ mem \in [Locations -> Addrs \cup {Null, Idx}] /\ status \in [Addrs -> ClassStatus]
           /\ allocated \subseteq Addrs /\ Held \subseteq ObjectsIn(live)
           /\ Old \subseteq allocated /\ ObjectsIn(live) \subseteq allocated
           /\ Links(mem, status)
           /\ \A o \in allocated : o \in Addrs /\ HasSuper(mem, Layout[o].clazz)
           /\ phase # "sweep" => allocated = ObjectsIn(live)
BY DEF GCInv, TypesInv, GCTypeOK, LinkInv, LiveInv, Held

\* Steps that leave the heap and the collector alone.
LEMMA ThreadKeeps ==
    ASSUME GCInv,
           UNCHANGED <<mem, status, live, marks, scanned, phase, swept, allocated>>,
           cards \subseteq cards', cards' \subseteq Card,
           locals' \subseteq Young, tracked' \subseteq Young, barrier' \in Addrs \cup {Null},
           locals' \cup tracked' \subseteq ObjectsIn(live),
           barrier \in scanned => CardOf(barrier) \in cards' \/ barrier' = barrier
    PROVE  GCInv'
<1>1. \A o : Children(o)' = Children(o)  BY DEF Children, ValuesAt
<1> HIDE DEF Children
<1>2. TypesInv'  BY DEF GCInv, TypesInv, GCTypeOK
<1>3. LinkInv'  BY DEF GCInv, LinkInv, Links, HasSuper
<1>4. LiveInv'
  <2>1. Held' \subseteq ObjectsIn(live)'  BY DEF GCInv, LiveInv, Held
  <2>2. Garbage' = Garbage  BY DEF Garbage, IsMarked
  <2> QED  BY <1>1, <2>1, <2>2 DEF GCInv, LiveInv
<1>5. MarkInv'  BY <1>1 DEF GCInv, MarkInv
<1> QED  BY <1>2, <1>3, <1>4, <1>5 DEF GCInv

LEMMA ReleaseKeeps ==
    ASSUME GCInv, NEW o \in Young, dvmReleaseTrackedAlloc(o)
    PROVE  GCInv'
<1>1. cards \subseteq Card /\ locals \subseteq Young /\ tracked \subseteq Young
      /\ barrier \in Addrs \cup {Null}
  BY DEF GCInv, TypesInv, GCTypeOK
<1> QED  BY <1>1, Facts, ThreadKeeps DEF dvmReleaseTrackedAlloc, collectorVars, Held

LEMMA ForgetKeeps ==
    ASSUME GCInv, NEW o \in Young, ForgetReference(o)
    PROVE  GCInv'
<1>1. cards \subseteq Card /\ locals \subseteq Young /\ tracked \subseteq Young
      /\ barrier \in Addrs \cup {Null}
  BY DEF GCInv, TypesInv, GCTypeOK
<1> QED  BY <1>1, Facts, ThreadKeeps DEF ForgetReference, collectorVars, Held

LEMMA LoadKeeps ==
    ASSUME GCInv, NEW l \in MutableLocs, LoadReference(l)
    PROVE  GCInv'
<1>1. cards \subseteq Card /\ locals \subseteq Young /\ tracked \subseteq Young
      /\ barrier \in Addrs \cup {Null}
  BY DEF GCInv, TypesInv, GCTypeOK
<1>2. l[1] \in ObjectsIn(live) /\ l[1] \in allocated /\ mem[l] \in Young
  BY Facts DEF LoadReference
<1>3. l \in Visits(status, l[1])  BY StoredVisited
<1>4. mem[l] \in Children(l[1])
  <2>1. Children(l[1]) = {mem[k] : k \in Visits(status, l[1])} \cap Addrs
    BY <1>2, Facts, ChildrenAre
  <2> HIDE DEF Children
  <2> QED  BY <1>2, <1>3, <2>1, YoungIsFinite
<1>5. mem[l] \in ObjectsIn(live)
  <2> HIDE DEF Children
  <2> QED  BY <1>2, <1>4 DEF GCInv, LiveInv
<1> QED  BY <1>1, <1>2, <1>5, Facts, ThreadKeeps DEF LoadReference, collectorVars, Held

LEMMA MarkCardKeeps ==
    ASSUME GCInv, dvmMarkCard
    PROVE  GCInv'
<1>1. cards \subseteq Card /\ locals \subseteq Young /\ tracked \subseteq Young
      /\ barrier \in Addrs \cup {Null}
  BY DEF GCInv, TypesInv, GCTypeOK
<1>2. CardOf(barrier) \in Card  BY <1>1, GCNumbers DEF dvmMarkCard
<1> QED  BY <1>1, <1>2, Facts, ThreadKeeps DEF dvmMarkCard, collectorVars, Held

\* Steps of the thread by which objects refer to others, of those that are live.
LEMMA HeapKeeps ==
    ASSUME GCInv, TypesInv', LinkInv',
           UNCHANGED <<live, marks, scanned, phase, swept, cards, locals, tracked, allocated>>,
           NEW x, \A o \in allocated : o # x => Children(o)' \subseteq Children(o) \cup Old,
           x \in allocated => Children(x)' \subseteq Children(x) \cup ObjectsIn(live),
           barrier = Null,
           barrier' = x \/ (x \in allocated => Children(x)' \subseteq Children(x) \cup Old)
    PROVE  GCInv'
<1> USE Facts
<1> HIDE DEF Children
<1>1. Old \subseteq ObjectsIn(live)  BY DEF Held
<1>2. ASSUME NEW o \in ObjectsIn(live) PROVE Children(o)' \subseteq ObjectsIn(live)
  <2>1. o \in allocated /\ Children(o) \subseteq ObjectsIn(live)  BY DEF GCInv, LiveInv
  <2> QED  BY <1>1, <2>1
<1>3. Garbage' = Garbage  BY DEF Garbage, IsMarked
<1>4. LiveInv'  BY <1>2, <1>3 DEF GCInv, LiveInv, Held
<1>5. MarkInv'
  <2> SUFFICES ASSUME phase = "mark" PROVE MarkInv'  BY DEF MarkInv
  <2>1. /\ Old \subseteq ObjectsIn(marks) /\ ObjectsIn(marks) \subseteq allocated
        /\ scanned \subseteq ObjectsIn(marks)
        /\ \A o \in scanned : \/ Children(o) \subseteq ObjectsIn(marks)
                              \/ CardOf(o) \in cards \/ o = barrier
    BY DEF GCInv, MarkInv
  <2>2. ASSUME NEW o \in scanned
        PROVE  Children(o)' \subseteq ObjectsIn(marks) \/ CardOf(o) \in cards \/ o = barrier'
    <3>1. o \in allocated /\ o \in Addrs /\ Null \notin Addrs  BY <2>1, GCNumbers
    <3>2. Children(o) \subseteq ObjectsIn(marks) \/ CardOf(o) \in cards  BY <2>1, <3>1
    <3>3. CASE o # x  BY <2>1, <3>1, <3>2, <3>3
    <3>4. CASE o = x  BY <2>1, <3>1, <3>2, <3>4
    <3> QED  BY <3>3, <3>4
  <2> QED  BY <2>1, <2>2 DEF MarkInv
<1> QED  BY <1>4, <1>5 DEF GCInv
\* A reference stored is visited, and it is to an object the thread holds.
LEMMA SetKeeps ==
    ASSUME GCInv, NEW l \in MutableLocs, NEW val \in locals \cup tracked \cup {Null},
           SetReference(l, val)
    PROVE  GCInv'
<1> USE DEF SetReference, collectorVars
<1>1. /\ l[1] \in Addrs /\ l \in Locations /\ l[2] \in {"static", "field", "contents"}
      /\ mem' = [mem EXCEPT ![l] = val] /\ status' = status
  BY StoredVisited
<1>2. /\ locals \subseteq Young /\ tracked \subseteq Young /\ Young \subseteq Addrs
      /\ mem \in [Locations -> Addrs \cup {Null, Idx}]
      /\ val \in Young \cup {Null} /\ val \in ObjectsIn(live) \cup {Null}
  BY Facts, YoungIsFinite DEF GCInv, TypesInv, GCTypeOK, Held
<1>3. \A k \in Locations : k # l => mem'[k] = mem[k]  BY <1>1, <1>2
<1>4. mem'[l] = val /\ mem' \in [Locations -> Addrs \cup {Null, Idx}]  BY <1>1, <1>2
<1>5. TypesInv'
  <2>1. barrier' \in Addrs \cup {Null}  BY <1>1
  <2> QED  BY <1>1, <1>4, <2>1 DEF GCInv, TypesInv, GCTypeOK
<1>6. \A c \in Addrs : dvmIsClassObject(c) =>
         <<c, "super", 0>> \in Locations /\ <<c, "super", 0>> # l
  <2> TAKE c \in Addrs
  <2> HAVE dvmIsClassObject(c)
  <2>1. <<c, "super", 0>> \in LocationsIn[c]  BY LocationParts
  <2>2. <<c, "super", 0>>[2] = "super"  OBVIOUS
  <2> QED  BY <1>1, <2>1, <2>2, VisitsWithin
<1>7. Links(mem', status')
  BY <1>1, <1>3, <1>6, Facts DEF Links, HasSuper
<1>8. LinkInv'
  <2>1. \A k \in Locations :
          /\ mem'[k] = Idx => k[2] \in {"super", "interface"}
                            /\ status'[k[1]] \in {CLASS_IDX, CLASS_ERROR}
          /\ k[2] \in {"super", "interface"} /\ status'[k[1]] = CLASS_IDX => mem'[k] = Idx
    <3>1. mem'[l] # Idx  BY <1>2, <1>4, GCNumbers
    <3> QED  BY <1>1, <1>3, <3>1 DEF GCInv, LinkInv
  <2>2. ASSUME NEW o \in allocated PROVE HasSuper(mem', Layout[o].clazz)
    <3>1. o \in Addrs /\ HasSuper(mem, Layout[o].clazz)  BY Facts
    <3>2. Layout[o].clazz \in Addrs /\ dvmIsClassObject(Layout[o].clazz)  BY <3>1, LayoutFields
    <3> QED  BY <1>3, <1>6, <3>1, <3>2 DEF HasSuper
  <2> QED  BY <1>1, <1>7, <2>1, <2>2 DEF GCInv, LinkInv
<1>9. ASSUME NEW o \in allocated
      PROVE  Children(o)' \subseteq Children(o) \cup (IF o = l[1] THEN {val} \ {Null} ELSE {})
  <2>1. o \in Addrs /\ HasSuper(mem, Layout[o].clazz) /\ HasSuper(mem', Layout[o].clazz)
    BY <1>1, <1>8, Facts DEF LinkInv
  <2> DEFINE X == IF o = l[1] THEN {val} \ {Null} ELSE {}
  <2>2. ASSUME NEW k \in Visits(status', o)
        PROVE  \/ k \in Visits(status, o) /\ mem'[k] = mem[k]
               \/ mem'[k] \notin Addrs
               \/ mem'[k] \in X
    <3>1. k \in Locations /\ k[1] = o /\ k \in Visits(status, o)
      BY <1>1, <2>1, VisitsWithin
    <3>2. CASE k # l  BY <1>3, <3>1, <3>2
    <3>3. CASE k = l  BY <1>4, <3>1, <3>3, GCNumbers
    <3> QED  BY <3>2, <3>3
  <2> HIDE DEF X
  <2>3. Children(o)' \subseteq Children(o) \cup X
    <3>1. Links(mem, status) /\ Links(mem', status')  BY <1>7, Facts
    <3> QED  BY <2>1, <2>2, <3>1, ChildrenKept
  <2> QED  BY <2>3 DEF X
<1> HIDE DEF Children
<1>10. \A o \in allocated : o # l[1] => Children(o)' \subseteq Children(o) \cup Old
  BY <1>9
<1>11. l[1] \in allocated => Children(l[1])' \subseteq Children(l[1]) \cup ObjectsIn(live)
  BY <1>2, <1>9
<1>12. barrier' = l[1]
       \/ (l[1] \in allocated => Children(l[1])' \subseteq Children(l[1]) \cup Old)
  <2>1. CASE val = Null  BY <1>9, <2>1
  <2>2. CASE val # Null  BY <2>2
  <2> QED  BY <2>1, <2>2
<1>13. barrier = Null  BY DEF AtSafePoint
<1> QED  BY <1>5, <1>8, <1>10, <1>11, <1>12, <1>13, HeapKeeps

\* The linker: the references of the class become visible as the status shows them, and
\* are to old objects.
LEMMA LinkLoadedKeeps ==
    ASSUME GCInv, NEW c \in Linking, LinkLoaded(c)
    PROVE  GCInv'
<1> USE DEF LinkLoaded, collectorVars, threadVars
<1>1. /\ c \in Addrs /\ status[c] = CLASS_IDX /\ dvmIsClassObject(c)
      /\ status' = [status EXCEPT ![c] = CLASS_LOADED]
      /\ mem \in [Locations -> Addrs \cup {Null, Idx}] /\ status \in [Addrs -> ClassStatus]
  BY Facts, GCNumbers, HeapAssumption
<1>2. ASSUME NEW k \in Locations
      PROVE  mem'[k] = IF k[1] = c /\ k[2] \in {"super", "interface"} THEN Null ELSE mem[k]
  OBVIOUS
<1>3. mem' \in [Locations -> Addrs \cup {Null, Idx}] /\ status' \in [Addrs -> ClassStatus]
  <2>1. \A k \in Locations : mem[k] \in Addrs \cup {Null, Idx}  BY <1>1
  <2> QED  BY <1>1, <2>1, GCNumbers
<1>4. TypesInv'  BY <1>3 DEF GCInv, TypesInv, GCTypeOK
<1>5. status'[c] = CLASS_LOADED /\ \A b \in Addrs : b # c => status'[b] = status[b]
  BY <1>1
<1>6. Links(mem', status')
  <2>1. ASSUME NEW b \in Addrs
        PROVE  IF b \in Linking THEN status'[b] # CLASS_NOTREADY ELSE status'[b] = CLASS_RESOLVED
    BY <1>5, Facts, GCNumbers DEF Links
  <2>2. ASSUME NEW b \in Addrs, dvmIsClassObject(b), status'[b] = CLASS_RESOLVED
        PROVE  HasSuper(mem', b)
    <3>1. b # c /\ status[b] = CLASS_RESOLVED  BY <1>5, <2>2, GCNumbers
    <3>2. <<b, "super", 0>> \in Locations  BY <2>2, LocationParts, VisitsWithin
    <3>3. <<b, "super", 0>>[1] # c  BY <3>1
    <3>4. mem'[<<b, "super", 0>>] = mem[<<b, "super", 0>>]  BY <1>2, <3>2, <3>3
    <3> QED  BY <2>2, <3>1, <3>4, Facts DEF Links, HasSuper
  <2> QED  BY <2>1, <2>2 DEF Links
<1>7. \A o \in allocated : /\ o \in Addrs
                           /\ HasSuper(mem, Layout[o].clazz) /\ HasSuper(mem', Layout[o].clazz)
  <2> TAKE o \in allocated
  <2> DEFINE b == Layout[o].clazz
  <2>1. o \in Addrs /\ HasSuper(mem, b)  BY Facts
  <2>2. b \in Addrs /\ dvmIsClassObject(b) /\ Layout[b].super \in Old \cup {Null}
    <3>1. b \in Addrs /\ dvmIsClassObject(b)  BY <2>1, LayoutFields
    <3> HIDE DEF b
    <3> QED  BY <3>1, LayoutFields
  <2> HIDE DEF b
  <2>3. PICK k \in Locations : k = <<b, "super", 0>>  BY <2>2, LocationParts, VisitsWithin
  <2>4. k[1] = b /\ k[2] = "super"  BY <2>3
  <2>5. mem[k] # Idx  BY <2>1, <2>2, <2>3, GCNumbers DEF HasSuper
  <2>6. b # c  BY <1>1, <2>4, <2>5 DEF GCInv, LinkInv
  <2>7. mem'[k] = mem[k]  BY <1>2, <2>4, <2>6
  <2> QED  BY <2>1, <2>3, <2>7 DEF HasSuper, b
<1>8. LinkInv'
  <2>1. ASSUME NEW k \in Locations
        PROVE  /\ mem'[k] = Idx => k[2] \in {"super", "interface"}
                                 /\ status'[k[1]] \in {CLASS_IDX, CLASS_ERROR}
               /\ k[2] \in {"super", "interface"} /\ status'[k[1]] = CLASS_IDX => mem'[k] = Idx
    <3>1. k[1] \in Addrs  BY LocationFacts
    <3>2. /\ mem[k] = Idx => k[2] \in {"super", "interface"}
                            /\ status[k[1]] \in {CLASS_IDX, CLASS_ERROR}
          /\ k[2] \in {"super", "interface"} /\ status[k[1]] = CLASS_IDX => mem[k] = Idx
      BY DEF GCInv, LinkInv
    <3> QED  BY <1>2, <1>5, <3>1, <3>2, GCNumbers
  <2> QED  BY <1>6, <1>7, <2>1 DEF LinkInv
<1>9. ASSUME NEW o \in allocated PROVE Children(o)' \subseteq Children(o) \cup {}
  <2>1. o \in Addrs /\ HasSuper(mem, Layout[o].clazz) /\ HasSuper(mem', Layout[o].clazz)
    BY <1>7
  <2>2. ASSUME NEW k \in Visits(status', o)
        PROVE  \/ k \in Visits(status, o) /\ mem'[k] = mem[k]
               \/ mem'[k] \notin Addrs
               \/ mem'[k] \in {}
    <3>1. k \in Locations /\ k[1] = o /\ k \in LocationsIn[o]  BY <2>1, VisitsWithin
    <3>2. CASE o = c /\ k[2] \in {"super", "interface"}
      BY <1>2, <3>1, <3>2, GCNumbers
    <3>3. CASE ~(o = c /\ k[2] \in {"super", "interface"})
      <4>1. mem'[k] = mem[k]  BY <1>2, <3>1, <3>3
      <4>2. PICK p, n : k = <<o, p, n>>  BY <2>1, <3>1, LocationParts
      <4>3. o = c => p \notin {"super", "interface"}  BY <3>3, <4>2
      <4>4. o # c => status'[o] = status[o]  BY <1>5, <2>1
      <4>5. k \in visitObject(Linked, status, o)
        <5>1. k \in visitObject(Linked, status', o)  BY DEF Visits
        <5>2. CASE o # c
          BY <2>1, <4>2, <4>4, <5>1, <5>2 DEF visitObject, visitClassObject
        <5>3. CASE o = c
          BY <2>1, <4>2, <4>3, <5>1, <5>3, VisitedParts
        <5> QED  BY <5>2, <5>3
      <4> QED  BY <4>1, <4>5 DEF Visits
    <3> QED  BY <3>2, <3>3
  <2> QED
    BY <1>6, <2>1, <2>2, Facts, ChildrenKept
<1> HIDE DEF Children
<1>10. c \in allocated  BY Facts, GCNumbers
<1>11. barrier = Null  BY DEF AtSafePoint
<1> QED  BY <1>4, <1>8, <1>9, <1>10, <1>11, HeapKeeps

LEMMA LinkResolvedKeeps ==
    ASSUME GCInv, NEW c \in Linking, LinkResolved(c)
    PROVE  GCInv'
<1> USE DEF LinkResolved, collectorVars
<1> DEFINE sup == <<c, "super", 0>>
<1>1. /\ c \in Addrs /\ status[c] = CLASS_LOADED /\ dvmIsClassObject(c)
      /\ status' = [status EXCEPT ![c] = CLASS_RESOLVED]
      /\ mem' = [mem EXCEPT ![sup] = Layout[c].super]
      /\ mem \in [Locations -> Addrs \cup {Null, Idx}] /\ status \in [Addrs -> ClassStatus]
  BY Facts, GCNumbers, HeapAssumption
<1>2. sup \in Locations /\ sup[1] = c /\ sup[2] = "super" /\ sup \in LocationsIn[c]
  BY <1>1, LocationParts, VisitsWithin
<1> HIDE DEF sup
<1>3. Layout[c].super \in Old \cup {Null}  BY <1>1, LayoutFields
<1>4. \A k \in Locations : mem'[k] = IF k = sup THEN Layout[c].super ELSE mem[k]
  BY <1>1, <1>2
<1>5. mem' \in [Locations -> Addrs \cup {Null, Idx}] /\ status' \in [Addrs -> ClassStatus]
  <2>1. Layout[c].super \in Addrs \cup {Null, Idx}  BY <1>3, GCNumbers
  <2>2. mem' \in [Locations -> Addrs \cup {Null, Idx}]  BY <1>1, <2>1
  <2>3. status' \in [Addrs -> ClassStatus]  BY <1>1, GCNumbers
  <2> QED  BY <2>2, <2>3
<1>6. TypesInv'
  <2>1. barrier' \in Addrs \cup {Null}  BY <1>1
  <2> QED  BY <1>5, <2>1 DEF GCInv, TypesInv, GCTypeOK
<1>7. status'[c] = CLASS_RESOLVED /\ \A b \in Addrs : b # c => status'[b] = status[b]
  BY <1>1
<1>8. Links(mem', status')
  <2>1. ASSUME NEW b \in Addrs
        PROVE  IF b \in Linking THEN status'[b] # CLASS_NOTREADY ELSE status'[b] = CLASS_RESOLVED
    BY <1>7, Facts, GCNumbers DEF Links
  <2>2. ASSUME NEW b \in Addrs, dvmIsClassObject(b), status'[b] = CLASS_RESOLVED
        PROVE  HasSuper(mem', b)
    <3>1. CASE b = c  BY <1>4, <1>2, <3>1 DEF sup, HasSuper
    <3>2. CASE b # c
      <4>1. status[b] = CLASS_RESOLVED  BY <1>7, <2>2, <3>2
      <4>2. <<b, "super", 0>> \in Locations  BY <2>2, LocationParts, VisitsWithin
      <4>3. <<b, "super", 0>> # sup  BY <3>2 DEF sup
      <4> QED  BY <1>4, <2>2, <4>1, <4>2, <4>3, Facts DEF Links, HasSuper
    <3> QED  BY <3>1, <3>2
  <2> QED  BY <2>1, <2>2 DEF Links
<1>9. \A o \in allocated : /\ o \in Addrs
                           /\ HasSuper(mem, Layout[o].clazz) /\ HasSuper(mem', Layout[o].clazz)
  <2> TAKE o \in allocated
  <2> DEFINE b == Layout[o].clazz
  <2>1. o \in Addrs /\ HasSuper(mem, b)  BY Facts
  <2>2. b \in Addrs /\ dvmIsClassObject(b)  BY <2>1, LayoutFields
  <2> HIDE DEF b
  <2>3. <<b, "super", 0>> \in Locations  BY <2>2, LocationParts, VisitsWithin
  <2>4. CASE <<b, "super", 0>> = sup
    <3>1. b = c  BY <2>4 DEF sup
    <3> QED  BY <1>4, <2>1, <2>3, <2>4, <3>1 DEF HasSuper, b
  <2>5. CASE <<b, "super", 0>> # sup
    BY <1>4, <2>1, <2>3, <2>5 DEF HasSuper, b
  <2> QED  BY <2>4, <2>5
<1>10. LinkInv'
  <2>1. ASSUME NEW k \in Locations
        PROVE  /\ mem'[k] = Idx => k[2] \in {"super", "interface"}
                                 /\ status'[k[1]] \in {CLASS_IDX, CLASS_ERROR}
               /\ k[2] \in {"super", "interface"} /\ status'[k[1]] = CLASS_IDX => mem'[k] = Idx
    <3>1. k[1] \in Addrs  BY LocationFacts
    <3>2. /\ mem[k] = Idx => k[2] \in {"super", "interface"}
                            /\ status[k[1]] \in {CLASS_IDX, CLASS_ERROR}
          /\ k[2] \in {"super", "interface"} /\ status[k[1]] = CLASS_IDX => mem[k] = Idx
      BY DEF GCInv, LinkInv
    <3>3. k[1] = c => mem[k] # Idx  BY <1>1, <3>2, GCNumbers
    <3>4. k = sup => mem'[k] # Idx  BY <1>4, <1>3, GCNumbers
    <3> QED  BY <1>4, <1>7, <1>2, <3>1, <3>2, <3>3, <3>4, GCNumbers
  <2> QED  BY <1>8, <1>9, <2>1 DEF LinkInv
<1>11. ASSUME NEW o \in allocated PROVE Children(o)' \subseteq Children(o) \cup Old
  <2>1. o \in Addrs /\ HasSuper(mem, Layout[o].clazz) /\ HasSuper(mem', Layout[o].clazz)
    BY <1>9
  <2>2. ASSUME NEW k \in Visits(status', o)
        PROVE  \/ k \in Visits(status, o) /\ mem'[k] = mem[k]
               \/ mem'[k] \notin Addrs
               \/ mem'[k] \in Old
    <3>1. k \in Locations /\ k[1] = o /\ k \in LocationsIn[o]  BY <2>1, VisitsWithin
    <3>2. CASE k = sup
      BY <1>4, <1>3, <3>1, <3>2, GCNumbers
    <3>3. CASE k # sup
      <4>1. mem'[k] = mem[k]  BY <1>4, <3>1, <3>3
      <4>2. PICK p, n : k = <<o, p, n>>  BY <2>1, <3>1, LocationParts
      <4>4. status'[o] > CLASS_IDX <=> status[o] > CLASS_IDX  BY <1>1, <1>7, <2>1, GCNumbers
      <4>5. k \in visitObject(Linked, status, o)
        <5>1. k \in visitObject(Linked, status', o)  BY DEF Visits
        <5> QED  BY <4>4, <5>1 DEF visitObject, visitClassObject
      <4> QED  BY <4>1, <4>5 DEF Visits
    <3> QED  BY <3>2, <3>3
  <2> QED
    BY <1>8, <2>1, <2>2, Facts, ChildrenKept
<1> HIDE DEF Children
<1>12. Old \subseteq ObjectsIn(live)  BY Facts DEF Held
<1>13. barrier = Null /\ barrier' = c  BY DEF AtSafePoint
<1> QED  BY <1>6, <1>10, <1>11, <1>12, <1>13, HeapKeeps

\* A class that fails: its super may have been stored, and is visited no more.
LEMMA ClassFailsKeeps ==
    ASSUME GCInv, NEW c \in Linking, ClassFails(c)
    PROVE  GCInv'
<1> USE DEF ClassFails, collectorVars
<1> DEFINE sup == <<c, "super", 0>>
<1>1. /\ c \in Addrs /\ dvmIsClassObject(c)
      /\ status' = [status EXCEPT ![c] = CLASS_ERROR]
      /\ mem \in [Locations -> Addrs \cup {Null, Idx}] /\ status \in [Addrs -> ClassStatus]
  BY Facts, GCNumbers, HeapAssumption
<1>2. sup \in Locations /\ sup[1] = c /\ sup[2] = "super"
  BY <1>1, LocationParts, VisitsWithin
<1>3. Layout[c].super \in Old \cup {Null}  BY <1>1, LayoutFields
<1>4. mem' = mem \/ mem' = [mem EXCEPT ![sup] = Layout[c].super]  OBVIOUS
<1> HIDE DEF sup
<1>5. ASSUME NEW k \in Locations
      PROVE  mem'[k] = mem[k] \/ (k = sup /\ mem'[k] = Layout[c].super)
  BY <1>1, <1>2, <1>4
<1>6. mem' \in [Locations -> Addrs \cup {Null, Idx}] /\ status' \in [Addrs -> ClassStatus]
  <2>1. Layout[c].super \in Addrs \cup {Null, Idx}  BY <1>3, GCNumbers
  <2>2. mem' \in [Locations -> Addrs \cup {Null, Idx}]  BY <1>1, <1>4, <2>1
  <2>3. status' \in [Addrs -> ClassStatus]  BY <1>1, GCNumbers
  <2> QED  BY <2>2, <2>3
<1>7. TypesInv'
  <2>1. barrier' \in Addrs \cup {Null}  BY <1>1 DEF GCInv, TypesInv, GCTypeOK
  <2> QED  BY <1>6, <2>1 DEF GCInv, TypesInv, GCTypeOK
<1>8. status'[c] = CLASS_ERROR /\ \A b \in Addrs : b # c => status'[b] = status[b]
  BY <1>1
<1>9. ASSUME NEW b \in Addrs, dvmIsClassObject(b), HasSuper(mem, b)
      PROVE  HasSuper(mem', b)
  <2>1. <<b, "super", 0>> \in Locations  BY <1>9, LocationParts, VisitsWithin
  <2>2. <<b, "super", 0>> = sup => b = c  BY DEF sup
  <2> QED  BY <1>5, <1>9, <2>1, <2>2 DEF HasSuper
<1>10. Links(mem', status')
  <2>1. ASSUME NEW b \in Addrs
        PROVE  IF b \in Linking THEN status'[b] # CLASS_NOTREADY ELSE status'[b] = CLASS_RESOLVED
    BY <1>8, Facts, GCNumbers DEF Links
  <2>2. ASSUME NEW b \in Addrs, dvmIsClassObject(b), status'[b] = CLASS_RESOLVED
        PROVE  HasSuper(mem', b)
    <3>1. status[b] = CLASS_RESOLVED  BY <1>8, <2>2, GCNumbers
    <3> QED  BY <1>9, <2>2, <3>1, Facts DEF Links
  <2> QED  BY <2>1, <2>2 DEF Links
<1>11. \A o \in allocated : /\ o \in Addrs
                            /\ HasSuper(mem, Layout[o].clazz) /\ HasSuper(mem', Layout[o].clazz)
  BY <1>9, Facts, LayoutFields
<1>12. LinkInv'
  <2>1. ASSUME NEW k \in Locations
        PROVE  /\ mem'[k] = Idx => k[2] \in {"super", "interface"}
                                 /\ status'[k[1]] \in {CLASS_IDX, CLASS_ERROR}
               /\ k[2] \in {"super", "interface"} /\ status'[k[1]] = CLASS_IDX => mem'[k] = Idx
    <3>1. k[1] \in Addrs  BY LocationFacts
    <3>2. /\ mem[k] = Idx => k[2] \in {"super", "interface"}
                            /\ status[k[1]] \in {CLASS_IDX, CLASS_ERROR}
          /\ k[2] \in {"super", "interface"} /\ status[k[1]] = CLASS_IDX => mem[k] = Idx
      BY DEF GCInv, LinkInv
    <3>3. mem'[k] = mem[k] \/ mem'[k] # Idx  BY <1>3, <1>5, GCNumbers
    <3>4. mem'[k] = Idx => mem[k] = Idx  BY <3>3
    <3>5. CASE k[1] = c  BY <1>8, <3>2, <3>4, <3>5, GCNumbers
    <3>6. CASE k[1] # c
      <4>1. mem'[k] = mem[k] /\ status'[k[1]] = status[k[1]]
        BY <1>2, <1>5, <1>8, <3>1, <3>6
      <4> QED  BY <3>2, <4>1
    <3> QED  BY <3>5, <3>6
  <2> QED  BY <1>10, <1>11, <2>1 DEF LinkInv
<1>13. ASSUME NEW o \in allocated PROVE Children(o)' \subseteq Children(o) \cup {}
  <2>1. o \in Addrs /\ HasSuper(mem, Layout[o].clazz) /\ HasSuper(mem', Layout[o].clazz)
    BY <1>11
  <2>2. ASSUME NEW k \in Visits(status', o)
        PROVE  \/ k \in Visits(status, o) /\ mem'[k] = mem[k]
               \/ mem'[k] \notin Addrs
               \/ mem'[k] \in {}
    <3>1. k \in Locations /\ k[1] = o /\ k \in LocationsIn[o]  BY <2>1, VisitsWithin
    <3>2. PICK p, n : k = <<o, p, n>>  BY <2>1, <3>1, LocationParts
    <3>3. k \in visitObject(Linked, status', o)  BY DEF Visits
    <3>4. CASE o # c
      <4>1. status'[o] = status[o] /\ mem'[k] = mem[k]  BY <1>2, <1>5, <1>8, <2>1, <3>1, <3>4
      <4>2. k \in visitObject(Linked, status, o)
        BY <2>1, <3>2, <3>3, <4>1 DEF visitObject, visitClassObject
      <4> QED  BY <4>1, <4>2 DEF Visits
    <3>5. CASE o = c
      <4>1. ~(status'[o] > CLASS_IDX)  BY <1>8, <3>5, GCNumbers
      <4>2. p \notin {"super", "interface"} /\ k \in visitObject(Linked, status, o)
        <5>1. dvmIsClassObject(o) /\ <<o, p, n>> \in visitObject(Linked, status', o)
          BY <1>1, <3>2, <3>3, <3>5
        <5>2. p \notin {"super", "interface"}  BY <2>1, <4>1, <5>1, VisitedParts
        <5>3. <<o, p, n>> \in visitObject(Linked, status, o)
          BY <2>1, <5>1, <5>2, VisitedParts
        <5> QED  BY <3>2, <5>2, <5>3
      <4>3. k # sup  BY <1>2, <3>2, <4>2
      <4> QED  BY <1>5, <3>1, <4>2, <4>3 DEF Visits
    <3> QED  BY <3>4, <3>5
  <2> QED
    BY <1>10, <2>1, <2>2, Facts, ChildrenKept
<1> HIDE DEF Children
<1>14. c \in allocated  BY Facts, GCNumbers
<1>15. barrier = Null  BY DEF AtSafePoint
<1> QED  BY <1>7, <1>12, <1>13, <1>14, <1>15, HeapKeeps

\* A new object: it refers to old objects only, or to none, and may be stored into the
\* locations L.
LEMMA NewObjectKeeps ==
    ASSUME GCInv, NEW o \in Young, NewObject(o),
           NEW L \in SUBSET MutableLocs,
           \A l \in L : l[1] # o,
           mem' = [k \in Locations |->
                     IF k \in L THEN o ELSE IF k[1] = o THEN InitialMem(k) ELSE mem[k]],
           cards \subseteq cards', cards' \subseteq Card,
           locals' = locals, tracked' \in {tracked, tracked \cup {o}}, barrier' \in Addrs \cup {Null},
           L # {} => phase # "mark"
    PROVE  GCInv'
<1> USE DEF NewObject, collectorVars
<1>1. /\ o \in Addrs /\ o \notin allocated /\ status' = status /\ barrier = Null
      /\ mem \in [Locations -> Addrs \cup {Null, Idx}]
      /\ status[Layout[o].clazz] = CLASS_RESOLVED
      /\ o \notin Linking /\ o \notin ObjectsIn(live)
  BY Facts, YoungIsFinite, GCNumbers DEF AtSafePoint
<1>2. \A k \in L : k \in Locations /\ k[2] \in {"static", "field", "contents"}
  BY StoredVisited
<1>3. ASSUME NEW k \in Locations
      PROVE  mem'[k] = IF k \in L THEN o ELSE IF k[1] = o THEN InitialMem(k) ELSE mem[k]
  OBVIOUS
<1>4. mem' \in [Locations -> Addrs \cup {Null, Idx}]
  <2>1. \A k \in Locations : mem[k] \in Addrs \cup {Null, Idx}
                             /\ InitialMem(k) \in Addrs \cup {Null, Idx}
    BY <1>1, FirstContents, GCNumbers
  <2> QED  BY <1>1, <2>1
<1>5. Bounded(live)' /\ ObjectsIn(live)' = ObjectsIn(live) \cup {o}
  BY <1>1, BitSet DEF GCInv, TypesInv
<1>6. TypesInv'
  <2>1. GCTypeOK'  BY <1>1, <1>4, <1>5 DEF GCInv, TypesInv, GCTypeOK, Bounded
  <2> QED  BY <1>5, <2>1 DEF GCInv, TypesInv, Bounded
<1>7. Links(mem', status')
  <2>1. ASSUME NEW b \in Addrs, dvmIsClassObject(b), status[b] = CLASS_RESOLVED
        PROVE  HasSuper(mem', b)
    <3>1. <<b, "super", 0>> \in Locations /\ <<b, "super", 0>> \notin L
      BY <1>2, <2>1, LocationParts, VisitsWithin
    <3>2. CASE b = o
      <4>1. mem'[<<b, "super", 0>>] = InitialMem(<<b, "super", 0>>)  BY <1>3, <3>1, <3>2
      <4>2. PICK k \in Locations : k = <<b, "super", 0>>  BY <3>1
      <4>3. k[1] = b /\ k[2] = "super"  BY <4>2
      <4> QED  BY <1>1, <3>2, <4>1, <4>2, <4>3, FirstContents DEF HasSuper
    <3>3. CASE b # o
      <4>1. mem'[<<b, "super", 0>>] = mem[<<b, "super", 0>>]  BY <1>3, <3>1, <3>3
      <4> QED  BY <2>1, <4>1, Facts DEF Links, HasSuper
    <3> QED  BY <3>2, <3>3
  <2> QED  BY <1>1, <2>1, Facts DEF Links
<1>13. ASSUME NEW p \in allocated \cup {o}
       PROVE  /\ HasSuper(mem', Layout[p].clazz)
              /\ p \in allocated => HasSuper(mem, Layout[p].clazz)
  <2> DEFINE b == Layout[p].clazz
  <2>1. p \in Addrs  BY <1>1, Facts
  <2>2. b \in Addrs /\ dvmIsClassObject(b) /\ b \in Old  BY <2>1, LayoutFields
  <2>3. HasSuper(mem, b)
    <3>1. CASE p \in allocated  BY <3>1, Facts
    <3>2. CASE p = o  BY <1>1, <2>2, <3>2, Facts DEF Links
    <3> QED  BY <3>1, <3>2
  <2> HIDE DEF b
  <2>4. PICK k \in Locations : k = <<b, "super", 0>>  BY <2>2, LocationParts, VisitsWithin
  <2>5. k[1] = b /\ k[2] = "super" /\ b # o  BY <2>2, <2>4, GCNumbers
  <2>6. mem'[k] = mem[k]  BY <1>2, <1>3, <2>5
  <2> QED  BY <2>3, <2>4, <2>6 DEF HasSuper, b
<1>8. LinkInv'
  <2>1. ASSUME NEW k \in Locations
        PROVE  /\ mem'[k] = Idx => k[2] \in {"super", "interface"}
                                 /\ status[k[1]] \in {CLASS_IDX, CLASS_ERROR}
               /\ k[2] \in {"super", "interface"} /\ status[k[1]] = CLASS_IDX => mem'[k] = Idx
    <3>1. k[1] \in Addrs  BY LocationFacts
    <3>2. /\ mem[k] = Idx => k[2] \in {"super", "interface"}
                            /\ status[k[1]] \in {CLASS_IDX, CLASS_ERROR}
          /\ k[2] \in {"super", "interface"} /\ status[k[1]] = CLASS_IDX => mem[k] = Idx
      BY DEF GCInv, LinkInv
    <3>3. CASE k \in L  BY <1>1, <1>2, <1>3, <3>3, GCNumbers
    <3>4. CASE k \notin L /\ k[1] = o
      <4>1. mem'[k] # Idx  BY <1>1, <1>3, <3>4, FirstContents
      <4>2. status[k[1]] = CLASS_RESOLVED  BY <1>1, <3>1, <3>4, Facts DEF Links
      <4> QED  BY <4>1, <4>2, GCNumbers
    <3>5. CASE k \notin L /\ k[1] # o  BY <1>3, <3>2, <3>5
    <3> QED  BY <3>3, <3>4, <3>5
  <2>2. \A p \in allocated' : HasSuper(mem', Layout[p].clazz)  BY <1>13
  <2> QED  BY <1>1, <1>7, <2>1, <2>2 DEF LinkInv
<1>9. ASSUME NEW p \in allocated PROVE Children(p)' \subseteq Children(p) \cup (IF L = {} THEN {} ELSE {o})
  <2> DEFINE X == IF L = {} THEN {} ELSE {o}
  <2>1. /\ p \in Addrs /\ p # o
        /\ HasSuper(mem, Layout[p].clazz) /\ HasSuper(mem', Layout[p].clazz)
    BY <1>1, <1>13, Facts
  <2>2. ASSUME NEW k \in Visits(status', p)
        PROVE  \/ k \in Visits(status, p) /\ mem'[k] = mem[k]
               \/ mem'[k] \notin Addrs
               \/ mem'[k] \in X
    <3>1. k \in Locations /\ k[1] = p /\ k \in Visits(status, p)  BY <1>1, <2>1, VisitsWithin
    <3>2. CASE k \in L  BY <1>3, <3>1, <3>2
    <3>3. CASE k \notin L  BY <1>3, <2>1, <3>1, <3>3
    <3> QED  BY <3>2, <3>3
  <2> HIDE DEF X
  <2>3. Children(p)' \subseteq Children(p) \cup X
    BY <1>1, <1>7, <2>1, <2>2, Facts, ChildrenKept
  <2> QED  BY <2>3 DEF X
<1>10. Children(o)' \subseteq Old
  <2>1. visitObject(mem', status', o) = Visits(status', o)  BY <1>1, <1>7, <1>13, VisitsSteady
  <2>2. ASSUME NEW k \in Visits(status', o), mem'[k] \in Addrs PROVE mem'[k] \in Old
    <3>1. k \in Locations /\ k[1] = o  BY <1>1, VisitsWithin
    <3>2. mem'[k] = InitialMem(k)  BY <1>3, <3>1
    <3>3. InitialMem(k) \in Old \cup {Null, Idx}  BY <3>1, FirstContents
    <3> QED  BY <2>2, <3>2, <3>3, GCNumbers
  <2>3. Children(o)' = {mem'[k] : k \in Visits(status', o)} \cap Addrs
    BY <2>1 DEF Children, ValuesAt
  <2> HIDE DEF Children
  <2> QED  BY <2>2, <2>3
<1> HIDE DEF Children
<1>11. LiveInv'
  <2>1. Held' \subseteq ObjectsIn(live)'  BY <1>5, Facts DEF Held
  <2>2. ASSUME NEW p \in ObjectsIn(live)' PROVE Children(p)' \subseteq ObjectsIn(live)'
    <3>1. CASE p = o  BY <1>5, <1>10, <3>1, Facts DEF Held
    <3>2. CASE p # o
      <4>1. p \in ObjectsIn(live) /\ p \in allocated  BY <1>5, <3>2, Facts
      <4>2. Children(p) \subseteq ObjectsIn(live)  BY <4>1 DEF GCInv, LiveInv
      <4> QED  BY <1>5, <1>9, <4>1, <4>2
    <3> QED  BY <3>1, <3>2
  <2>3. CASE phase = "sweep"
    <3>1. allocated = ObjectsIn(live) \cup Garbage  BY <2>3 DEF GCInv, LiveInv
    <3>2. \A p \in Addrs : dvmHeapBitmapIsObjectBitSet(live', p) <=>
                             dvmHeapBitmapIsObjectBitSet(live, p) \/ p = o
      BY <1>1, <1>5, ObjectsAre
    <3>3. Garbage' = Garbage \ {o}  BY <3>2 DEF Garbage, IsMarked
    <3>4. o \notin Garbage  BY <1>1, <3>1
    <3> QED  BY <1>5, <2>1, <2>2, <2>3, <3>1, <3>3, <3>4 DEF LiveInv
  <2>4. CASE phase # "sweep"
    <3>1. allocated = ObjectsIn(live)  BY <2>4, Facts
    <3> QED  BY <1>5, <2>1, <2>2, <2>4, <3>1 DEF LiveInv
  <2> QED  BY <2>3, <2>4
<1>12. MarkInv'
  <2> SUFFICES ASSUME phase = "mark" PROVE MarkInv'  BY DEF MarkInv
  <2>1. L = {}  OBVIOUS
  <2>2. /\ Old \subseteq ObjectsIn(marks) /\ ObjectsIn(marks) \subseteq allocated
        /\ scanned \subseteq ObjectsIn(marks)
        /\ \A p \in scanned : \/ Children(p) \subseteq ObjectsIn(marks)
                              \/ CardOf(p) \in cards \/ p = barrier
    BY DEF GCInv, MarkInv
  <2>3. \A p \in scanned : Children(p)' \subseteq Children(p) /\ p # barrier
    <3>1. \A p \in scanned : p \in allocated /\ p \in Addrs  BY <2>2, Facts
    <3> QED  BY <1>1, <1>9, <2>1, <3>1, GCNumbers
  <2> QED  BY <2>2, <2>3 DEF MarkInv
<1> QED  BY <1>6, <1>8, <1>11, <1>12 DEF GCInv

LEMMA AllocKeeps ==
    ASSUME GCInv, NEW o \in Young, dvmAllocObject(o)
    PROVE  GCInv'
<1>1. mem' = [k \in Locations |->
                IF k \in {} THEN o ELSE IF k[1] = o THEN InitialMem(k) ELSE mem[k]]
  BY DEF dvmAllocObject
<1>2. o \in Addrs /\ cards \subseteq Card  BY YoungIsFinite DEF GCInv, TypesInv, GCTypeOK
<1>3. PICK L \in SUBSET MutableLocs : L = {}  OBVIOUS
<1> QED  BY <1>1, <1>2, <1>3, NewObjectKeeps DEF dvmAllocObject

LEMMA BoxKeeps ==
    ASSUME "mark" \notin BoxingPhases, GCInv, NEW l \in MutableLocs, NEW o \in Young, boxMethodArg(l, o)
    PROVE  GCInv'
<1>1. PICK L \in SUBSET MutableLocs : L = {l}  OBVIOUS
<1>2. mem' = [k \in Locations |->
                IF k \in L THEN o ELSE IF k[1] = o THEN InitialMem(k) ELSE mem[k]]
  BY <1>1 DEF boxMethodArg
<1>3. o \in Addrs /\ CardOf(o) \in Card /\ cards \subseteq Card /\ barrier \in Addrs \cup {Null}
  BY YoungIsFinite, GCNumbers DEF GCInv, TypesInv, GCTypeOK
<1>4. l[1] # o /\ NewObject(o) /\ phase # "mark"
  BY Facts DEF boxMethodArg, NewObject, Held
<1>5. cards' = cards \cup {CardOf(o)} /\ locals' = locals /\ tracked' = tracked /\ barrier' = barrier
  BY DEF boxMethodArg, threadVars
<1> QED  BY <1>1, <1>2, <1>3, <1>4, <1>5, NewObjectKeeps
-----------------------------------------------------------------------------
(* What steps of the collector preserve.                                    *)

LEMMA BeginMarkKeeps ==
    ASSUME GCInv, BeginMark
    PROVE  GCInv'
<1> USE DEF BeginMark, threadVars
<1>1. \A o : Children(o)' = Children(o)  BY DEF Children, ValuesAt
<1> HIDE DEF Children
<1>2. Held \subseteq ObjectsIn(live) /\ Held \subseteq Addrs /\ allocated = ObjectsIn(live)
  BY Facts, ObjectsAre
<1>3. Bounded(marks)' /\ ObjectsIn(marks)' = Held
  <2>1. Bounded(Marked(EmptyBitmap, Held))
        /\ ObjectsIn(Marked(EmptyBitmap, Held)) = ObjectsIn(EmptyBitmap) \cup Held
    BY <1>2, NoBits, MarkedObjects
  <2> QED  BY <2>1, NoBits
<1>4. TypesInv'
  <2>1. marks' \in HeapBitmap  BY <1>3 DEF Bounded
  <2> QED  BY <1>3, <2>1 DEF GCInv, TypesInv, GCTypeOK, Bounded
<1>5. LinkInv'  BY DEF GCInv, LinkInv, Links, HasSuper
<1>6. LiveInv'  BY <1>1, <1>2 DEF GCInv, LiveInv, Held
<1>7. MarkInv'  BY <1>2, <1>3 DEF MarkInv, Held
<1> QED  BY <1>4, <1>5, <1>6, <1>7 DEF GCInv

LEMMA ScanKeeps ==
    ASSUME GCInv, ScanObject
    PROVE  GCInv'
<1> USE DEF ScanObject, threadVars
<1>1. \A o : Children(o)' = Children(o)  BY DEF Children, ValuesAt
<1>2. PICK o \in Gray : /\ scanned' = scanned \cup {o}
                        /\ marks' = Marked(marks, Children(o))
  OBVIOUS
<1>3. Children(o) \in SUBSET Addrs  BY DEF Children, ValuesAt
<1> HIDE DEF Children
<1>4. /\ o \in Addrs /\ o \in ObjectsIn(marks) /\ o \in ObjectsIn(live)
      /\ Children(o) \subseteq ObjectsIn(live)
      /\ allocated = ObjectsIn(live) /\ allocated \subseteq Addrs
      /\ allocated' = allocated /\ phase' = phase /\ phase = "mark"
  <2>1. o \in allocated /\ IsMarked(o)  BY DEF Gray
  <2>2. allocated = ObjectsIn(live) /\ o \in Addrs  BY <2>1, Facts
  <2> QED  BY <2>1, <2>2, Facts, ObjectsAre DEF GCInv, LiveInv, IsMarked
<1>5. Bounded(marks)' /\ ObjectsIn(marks)' = ObjectsIn(marks) \cup Children(o)
  BY <1>2, <1>3, MarkedObjects DEF GCInv, TypesInv
<1>6. TypesInv'
  <2>1. marks' \in HeapBitmap  BY <1>5 DEF Bounded
  <2>2. GCTypeOK'  BY <1>2, <1>4, <2>1 DEF GCInv, TypesInv, GCTypeOK
  <2> QED  BY <1>5, <2>2 DEF GCInv, TypesInv, Bounded
<1>7. LinkInv'  BY DEF GCInv, LinkInv, Links, HasSuper
<1>8. LiveInv'  BY <1>1, <1>4 DEF GCInv, LiveInv, Held
<1>9. MarkInv'
  <2>1. /\ Old \subseteq ObjectsIn(marks) /\ ObjectsIn(marks) \subseteq allocated
        /\ scanned \subseteq ObjectsIn(marks)
        /\ \A p \in scanned : \/ Children(p) \subseteq ObjectsIn(marks)
                              \/ CardOf(p) \in cards \/ p = barrier
    BY <1>4 DEF GCInv, MarkInv
  <2>2. \A p \in scanned' : \/ Children(p)' \subseteq ObjectsIn(marks)'
                            \/ CardOf(p) \in cards \/ p = barrier
    BY <1>1, <1>2, <1>5, <2>1
  <2>3. cards' = cards /\ barrier' = barrier  OBVIOUS
  <2> QED  BY <1>2, <1>4, <1>5, <2>1, <2>2, <2>3 DEF MarkInv
<1> QED  BY <1>6, <1>7, <1>8, <1>9 DEF GCInv

\* With no object left to scan, what is marked and what the dirty cards and the roots lead
\* to is all that can be reached.
LEMMA FinishMarkKeeps ==
    ASSUME GCInv, FinishMark
    PROVE  GCInv'
<1> USE DEF FinishMark, threadVars
<1> DEFINE M == ObjectsIn(marks)
           roots == Held \ {o \in Addrs : IsMarked(o)}
           dirty == {o \in allocated : IsMarked(o) /\ CardOf(o) \in cards}
           white == (UNION {Children(o) : o \in dirty}) \ {o \in Addrs : IsMarked(o)}
           found == Reachable(roots \cup white)
<1>1. \A o : Children(o)' = Children(o)  BY DEF Children, ValuesAt
<1>2. live' = Marked(marks, found) /\ marks' = live /\ phase = "mark" /\ phase' = "sweep"
      /\ swept' = -1 /\ scanned' = {} /\ allocated' = allocated /\ barrier = Null
  BY DEF AtSafePoint
<1>3. M = {o \in Addrs : IsMarked(o)}  BY DEF ObjectsIn, IsMarked
<1>4. \A o : Children(o) \subseteq Addrs  BY DEF Children, ValuesAt
<1> HIDE DEF M, Children
<1>5. /\ Old \subseteq M /\ M \subseteq allocated /\ scanned \subseteq M
      /\ \A o \in scanned : \/ Children(o) \subseteq M
                            \/ CardOf(o) \in cards \/ o = barrier
  BY <1>2 DEF GCInv, MarkInv, M
<1>6. /\ allocated = ObjectsIn(live) /\ allocated \subseteq Addrs /\ Held \subseteq allocated
      /\ \A o \in allocated : Children(o) \subseteq allocated
  BY <1>2, Facts DEF GCInv, LiveInv
<1>7. \A o \in M : o \in scanned
  <2>1. \A o \in allocated : IsMarked(o) => o \in scanned  BY DEF Gray
  <2> QED  BY <1>3, <1>5, <2>1
<1>8. Young \cup Old = Addrs /\ Null \notin Addrs  BY GCNumbers
<1>9. roots \subseteq allocated /\ roots \subseteq Young /\ Held \subseteq roots \cup M
  BY <1>3, <1>5, <1>6, <1>8
<1>10. white \subseteq allocated /\ white \subseteq Young
      /\ \A o \in dirty : Children(o) \subseteq white \cup M
  <2>1. dirty \subseteq allocated  OBVIOUS
  <2>2. white = (UNION {Children(o) : o \in dirty}) \ M  BY <1>3
  <2> HIDE DEF dirty, white
  <2>3. white \subseteq allocated  BY <1>6, <2>1, <2>2
  <2>4. white \subseteq Young  BY <1>5, <1>6, <1>8, <2>2, <2>3
  <2> QED  BY <2>2, <2>3, <2>4
<1>11. \A o \in M : Children(o) \subseteq M \/ o \in dirty
  <2>1. \A o \in M : o \in allocated /\ IsMarked(o) /\ o # barrier
    BY <1>2, <1>3, <1>5, <1>8
  <2> QED  BY <1>5, <1>7, <2>1
<1> HIDE DEF roots, dirty, white
<1>12. /\ roots \cup white \subseteq found /\ found \subseteq Young
       /\ \A o \in found : Children(o) \subseteq found \cup Old
  <2>1. roots \cup white \in SUBSET Young  BY <1>9, <1>10
  <2> QED  BY <2>1, ReachableClosed
<1>13. found \subseteq allocated
  <2>1. allocated \in SUBSET Addrs /\ roots \cup white \in SUBSET allocated
    BY <1>6, <1>9, <1>10
  <2> QED  BY <1>6, <2>1, ReachableWithin
<1> HIDE DEF found
<1>14. Bounded(live)' /\ ObjectsIn(live)' = M \cup found
  <2>1. found \in SUBSET Addrs  BY <1>6, <1>13
  <2> QED  BY <1>2, <2>1, MarkedObjects DEF GCInv, TypesInv, M
<1>15. TypesInv'
  <2>1. live' \in HeapBitmap /\ -1 \in Addrs \cup {-1}  BY <1>14 DEF Bounded
  <2>2. GCTypeOK'  BY <1>2, <2>1 DEF GCInv, TypesInv, GCTypeOK
  <2> QED  BY <1>2, <1>14, <2>2 DEF GCInv, TypesInv, Bounded
<1>16. LinkInv'  BY DEF GCInv, LinkInv, Links, HasSuper
<1>17. Held' \subseteq ObjectsIn(live)'
  BY <1>9, <1>12, <1>14 DEF Held
<1>18. \A o \in ObjectsIn(live)' : Children(o)' \subseteq ObjectsIn(live)'
  <2> SUFFICES ASSUME NEW o \in M \cup found PROVE Children(o) \subseteq M \cup found
    BY <1>1, <1>14
  <2>1. CASE o \in M
    BY <1>10, <1>11, <1>12, <2>1
  <2>2. CASE o \in found
    BY <1>5, <1>12, <2>2
  <2> QED  BY <2>1, <2>2
<1>19. allocated = ObjectsIn(live)' \cup Garbage'
  <2>1. \A o \in Addrs : o > -1  BY GCNumbers
  <2>2. Garbage' = {o \in Addrs : o > -1 /\ dvmHeapBitmapIsObjectBitSet(live, o)
                                   /\ ~dvmHeapBitmapIsObjectBitSet(live', o)}
    BY <1>2 DEF Garbage, IsMarked
  <2>3. \A o \in Addrs : o \in Garbage' <=> o \in ObjectsIn(live) /\ o \notin ObjectsIn(live)'
    BY <2>1, <2>2, ObjectsAre
  <2>4. Garbage' \subseteq Addrs  BY <2>2
  <2>5. ObjectsIn(live)' \subseteq ObjectsIn(live)  BY <1>5, <1>6, <1>13, <1>14
  <2> QED  BY <1>6, <2>3, <2>4, <2>5
<1>20. LiveInv'  BY <1>2, <1>17, <1>18, <1>19 DEF LiveInv
<1>21. MarkInv'  BY <1>2 DEF MarkInv
<1> QED  BY <1>15, <1>16, <1>20, <1>21 DEF GCInv

LEMMA SweepKeeps ==
    ASSUME GCInv, SweepObject
    PROVE  GCInv'
<1> USE DEF SweepObject, threadVars
<1>1. \A o : Children(o)' = Children(o)  BY DEF Children, ValuesAt
<1> HIDE DEF Children
<1>2. PICK o \in Garbage : /\ \A p \in Garbage : o <= p
                           /\ allocated' = allocated \ {o} /\ swept' = o
  OBVIOUS
<1>3. o \in Addrs /\ o > swept /\ o \notin ObjectsIn(live)
      /\ allocated = ObjectsIn(live) \cup Garbage /\ phase' = phase /\ phase = "sweep"
  BY ObjectsAre DEF Garbage, GCInv, LiveInv
<1>4. swept \in Int /\ \A p \in Addrs : p \in Int
  BY GCNumbers DEF GCInv, TypesInv, GCTypeOK
<1>5. Garbage' = Garbage \ {o}
  <2>1. \A p \in Addrs : p \in Garbage <=>
            p > swept /\ IsMarked(p) /\ ~dvmHeapBitmapIsObjectBitSet(live, p)
    BY DEF Garbage
  <2>2. Garbage' \subseteq Addrs /\ Garbage \subseteq Addrs /\ \A p \in Addrs : p \in Garbage' <=>
            p > o /\ IsMarked(p) /\ ~dvmHeapBitmapIsObjectBitSet(live, p)
    BY <1>2 DEF Garbage, IsMarked
  <2>3. ASSUME NEW p \in Addrs PROVE p \in Garbage' <=> p \in Garbage /\ p # o
    <3>1. CASE p \in Garbage
      <4>1. o <= p  BY <1>2, <3>1
      <4>2. p > o <=> p # o  BY <1>3, <1>4, <4>1
      <4> QED  BY <2>1, <2>2, <3>1, <4>2
    <3>2. CASE p \notin Garbage
      <4>1. p > o => p > swept  BY <1>3, <1>4
      <4> QED  BY <2>1, <2>2, <3>2, <4>1
    <3> QED  BY <3>1, <3>2
  <2> QED  BY <2>2, <2>3
<1>6. TypesInv'  BY <1>2, <1>3 DEF GCInv, TypesInv, GCTypeOK, Bounded
<1>7. LinkInv'  BY <1>2 DEF GCInv, LinkInv, Links, HasSuper
<1>8. LiveInv'
  <2>1. allocated' = ObjectsIn(live) \cup Garbage'  BY <1>2, <1>3, <1>5
  <2> QED  BY <1>1, <1>3, <2>1 DEF GCInv, LiveInv, Held
<1>9. MarkInv'  BY <1>3 DEF MarkInv
<1> QED  BY <1>6, <1>7, <1>8, <1>9 DEF GCInv

LEMMA FinishSweepKeeps ==
    ASSUME GCInv, FinishSweep
    PROVE  GCInv'
<1> USE DEF FinishSweep, threadVars
<1>1. \A o : Children(o)' = Children(o)  BY DEF Children, ValuesAt
<1> HIDE DEF Children
<1>2. Bounded(marks)'  BY NoBits
<1>3. TypesInv'
  <2>1. marks' \in HeapBitmap /\ -1 \in Addrs \cup {-1}  BY <1>2 DEF Bounded
  <2> QED  BY <1>2, <2>1 DEF GCInv, TypesInv, GCTypeOK, Bounded
<1>4. LinkInv'  BY DEF GCInv, LinkInv, Links, HasSuper
<1>5. LiveInv'  BY <1>1 DEF GCInv, LiveInv, Held
<1>6. MarkInv'  BY DEF MarkInv
<1> QED  BY <1>3, <1>4, <1>5, <1>6 DEF GCInv

-----------------------------------------------------------------------------
(* The theorems.                                                            *)

\* In the beginning there are the old objects, which refer to old ones.
LEMMA GCInitInv == GCInit => GCInv
<1> SUFFICES ASSUME GCInit PROVE GCInv  OBVIOUS
<1> USE DEF GCInit
<1>1. \A k \in Locations : mem[k] = InitialMem(k)  OBVIOUS
<1>2. mem \in [Locations -> Addrs \cup {Null, Idx}]
  <2>1. \A k \in Locations : InitialMem(k) \in Addrs \cup {Null, Idx}  BY FirstContents, GCNumbers
  <2> QED  BY <2>1
<1>3. status \in [Addrs -> ClassStatus]  BY GCNumbers
<1>4. Bounded(live) /\ ObjectsIn(live) = Old /\ Bounded(marks)
  <2>1. Old \in SUBSET Addrs  BY GCNumbers
  <2> QED  BY <2>1, NoBits, MarkedObjects
<1>5. TypesInv
  <2>1. live \in HeapBitmap /\ marks \in HeapBitmap  BY <1>4 DEF Bounded
  <2> QED  BY <1>2, <1>3, <1>4, <2>1, GCNumbers DEF TypesInv, GCTypeOK
<1>6. Links(mem, status)
  <2>1. ASSUME NEW b \in Addrs, dvmIsClassObject(b), status[b] = CLASS_RESOLVED
        PROVE  HasSuper(mem, b)
    <3>1. PICK k \in Locations : k = <<b, "super", 0>>
      BY <2>1, LocationParts, VisitsWithin
    <3>2. k[1] = b /\ k[2] = "super"  BY <3>1
    <3>3. b \notin Linking  BY <2>1, GCNumbers
    <3> QED  BY <1>1, <3>1, <3>2, <3>3, FirstContents DEF HasSuper
  <2> QED  BY <2>1, GCNumbers DEF Links
<1>7. LinkInv
  <2>1. ASSUME NEW k \in Locations
        PROVE  /\ mem[k] = Idx => k[2] \in {"super", "interface"}
                                 /\ status[k[1]] \in {CLASS_IDX, CLASS_ERROR}
               /\ k[2] \in {"super", "interface"} /\ status[k[1]] = CLASS_IDX => mem[k] = Idx
    <3>1. k[1] \in Addrs  BY LocationFacts
    <3>2. status[k[1]] = CLASS_IDX <=> k[1] \in Linking  BY <3>1, GCNumbers
    <3> QED  BY <1>1, <3>2, FirstContents, GCNumbers
  <2>2. ASSUME NEW o \in allocated PROVE HasSuper(mem, Layout[o].clazz)
    <3>1. o \in Addrs /\ o \notin Young  BY GCNumbers
    <3>2. Layout[o].clazz \in Addrs /\ Layout[o].clazz \notin Linking
          /\ dvmIsClassObject(Layout[o].clazz)
      BY <3>1, LayoutFields, HeapAssumption
    <3> QED  BY <1>6, <3>2 DEF Links
  <2> QED  BY <1>6, <2>1, <2>2 DEF LinkInv
<1>8. LiveInv
  <2>1. ASSUME NEW o \in Old PROVE Children(o) \subseteq Old
    <3>1. o \in Addrs /\ o \in allocated  BY GCNumbers
    <3>2. visitObject(mem, status, o) = Visits(status, o)
      BY <1>6, <1>7, <3>1, VisitsSteady DEF LinkInv
    <3>3. ASSUME NEW k \in Visits(status, o), mem[k] \in Addrs PROVE mem[k] \in Old
      <4>1. k \in Locations  BY <3>1, VisitsWithin
      <4>2. InitialMem(k) \in Old \cup {Null, Idx}  BY <4>1, FirstContents
      <4> QED  BY <1>1, <3>3, <4>1, <4>2, GCNumbers
    <3> QED  BY <3>2, <3>3 DEF Children, ValuesAt
  <2> HIDE DEF Children
  <2>2. Held = Old /\ allocated = Old /\ phase = "idle"  BY DEF Held
  <2> QED  BY <1>4, <2>1, <2>2 DEF LiveInv
<1>9. MarkInv  BY DEF MarkInv
<1> QED  BY <1>5, <1>7, <1>8, <1>9 DEF GCInv

LEMMA GCStepInv ==
    ASSUME "mark" \notin BoxingPhases, GCInv, [GCNext]_gcVars
    PROVE  GCInv'
<1>1. ASSUME NEW o \in Young, dvmAllocObject(o) PROVE GCInv'  BY <1>1, AllocKeeps
<1>2. ASSUME NEW o \in Young, dvmReleaseTrackedAlloc(o) PROVE GCInv'  BY <1>2, ReleaseKeeps
<1>3. ASSUME NEW o \in Young, ForgetReference(o) PROVE GCInv'  BY <1>3, ForgetKeeps
<1>4. ASSUME NEW l \in MutableLocs, LoadReference(l) PROVE GCInv'  BY <1>4, LoadKeeps
<1>5. ASSUME NEW l \in MutableLocs, NEW val \in locals \cup tracked \cup {Null},
             \/ dvmSetObjectArrayElement(l, val)
             \/ dvmSetFieldObject(l, val)
             \/ dvmSetStaticFieldObject(l, val)
      PROVE  GCInv'
  <2>1. SetReference(l, val)
    BY <1>5 DEF dvmSetObjectArrayElement, dvmSetFieldObject, dvmSetStaticFieldObject
  <2> QED  BY <2>1, SetKeeps
<1>6. CASE dvmMarkCard  BY <1>6, MarkCardKeeps
<1>7. ASSUME NEW l \in MutableLocs, NEW o \in Young, boxMethodArg(l, o) PROVE GCInv'
  BY <1>7, BoxKeeps
<1>8. ASSUME NEW c \in Linking, LinkLoaded(c) PROVE GCInv'  BY <1>8, LinkLoadedKeeps
<1>9. ASSUME NEW c \in Linking, LinkResolved(c) PROVE GCInv'  BY <1>9, LinkResolvedKeeps
<1>16. ASSUME NEW c \in Linking, ClassFails(c) PROVE GCInv'  BY <1>16, ClassFailsKeeps
<1>10. CASE BeginMark  BY <1>10, BeginMarkKeeps
<1>11. CASE ScanObject  BY <1>11, ScanKeeps
<1>12. CASE FinishMark  BY <1>12, FinishMarkKeeps
<1>13. CASE SweepObject  BY <1>13, SweepKeeps
<1>14. CASE FinishSweep  BY <1>14, FinishSweepKeeps
<1>15. CASE UNCHANGED gcVars
  <2>1. \A o : Children(o)' = Children(o)  BY <1>15 DEF gcVars, Children, ValuesAt
  <2> HIDE DEF Children
  <2>2. TypesInv' /\ LinkInv' /\ MarkInv'
    BY <1>15, <2>1 DEF gcVars, GCInv, TypesInv, GCTypeOK, LinkInv, Links, HasSuper, MarkInv
  <2>3. Garbage' = Garbage  BY <1>15 DEF gcVars, Garbage, IsMarked
  <2>4. LiveInv'  BY <1>15, <2>1, <2>3 DEF gcVars, GCInv, LiveInv, Held
  <2> QED  BY <2>2, <2>4 DEF GCInv
<1> QED
  BY <1>1, <1>2, <1>3, <1>4, <1>5, <1>6, <1>7, <1>8, <1>9, <1>10, <1>11, <1>12, <1>13,
     <1>14, <1>15, <1>16 DEF GCNext

LEMMA GCInvariance == ASSUME "mark" \notin BoxingPhases PROVE GCSpec => []GCInv
<1>1. GCInv /\ [GCNext]_gcVars => GCInv'  BY GCStepInv
<1> QED  BY <1>1, GCInitInv, PTL DEF GCSpec

\* Unless boxMethodArgs runs while the collector marks, the contents of the heap, the
\* bitmaps and the card table are what their types say (GCTypeOK).
THEOREM GCTypeCorrect == ASSUME "mark" \notin BoxingPhases PROVE GCSpec => []GCTypeOK
<1>1. GCInv => GCTypeOK  BY DEF GCInv, TypesInv
<1> QED  BY <1>1, GCInvariance, PTL

\* visitObject (alloc/VisitInlines.h) passes to the visitor each reference that an object
\* holds and nothing that is none, whatever the layout of the classes, however far they are
\* linked, and whether refOffsets can encode the fields or not; of a class that has failed
\* it leaves out the super and the interfaces, and nothing else (VisitsTheReferences).
THEOREM VisitsRight == ASSUME "mark" \notin BoxingPhases PROVE GCSpec => []VisitsTheReferences
<1>1. GCInv => VisitsTheReferences  BY VisitIsRight DEF GCInv, VisitsTheReferences
<1> QED  BY <1>1, GCInvariance, PTL

\* Beside threads that store by oo/ObjectInlines.h, with its write barriers, the collector
\* frees nothing they can reach, leaves no object scanned with a reference to an unmarked
\* one on a clean card, and the bits of the live bitmap are those of the objects
\* (CollectionSound); boxMethodArgs must not run while it marks.
THEOREM CollectionIsSound == ASSUME "mark" \notin BoxingPhases PROVE GCSpec => []CollectionSound
<1>1. ASSUME GCInv PROVE CollectionSound
  <2> USE <1>1
  <2>1. LiveBitsAreTheObjects  BY Facts, ObjectsAre DEF LiveBitsAreTheObjects
  <2>2. ReachableNotFreed
    <3>1. ObjectsIn(live) \in SUBSET Addrs /\ Held \in SUBSET ObjectsIn(live)
          /\ \A o \in ObjectsIn(live) : Children(o) \subseteq ObjectsIn(live)
      BY Facts, ObjectsAre DEF GCInv, LiveInv
    <3>2. Reachable(Held) \subseteq ObjectsIn(live)  BY <3>1, ReachableWithin
    <3> QED  BY <3>2, Facts DEF ReachableNotFreed
  <2>3. GrayOnDirtyCard
    <3> SUFFICES ASSUME phase = "mark", AtSafePoint, NEW o \in scanned
                 PROVE  (\A p \in Children(o) : IsMarked(p)) \/ CardOf(o) \in cards
      BY DEF GrayOnDirtyCard
    <3>1. o \in Addrs /\ o # barrier  BY GCNumbers DEF AtSafePoint, GCInv, TypesInv, GCTypeOK
    <3>2. Children(o) \subseteq ObjectsIn(marks) \/ CardOf(o) \in cards
      BY <3>1 DEF GCInv, MarkInv
    <3> HIDE DEF Children
    <3> QED  BY <3>2, ObjectsAre DEF IsMarked
  <2> QED  BY <2>1, <2>2, <2>3 DEF CollectionSound
<1>2. GCInv => CollectionSound  BY <1>1
<1> QED  BY <1>2, GCInvariance, PTL
=============================================================================
