------------------------------ MODULE FecProofs ------------------------------
(***************************************************************************)
(* That any k of the n fragments of a block give it back, for every field, *)
(* k and n. The powers of the primitive element make GF a field. fec_new   *)
(* evaluates polynomials at different elements, so any k rows of its       *)
(* encoder are independent. apply_fec picks k such rows, and _invert_mat,  *)
(* which keeps the equations and exchanges unknowns, finds a pivot every   *)
(* time and ends with the inverse.                                         *)
(***************************************************************************)
EXTENDS Fec, Induction, FiniteSetTheorems, TLAPS

-----------------------------------------------------------------------------
\* Functions defined by recursion, and the masks.

\* f is defined by recursion over 0..n, up from 0.
Recurs(T, n, base, G, f) ==
  /\ f \in [0..n -> T] /\ f[0] = base
  /\ \A i \in 1..n : f[i] = G[i][f[i - 1]]

\* Down from n.
RecursDown(T, n, base, G, f) ==
  /\ f \in [0..n -> T] /\ f[n] = base
  /\ \A i \in 0..(n - 1) : f[i] = G[i][f[i + 1]]

\* A function defined by recursion over 0..n exists, and is of its type.
LEMMA Recursion ==
  ASSUME NEW T, NEW n \in Nat, NEW base \in T, NEW Step \in [Nat -> [T -> T]]
  PROVE  \E f : Recurs(T, n, base, Step, f)
<1> DEFINE Upto(j) == \E f \in [0..j -> T] :
             f[0] = base /\ \A i \in 1..j : f[i] = Step[i][f[i - 1]]
           S == {j \in Nat : Upto(j)}
<1>1. 0 \in S
  <2> DEFINE f == [i \in 0..0 |-> base]
  <2>1. f \in [0..0 -> T] /\ f[0] = base /\ 1..0 = {}
    OBVIOUS
  <2> QED  BY <2>1
<1>2. ASSUME NEW j \in Nat, j \in S PROVE j + 1 \in S
  <2>1. PICK f \in [0..j -> T] :
          f[0] = base /\ \A i \in 1..j : f[i] = Step[i][f[i - 1]]
    BY <1>2
  <2> DEFINE g == [i \in 0..(j + 1) |->
                     IF i <= j THEN f[i] ELSE Step[j + 1][f[j]]]
  <2>2. f[j] \in T /\ Step[j + 1] \in [T -> T]
    BY <2>1
  <2>3. g \in [0..(j + 1) -> T]
    BY <2>1, <2>2
  <2>4. g[0] = base
    BY <2>1
  <2>5. ASSUME NEW i \in 1..(j + 1) PROVE g[i] = Step[i][g[i - 1]]
    <3>1. g[i - 1] = f[i - 1]
      OBVIOUS
    <3>2. CASE i <= j
      BY <2>1, <3>1, <3>2
    <3>3. CASE i = j + 1
      BY <3>1, <3>3
    <3> QED  BY <3>2, <3>3
  <2>6. Upto(j + 1)
    BY <2>3, <2>4, <2>5
  <2> QED  BY <2>6
<1> HIDE DEF S
<1>3. n \in S
  BY <1>1, <1>2, Induction
<1> QED  BY <1>3 DEF S, Recurs

\* The same for a recursion that goes down from n.
LEMMA RecursionDown ==
  ASSUME NEW T, NEW n \in Nat, NEW base \in T, NEW Step \in [Nat -> [T -> T]]
  PROVE  \E f : RecursDown(T, n, base, Step, f)
<1> DEFINE Up == [i \in Nat |-> IF i <= n THEN Step[n - i] ELSE Step[0]]
<1>1. Up \in [Nat -> [T -> T]]
  OBVIOUS
<1> HIDE DEF Up
<1>2. PICK g : Recurs(T, n, base, Up, g)
  BY <1>1, Recursion
<1> DEFINE f == [i \in 0..n |-> g[n - i]]
<1>3. f \in [0..n -> T] /\ f[n] = base
  BY <1>2 DEF Recurs
<1>4. ASSUME NEW i \in 0..(n - 1) PROVE f[i] = Step[i][f[i + 1]]
  <2>1. n - i \in 1..n /\ n - (n - i) = i /\ n - i - 1 = n - (i + 1)
    OBVIOUS
  <2>2. f[i] = Up[n - i][g[n - (i + 1)]]
    BY <1>2, <2>1 DEF Recurs
  <2>3. Up[n - i] = Step[i]
    BY <2>1 DEF Up
  <2> QED  BY <2>2, <2>3
<1> QED  BY <1>3, <1>4 DEF RecursDown

-----------------------------------------------------------------------------
\* The masks double.
LEMMA MaskDef ==
  /\ Mask \in [0..GfBits -> Nat]
  /\ Mask[0] = 1 /\ \A i \in 1..GfBits : Mask[i] = 2 * Mask[i - 1]
<1> DEFINE Step == [i \in Nat |-> [x \in Nat |-> 2 * x]]
           M(f) == [i \in 0..GfBits |-> IF i = 0 THEN 1 ELSE 2 * f[i - 1]]
<1>1. GfBits \in Nat
  BY FecAssumption
<1>2. Step \in [Nat -> [Nat -> Nat]]
  OBVIOUS
<1>3. PICK f : Recurs(Nat, GfBits, 1, Step, f)
  <2> HIDE DEF Step
  <2> QED  BY <1>1, <1>2, Recursion
<1>4. f \in [0..GfBits -> Nat] /\ f[0] = 1
  BY <1>3 DEF Recurs
<1>41. ASSUME NEW i \in 1..GfBits PROVE f[i] = 2 * f[i - 1]
  <2>1. i - 1 \in 0..GfBits /\ i \in Nat
    BY <1>1
  <2>2. f[i - 1] \in Nat
    BY <1>4, <2>1
  <2> QED  BY <1>3, <2>1, <2>2 DEF Recurs
<1>5. f = M(f)
  BY <1>1, <1>4, <1>41
<1>6. Mask = M(Mask)
  BY <1>5 DEF Mask
<1>7. Mask[0] = 1 /\ \A i \in 1..GfBits : Mask[i] = 2 * Mask[i - 1]
  BY <1>1, <1>6
<1>8. ASSUME NEW j \in Nat PROVE j <= GfBits => Mask[j] \in Nat
  <2> DEFINE S == {i \in Nat : i <= GfBits => Mask[i] \in Nat}
  <2>1. 0 \in S
    BY <1>7
  <2>2. ASSUME NEW i \in Nat, i \in S PROVE i + 1 \in S
    BY <1>1, <1>7, <2>2
  <2> HIDE DEF S
  <2>3. j \in S
    BY <2>1, <2>2, Induction
  <2> QED  BY <2>3 DEF S
<1>9. Mask \in [0..GfBits -> Nat]
  BY <1>1, <1>6, <1>8
<1> QED  BY <1>7, <1>9

\* They are powers of two from one on, the last one above all elements.
LEMMA MaskGrows ==
  /\ \A i \in 0..GfBits : Mask[i] >= 1 /\ Mask[i] <= Mask[GfBits]
  /\ \A i, j \in 0..GfBits : i < j => Mask[i] < Mask[j]
  /\ Q \in Nat /\ Q >= 1 /\ Mask[GfBits] = Q + 1
<1>1. GfBits \in Nat /\ GfBits >= 1
  BY FecAssumption
<1> DEFINE S == {j \in Nat : j <= GfBits =>
                   Mask[j] >= 1 /\ \A i \in 0..(j - 1) : Mask[i] < Mask[j]}
<1>2. 0 \in S
  BY MaskDef
<1>3. ASSUME NEW j \in Nat, j \in S PROVE j + 1 \in S
  <2>1. SUFFICES ASSUME j + 1 <= GfBits
                 PROVE  /\ Mask[j + 1] >= 1
                        /\ \A i \in 0..j : Mask[i] < Mask[j + 1]
    OBVIOUS
  <2>2. Mask[j + 1] = 2 * Mask[j] /\ Mask[j] \in Nat /\ Mask[j] >= 1
    BY <1>1, <1>3, <2>1, MaskDef
  <2>3. ASSUME NEW i \in 0..j PROVE Mask[i] \in Nat /\ Mask[i] <= Mask[j]
    <3>1. i = j \/ i \in 0..(j - 1)
      OBVIOUS
    <3>2. i \in 0..GfBits /\ Mask[i] \in Nat
      BY <1>1, <2>1, MaskDef
    <3>3. ASSUME i \in 0..(j - 1) PROVE Mask[i] < Mask[j]
      BY <1>1, <1>3, <2>1, <3>3
    <3>4. Mask[j] \in Nat
      BY <2>2
    <3> HIDE DEF S
    <3>5. CASE i = j
      BY <3>4, <3>5
    <3>6. CASE i \in 0..(j - 1)
      BY <3>2, <3>3, <3>4, <3>6
    <3> QED  BY <3>1, <3>5, <3>6
  <2> QED  BY <2>2, <2>3
<1>4. \A j \in Nat : j \in S
  <2> HIDE DEF S
  <2> QED  BY <1>2, <1>3, Induction
<1>5. \A j \in 0..GfBits : Mask[j] \in Nat /\ Mask[j] >= 1
  BY <1>1, <1>4, MaskDef
<1>6. \A i, j \in 0..GfBits : i < j => Mask[i] < Mask[j]
  BY <1>1, <1>4
<1>7. Mask[GfBits] \in Nat /\ Mask[GfBits] >= 2
  BY <1>1, <1>5, <1>6, MaskDef
<1> QED  BY <1>1, <1>5, <1>6, <1>7 DEF Q

-----------------------------------------------------------------------------
\* The exclusive or.

\* Half an element is one.
LEMMA HalfElement ==
  ASSUME NEW x \in GF
  PROVE  x \div 2 \in GF /\ x \in Nat
<1>1. Q \in Nat /\ x \in Nat /\ x <= Q
  BY MaskGrows DEF GF
<1>2. x \div 2 \in Nat /\ x \div 2 <= x
  BY <1>1
<1> QED  BY <1>1, <1>2 DEF GF

\* The exclusive or goes bit by bit.
LEMMA XorBitsDef ==
  \A x, y \in GF :
    /\ \A b \in 0..GfBits : XorBits[b][x][y] \in Nat
    /\ XorBits[0][x][y] = 0
    /\ \A b \in 1..GfBits :
         XorBits[b][x][y] =
           ((x + y) % 2) + 2 * XorBits[b - 1][x \div 2][y \div 2]
<1> DEFINE T == [GF -> [GF -> Nat]]
           Bits(h) == [x \in GF |-> [y \in GF |->
                        ((x + y) % 2) + 2 * h[x \div 2][y \div 2]]]
           Step == [i \in Nat |-> [h \in T |-> Bits(h)]]
           Zero == [x \in GF |-> [y \in GF |-> 0]]
           M(f) == [b \in 0..GfBits |-> [x \in GF |-> [y \in GF |->
                      IF b = 0 THEN 0
                      ELSE ((x + y) % 2) + 2 * f[b - 1][x \div 2][y \div 2]]]]
<1>1. GfBits \in Nat
  BY FecAssumption
<1>2. ASSUME NEW h \in T PROVE Bits(h) \in T
  <2>1. ASSUME NEW x \in GF, NEW y \in GF
        PROVE  ((x + y) % 2) + 2 * h[x \div 2][y \div 2] \in Nat
    <3>1. x \in Nat /\ y \in Nat /\ x \div 2 \in GF /\ y \div 2 \in GF
      BY HalfElement
    <3>2. h[x \div 2][y \div 2] \in Nat
      BY <3>1
    <3>3. (x + y) % 2 \in Nat
      BY <3>1
    <3> HIDE DEF T
    <3> QED  BY <3>2, <3>3
  <2> QED  BY <2>1
<1>3. Step \in [Nat -> [T -> T]]
  <2> HIDE DEF T, Bits
  <2> QED  BY <1>2
<1>4. Zero \in T
  OBVIOUS
<1>5. PICK f : Recurs(T, GfBits, Zero, Step, f)
  <2> HIDE DEF Step, T, Zero
  <2> QED  BY <1>1, <1>3, <1>4, Recursion
<1>6. f \in [0..GfBits -> T] /\ f[0] = Zero
  <2> HIDE DEF T, Step, Zero
  <2> QED  BY <1>5 DEF Recurs
<1>7. ASSUME NEW b \in 1..GfBits PROVE f[b] = Bits(f[b - 1])
  <2>1. b - 1 \in 0..GfBits /\ b \in Nat
    BY <1>1
  <2> HIDE DEF T, Bits
  <2>2. f[b - 1] \in T
    BY <1>6, <2>1
  <2> QED  BY <1>5, <2>1, <2>2 DEF Recurs
<1>8. f = M(f)
  <2>1. ASSUME NEW b \in 0..GfBits PROVE f[b] = M(f)[b]
    <3>1. CASE b = 0
      BY <1>6, <3>1
    <3>2. CASE b # 0
      <4>1. b \in 1..GfBits
        BY <1>1, <3>2
      <4> QED  BY <1>7, <3>2, <4>1
    <3> QED  BY <3>1, <3>2
  <2> HIDE DEF T
  <2> QED  BY <1>6, <2>1
<1>9. XorBits = M(XorBits)
  <2> HIDE DEF M
  <2>1. XorBits = CHOOSE g : g = M(g)
    BY DEF XorBits, M
  <2> QED  BY <1>8, <2>1
<1>91. ASSUME NEW b \in 0..GfBits, NEW x \in GF, NEW y \in GF
       PROVE  XorBits[b][x][y] = IF b = 0 THEN 0 ELSE
                ((x + y) % 2) + 2 * XorBits[b - 1][x \div 2][y \div 2]
  <2>1. XorBits[b] = M(XorBits)[b]
    BY <1>9
  <2>2. M(XorBits)[b] = [u \in GF |-> [v \in GF |->
                      IF b = 0 THEN 0
                      ELSE ((u + v) % 2)
                             + 2 * XorBits[b - 1][u \div 2][v \div 2]]]
    OBVIOUS
  <2> HIDE DEF M
  <2>3. XorBits[b] = [u \in GF |-> [v \in GF |->
                      IF b = 0 THEN 0
                      ELSE ((u + v) % 2)
                             + 2 * XorBits[b - 1][u \div 2][v \div 2]]]
    BY <2>1, <2>2
  <2> DEFINE g == XorBits[b]
             h == XorBits[b - 1]
  <2>4. g = [u \in GF |-> [v \in GF |->
                      IF b = 0 THEN 0
                      ELSE ((u + v) % 2) + 2 * h[u \div 2][v \div 2]]]
    BY <2>3
  <2> HIDE DEF g, h
  <2>5. g[x][y] = IF b = 0 THEN 0
                   ELSE ((x + y) % 2) + 2 * h[x \div 2][y \div 2]
    BY <2>4
  <2> QED  BY <2>5 DEF g, h
<1>92. ASSUME NEW x \in GF, NEW y \in GF PROVE XorBits[0][x][y] = 0
  BY <1>1, <1>91
<1>93. ASSUME NEW b \in 1..GfBits, NEW x \in GF, NEW y \in GF
       PROVE  XorBits[b][x][y] =
                ((x + y) % 2) + 2 * XorBits[b - 1][x \div 2][y \div 2]
  <2>1. b \in 0..GfBits /\ b # 0
    BY <1>1
  <2> QED  BY <1>91, <2>1
<1> HIDE DEF M, Step, Bits
<1> DEFINE S == {b \in Nat : b <= GfBits =>
                   \A x, y \in GF : XorBits[b][x][y] \in Nat}
<1>10. 0 \in S
  BY <1>92
<1>11. ASSUME NEW b \in Nat, b \in S PROVE b + 1 \in S
  <2>1. SUFFICES ASSUME b + 1 <= GfBits, NEW x \in GF, NEW y \in GF
                 PROVE  XorBits[b + 1][x][y] \in Nat
    OBVIOUS
  <2>2. XorBits[b + 1][x][y]
          = ((x + y) % 2) + 2 * XorBits[b][x \div 2][y \div 2]
    <3>1. b + 1 \in 1..GfBits /\ b + 1 - 1 = b
      BY <1>1, <2>1
    <3> HIDE DEF S
    <3> QED  BY <1>93, <3>1
  <2>3. XorBits[b][x \div 2][y \div 2] \in Nat
    BY <1>1, <1>11, <2>1, HalfElement
  <2>4. x \in Nat /\ y \in Nat
    BY HalfElement
  <2> HIDE DEF S
  <2>5. (x + y) % 2 \in Nat
    BY <2>4
  <2> QED  BY <2>2, <2>3, <2>5
<1>12. \A b \in Nat : b \in S
  <2> HIDE DEF S
  <2> QED  BY <1>10, <1>11, Induction
<1>13. ASSUME NEW b \in 0..GfBits, NEW x \in GF, NEW y \in GF
       PROVE  XorBits[b][x][y] \in Nat
  BY <1>1, <1>12
<1> HIDE DEF S
<1> QED  BY <1>92, <1>93, <1>13

\* The exclusive or of numbers of b bits: one of b bits, commutative and
\* associative, with 0 as its identity and every number its own inverse.
XorLaws(b) ==
  \A x, y, z \in 0..(Mask[b] - 1) :
    /\ XorBits[b][x][y] \in 0..(Mask[b] - 1)
    /\ XorBits[b][x][y] = XorBits[b][y][x]
    /\ XorBits[b][XorBits[b][x][y]][z] = XorBits[b][x][XorBits[b][y][z]]
    /\ XorBits[b][x][0] = x
    /\ XorBits[b][x][x] = 0

\* They hold of every number of bits.
LEMMA XorBitsLaws ==
  \A b \in 0..GfBits : XorLaws(b)
<1> DEFINE S == {b \in Nat : b <= GfBits => XorLaws(b)}
<1>1. GfBits \in Nat
  BY FecAssumption
<1>2. 0 \in S
  <2>1. ASSUME NEW x \in 0..(Mask[0] - 1) PROVE x = 0 /\ x \in GF
    BY MaskDef, MaskGrows DEF GF
  <2>2. 0 \in GF /\ Mask[0] = 1
    BY MaskDef, MaskGrows DEF GF
  <2>3. XorBits[0][0][0] = 0
    BY <2>2, XorBitsDef
  <2>4. XorLaws(0)
    BY <2>1, <2>2, <2>3 DEF XorLaws
  <2> QED  BY <2>4
<1>3. ASSUME NEW b \in Nat, b \in S PROVE b + 1 \in S
  <2>1. SUFFICES ASSUME b + 1 <= GfBits PROVE XorLaws(b + 1)
    OBVIOUS
  <2>2. XorLaws(b) /\ b \in 0..GfBits /\ b + 1 \in 1..GfBits
    BY <1>1, <1>3, <2>1
  <2> DEFINE H == Mask[b]
             X(x, y) == XorBits[b][x][y]
             Y(x, y) == XorBits[b + 1][x][y]
  <2>3. H \in Nat /\ H >= 1 /\ Mask[b + 1] = 2 * H /\ 2 * H <= Q + 1
    <3>1. b + 1 \in 0..GfBits /\ b + 1 - 1 = b
      BY <2>2
    <3>2. Mask[b + 1] \in Nat /\ Mask[b] \in Nat /\ Mask[b] >= 1
      BY <2>2, <3>1, MaskDef, MaskGrows
    <3>3. Mask[b + 1] <= Q + 1
      BY <3>1, MaskGrows
    <3>4. Mask[b + 1] = 2 * Mask[b]
      BY <2>2, <3>1, MaskDef
    <3> QED  BY <3>2, <3>3, <3>4
  <2>4. ASSUME NEW x \in 0..(2 * H - 1), NEW y \in 0..(2 * H - 1)
        PROVE  /\ x \in Nat /\ x \div 2 \in 0..(H - 1) /\ x % 2 \in {0, 1}
               /\ x = 2 * (x \div 2) + (x % 2)
               /\ (Y(x, y)) = ((x + y) % 2) + 2 * X(x \div 2, y \div 2)
    <3>1. x \in GF /\ y \in GF
      BY <2>3, MaskGrows DEF GF
    <3>2. b + 1 - 1 = b
      OBVIOUS
    <3>3. Y(x, y) = ((x + y) % 2) + 2 * X(x \div 2, y \div 2)
      BY <2>2, <3>1, <3>2, XorBitsDef
    <3> HIDE DEF H, X, Y
    <3>4. x \in Nat /\ x < 2 * H
      BY <2>3
    <3>5. x \div 2 \in Nat /\ x % 2 \in {0, 1} /\ x = 2 * (x \div 2) + (x % 2)
      BY <3>4
    <3>6. x \div 2 \in 0..(H - 1)
      BY <2>3, <3>4, <3>5
    <3> QED  BY <3>3, <3>4, <3>5, <3>6
  <2>5. \A x, y, z \in 0..(H - 1) :
          /\ X(x, y) \in 0..(H - 1) /\ X(x, y) = X(y, x)
          /\ X(X(x, y), z) = X(x, X(y, z))
          /\ X(x, 0) = x /\ X(x, x) = 0
    BY <2>2 DEF XorLaws
  <2> HIDE DEF H, X, Y
  <2>6. ASSUME NEW x \in 0..(2 * H - 1), NEW y \in 0..(2 * H - 1)
        PROVE  /\ Y(x, y) \in 0..(2 * H - 1)
               /\ Y(x, y) \div 2 = X(x \div 2, y \div 2)
               /\ Y(x, y) % 2 = (x + y) % 2
    <3>1. Y(x, y) = ((x + y) % 2) + 2 * X(x \div 2, y \div 2)
      BY <2>4
    <3>2. X(x \div 2, y \div 2) \in 0..(H - 1)
      BY <2>4, <2>5
    <3>3. (x + y) % 2 \in {0, 1}
      BY <2>3
    <3> DEFINE u == X(x \div 2, y \div 2)
               w == (x + y) % 2
    <3>4. u \in Nat /\ u < H /\ w \in {0, 1} /\ Y(x, y) = w + 2 * u
      BY <2>3, <3>1, <3>2, <3>3
    <3> HIDE DEF u, w
    <3>5. (w + 2 * u) \div 2 = u /\ (w + 2 * u) % 2 = w
      BY <3>4
    <3>6. w + 2 * u \in 0..(2 * H - 1)
      BY <2>3, <3>4
    <3> QED  BY <3>4, <3>5, <3>6 DEF u, w
  <2>7. ASSUME NEW x \in 0..(2 * H - 1), NEW y \in 0..(2 * H - 1)
        PROVE  Y(x, y) = Y(y, x)
    <3>1. X(x \div 2, y \div 2) = X(y \div 2, x \div 2)
      BY <2>4, <2>5
    <3>2. x + y = y + x
      BY <2>4
    <3> QED  BY <2>4, <3>1, <3>2
  <2>8. ASSUME NEW x \in 0..(2 * H - 1), NEW y \in 0..(2 * H - 1),
               NEW z \in 0..(2 * H - 1)
        PROVE  Y(Y(x, y), z) = Y(x, Y(y, z))
    <3>1. Y(x, y) \in 0..(2 * H - 1) /\ Y(y, z) \in 0..(2 * H - 1)
      BY <2>6
    <3>21. Y(x, y) \div 2 = X(x \div 2, y \div 2)
      BY <2>6
    <3>22. Y(y, z) \div 2 = X(y \div 2, z \div 2)
      BY <2>6
    <3>2. Y(Y(x, y), z) = ((Y(x, y) + z) % 2)
                            + 2 * X(X(x \div 2, y \div 2), z \div 2)
      <4> DEFINE u == Y(x, y)
      <4>1. u \in 0..(2 * H - 1)
        BY <3>1
      <4> HIDE DEF u
      <4>2. Y(u, z) = ((u + z) % 2) + 2 * X(u \div 2, z \div 2)
        BY <2>4, <4>1
      <4> QED  BY <3>21, <4>2 DEF u
    <3>3. Y(x, Y(y, z)) = ((x + Y(y, z)) % 2)
                            + 2 * X(x \div 2, X(y \div 2, z \div 2))
      <4> DEFINE u == Y(y, z)
      <4>1. u \in 0..(2 * H - 1)
        BY <3>1
      <4> HIDE DEF u
      <4>2. Y(x, u) = ((x + u) % 2) + 2 * X(x \div 2, u \div 2)
        BY <2>4, <4>1
      <4> QED  BY <3>22, <4>2 DEF u
    <3>4. X(X(x \div 2, y \div 2), z \div 2)
            = X(x \div 2, X(y \div 2, z \div 2))
      BY <2>4, <2>5
    <3>5. (Y(x, y) + z) % 2 = (x + Y(y, z)) % 2
      <4> DEFINE u == Y(x, y)
                 w == Y(y, z)
      <4>1. /\ x \in Nat /\ y \in Nat /\ z \in Nat /\ u \in Nat /\ w \in Nat
            /\ u % 2 = (x + y) % 2 /\ w % 2 = (y + z) % 2
        BY <2>3, <2>4, <2>6, <3>1
      <4> HIDE DEF u, w
      <4>2. (u + z) % 2 = (x + w) % 2
        BY <4>1
      <4> QED  BY <4>2 DEF u, w
    <3> QED  BY <3>2, <3>3, <3>4, <3>5
  <2>9. ASSUME NEW x \in 0..(2 * H - 1)
        PROVE  Y(x, 0) = x /\ Y(x, x) = 0
    <3>1. 0 \in 0..(2 * H - 1) /\ 0 \div 2 = 0
      BY <2>3
    <3>2. Y(x, 0) = ((x + 0) % 2) + 2 * (x \div 2)
      BY <2>4, <2>5, <3>1
    <3>3. Y(x, x) = ((x + x) % 2) + 2 * 0
      BY <2>4, <2>5, <3>1
    <3>4. x \in Nat /\ x = 2 * (x \div 2) + (x % 2)
      BY <2>4
    <3>5. x + 0 = x /\ (x + x) % 2 = 0
      BY <3>4
    <3>6. Y(x, x) = 0
      BY <3>3, <3>5
    <3>7. x \div 2 \in Nat /\ x % 2 \in {0, 1}
      BY <3>4
    <3> QED  BY <3>2, <3>4, <3>5, <3>6, <3>7
  <2>10. XorLaws(b + 1)
    <3>1. Mask[b + 1] = 2 * H
      BY <2>3
    <3>2. ASSUME NEW x \in 0..(2 * H - 1), NEW y \in 0..(2 * H - 1),
                 NEW z \in 0..(2 * H - 1)
          PROVE  /\ Y(x, y) \in 0..(2 * H - 1) /\ Y(x, y) = Y(y, x)
                 /\ Y(Y(x, y), z) = Y(x, Y(y, z))
                 /\ Y(x, 0) = x /\ Y(x, x) = 0
      BY <2>6, <2>7, <2>8, <2>9
    <3> HIDE DEF Y
    <3> DEFINE K == Mask[b + 1]
    <3>3. SUFFICES ASSUME NEW x \in 0..(K - 1), NEW y \in 0..(K - 1),
                          NEW z \in 0..(K - 1)
          PROVE  /\ XorBits[b + 1][x][y] \in 0..(K - 1)
                 /\ XorBits[b + 1][x][y] = XorBits[b + 1][y][x]
                 /\ XorBits[b + 1][XorBits[b + 1][x][y]][z]
                      = XorBits[b + 1][x][XorBits[b + 1][y][z]]
                 /\ XorBits[b + 1][x][0] = x
                 /\ XorBits[b + 1][x][x] = 0
      BY Zenon DEF XorLaws
    <3>4. K = 2 * H
      BY <3>1
    <3> HIDE DEF K, H
    <3>5. /\ Y(x, y) \in 0..(K - 1) /\ Y(x, y) = Y(y, x)
          /\ Y(Y(x, y), z) = Y(x, Y(y, z))
          /\ Y(x, 0) = x /\ Y(x, x) = 0
      BY <3>2, <3>4
    <3> QED  BY <3>5, Zenon DEF Y
  <2> QED  BY <2>10
<1> HIDE DEF S
<1>4. \A b \in Nat : b \in S
  BY <1>2, <1>3, Induction
<1> QED  BY <1>1, <1>4 DEF S

-----------------------------------------------------------------------------
\* Sums.

\* The exclusive or makes the elements a group in which each is its own
\* inverse.
LEMMA Add ==
  /\ 0 \in GF /\ 1 \in GF
  /\ \A x, y \in GF : x (+) y \in GF /\ x (+) y = y (+) x
  /\ \A x \in GF : x (+) 0 = x /\ 0 (+) x = x /\ x (+) x = 0
  /\ \A x, y, z \in GF : (x (+) y) (+) z = x (+) (y (+) z)
<1>1. GfBits \in 0..GfBits /\ Mask[GfBits] - 1 = Q /\ Q \in Nat /\ Q >= 1
  BY MaskGrows, FecAssumption
<1>2. XorLaws(GfBits)
  BY <1>1, XorBitsLaws
<1>3. 0..(Mask[GfBits] - 1) = GF
  BY <1>1 DEF GF
<1>4. 0 \in GF /\ 1 \in GF
  BY <1>1 DEF GF
<1>5. \A x, y \in GF : x (+) y \in GF /\ x (+) y = y (+) x
  BY <1>2, <1>3 DEF XorLaws, (+)
<1>6. \A x \in GF : x (+) 0 = x /\ x (+) x = 0
  BY <1>2, <1>3 DEF XorLaws, (+)
<1>7. ASSUME NEW x \in GF, NEW y \in GF, NEW z \in GF
      PROVE  (x (+) y) (+) z = x (+) (y (+) z)
  <2> DEFINE W == XorBits[GfBits]
             E == 0..(Mask[GfBits] - 1)
  <2>1. \A u, v, w \in E : W[W[u][v]][w] = W[u][W[v][w]]
    BY <1>2 DEF XorLaws
  <2>2. x \in E /\ y \in E /\ z \in E
    BY <1>3
  <2> HIDE DEF W, E
  <2>3. W[W[x][y]][z] = W[x][W[y][z]]
    BY <2>1, <2>2
  <2> QED  BY <2>3 DEF W, (+)
<1> QED  BY <1>4, <1>5, <1>6, <1>7

\* What cancels: a sum is 0 between equal elements only.
LEMMA AddCancel ==
  ASSUME NEW x \in GF, NEW y \in GF
  PROVE  /\ x (+) (x (+) y) = y
         /\ (x (+) y) (+) y = x
         /\ x (+) y = 0 => x = y
BY Add

\* Two sums of two, term by term.
LEMMA AddFour ==
  ASSUME NEW a \in GF, NEW b \in GF, NEW c \in GF, NEW d \in GF
  PROVE  (a (+) b) (+) (c (+) d) = (a (+) c) (+) (b (+) d)
BY Add

-----------------------------------------------------------------------------
\* The terms of a sum are elements.
Terms(k, f) == \A i \in Size(k) : f[i] \in GF

\* The partial sums of XorSum.
Partial(k, f, acc) ==
  [i \in 0..k |-> IF i = 0 THEN 0 ELSE acc[i - 1] (+) f[i - 1]]
\* The function acc of XorSum.
Acc(k, f) == CHOOSE acc : acc = Partial(k, f, acc)

\* It exists, and each partial sum adds a term.
LEMMA AccDef ==
  ASSUME NEW k \in Nat, NEW f, Terms(k, f)
  PROVE  /\ Acc(k, f) \in [0..k -> GF] /\ Acc(k, f)[0] = 0
         /\ \A i \in Size(k) : Acc(k, f)[i + 1] = Acc(k, f)[i] (+) f[i]
<1> DEFINE Step == [i \in Nat |-> [a \in GF |->
                      IF i \in 1..k THEN a (+) f[i - 1] ELSE a]]
<1>1. ASSUME NEW i \in Nat, NEW a \in GF
      PROVE  (IF i \in 1..k THEN a (+) f[i - 1] ELSE a) \in GF
  BY Add DEF Terms, Size
<1>2. Step \in [Nat -> [GF -> GF]]
  BY <1>1
<1>3. PICK acc : Recurs(GF, k, 0, Step, acc)
  <2> HIDE DEF Step
  <2> QED  BY <1>2, Add, Recursion
<1>4. acc \in [0..k -> GF] /\ acc[0] = 0
  BY <1>3 DEF Recurs
<1>5. ASSUME NEW i \in 1..k PROVE acc[i] = acc[i - 1] (+) f[i - 1]
  <2>1. i \in Nat /\ acc[i - 1] \in GF
    BY <1>4
  <2>2. acc[i] = Step[i][acc[i - 1]]
    BY <1>3 DEF Recurs
  <2> QED  BY <2>1, <2>2
<1>6. acc = Partial(k, f, acc)
  BY <1>4, <1>5 DEF Partial
<1>7. Acc(k, f) = Partial(k, f, Acc(k, f))
  BY <1>6 DEF Acc
<1> DEFINE A == Acc(k, f)
<1>8. A = Partial(k, f, A)
  BY <1>7
<1> HIDE DEF A
<1>9. /\ A[0] = 0 /\ \A i \in Size(k) : A[i + 1] = A[i] (+) f[i]
  <2>1. ASSUME NEW i \in Size(k) PROVE A[i + 1] = A[i] (+) f[i]
    <3>1. i \in Nat /\ i + 1 \in 0..k /\ i + 1 # 0 /\ i + 1 - 1 = i
      BY DEF Size
    <3> DEFINE j == i + 1
    <3>2. j \in 0..k /\ j # 0 /\ j - 1 = i
      BY <3>1
    <3> HIDE DEF j
    <3>3. Partial(k, f, A)[j] = A[j - 1] (+) f[j - 1]
      BY <3>2 DEF Partial
    <3>4. A[j] = Partial(k, f, A)[j]
      BY <1>8
    <3> QED  BY <3>2, <3>3, <3>4 DEF j
  <2> QED  BY <1>8, <2>1 DEF Partial
<1> DEFINE S == {i \in Nat : i <= k => A[i] \in GF}
<1>10. 0 \in S
  BY <1>9, Add
<1>11. ASSUME NEW i \in Nat, i \in S PROVE i + 1 \in S
  BY <1>9, <1>11, Add DEF Terms, Size
<1>12. \A i \in Nat : i \in S
  <2> HIDE DEF S
  <2> QED  BY <1>10, <1>11, Induction
<1>13. A \in [0..k -> GF]
  BY <1>8, <1>12 DEF Partial
<1> QED  BY <1>9, <1>13 DEF A

\* A sum is the last of its partial sums.
LEMMA XorSumIsAcc ==
  ASSUME NEW k, NEW f
  PROVE  XorSum(k, f) = Acc(k, f)[k]
BY DEF XorSum, Acc, Partial

\* A sum is an element, and one more term adds it.
LEMMA SumStep ==
  ASSUME NEW k \in Nat, NEW f, Terms(k, f)
  PROVE  /\ XorSum(k, f) \in GF /\ XorSum(0, f) = 0
         /\ \A j \in Size(k) : XorSum(j, f) \in GF
         /\ \A j \in Size(k) : XorSum(j + 1, f) = XorSum(j, f) (+) f[j]
<1>1. ASSUME NEW j \in 0..k PROVE Terms(j, f)
  BY DEF Terms, Size
<1>2. ASSUME NEW j \in 0..k PROVE XorSum(j, f) \in GF
  <2>1. Acc(j, f) \in [0..j -> GF] /\ j \in 0..j
    BY <1>1, AccDef
  <2> QED  BY <2>1, XorSumIsAcc
<1>3. XorSum(0, f) = 0
  BY <1>1, AccDef, XorSumIsAcc
<1>4. ASSUME NEW j \in Size(k)
      PROVE  XorSum(j + 1, f) = XorSum(j, f) (+) f[j]
  <2> DEFINE A == Acc(j, f)
             B == Acc(j + 1, f)
  <2>1. j \in Nat /\ j \in 0..k /\ j + 1 \in 0..k /\ j + 1 \in Nat
    BY DEF Size
  <2>2. A[0] = 0 /\ \A i \in Size(j) : A[i + 1] = A[i] (+) f[i]
    BY <1>1, <2>1, AccDef
  <2>3. B[0] = 0 /\ \A i \in Size(j + 1) : B[i + 1] = B[i] (+) f[i]
    BY <1>1, <2>1, AccDef
  <2> HIDE DEF A, B
  <2> DEFINE S == {i \in Nat : i <= j => A[i] = B[i]}
  <2>4. 0 \in S
    BY <2>2, <2>3
  <2>5. ASSUME NEW i \in Nat, i \in S PROVE i + 1 \in S
    <3>1. SUFFICES ASSUME i + 1 <= j PROVE A[i + 1] = B[i + 1]
      OBVIOUS
    <3>2. i \in Size(j) /\ i \in Size(j + 1) /\ A[i] = B[i]
      BY <2>1, <2>5, <3>1 DEF Size
    <3> HIDE DEF S
    <3> QED  BY <2>2, <2>3, <3>2
  <2>6. j \in S
    <3> HIDE DEF S
    <3> QED  BY <2>1, <2>4, <2>5, Induction
  <2>7. A[j] = B[j]
    BY <2>1, <2>6
  <2>8. B[j + 1] = B[j] (+) f[j]
    BY <2>1, <2>3 DEF Size
  <2> QED  BY <2>7, <2>8, XorSumIsAcc DEF A, B
<1>5. \A j \in Size(k) : XorSum(j, f) \in GF
  BY <1>2 DEF Size
<1>6. XorSum(k, f) \in GF
  BY <1>2
<1> QED  BY <1>3, <1>4, <1>5, <1>6

-----------------------------------------------------------------------------
\* The top bit and the lowest one.

\* The top bit by itself: one bit more changes nothing in what is below it.
TopBit(b) ==
  \A u, v \in 0..(Mask[b] - 1) :
    /\ XorBits[b + 1][u][v] = XorBits[b][u][v]
    /\ XorBits[b + 1][u + Mask[b]][v] = XorBits[b][u][v] + Mask[b]
    /\ XorBits[b + 1][u + Mask[b]][v + Mask[b]] = XorBits[b][u][v]

\* So it is for every number of bits.
LEMMA XorTopBit ==
  \A b \in 0..(GfBits - 1) : TopBit(b)
<1> DEFINE S == {b \in Nat : b < GfBits => TopBit(b)}
<1>1. GfBits \in Nat /\ GfBits >= 1
  BY FecAssumption
<1>2. ASSUME NEW b \in 0..GfBits, NEW x \in 0..(Mask[b] - 1)
      PROVE  x \in GF /\ x \in Nat
  <2>1. Mask[b] \in Nat /\ Mask[b] <= Q + 1 /\ Q \in Nat
    BY MaskDef, MaskGrows
  <2> QED  BY <2>1 DEF GF
<1>3. 0 \in S
  <2>1. Mask[0] = 1 /\ Mask[1] = 2 /\ 1 \in 0..GfBits /\ 1 \in 1..GfBits
    BY <1>1, MaskDef
  <2>2. 0 \in GF /\ 1 \in GF
    BY Add
  <2>3. 0 \div 2 = 0 /\ 1 \div 2 = 0 /\ 1 - 1 = 0
    OBVIOUS
  <2>4. \A x, y \in GF : XorBits[0][x][y] = 0
    BY XorBitsDef
  <2>5. XorBits[1][0][0] =
           ((0 + 0) % 2) + 2 * XorBits[1 - 1][0 \div 2][0 \div 2]
    BY <2>1, <2>2, XorBitsDef
  <2>6. XorBits[1][1][0] =
           ((1 + 0) % 2) + 2 * XorBits[1 - 1][1 \div 2][0 \div 2]
    BY <2>1, <2>2, XorBitsDef
  <2>7. XorBits[1][1][1] =
           ((1 + 1) % 2) + 2 * XorBits[1 - 1][1 \div 2][1 \div 2]
    BY <2>1, <2>2, XorBitsDef
  <2>8. XorBits[0][0][0] = 0
    BY <2>2, <2>4
  <2>9. XorBits[1][0][0] = 0 /\ XorBits[1][1][0] = 1 /\ XorBits[1][1][1] = 0
    BY <2>3, <2>5, <2>6, <2>7, <2>8
  <2>10. \A u \in 0..(Mask[0] - 1) : u = 0
    BY <2>1
  <2>11. TopBit(0)
    BY <2>1, <2>8, <2>9, <2>10 DEF TopBit
  <2> QED  BY <2>11
<1>4. ASSUME NEW b \in Nat, b \in S PROVE b + 1 \in S
  <2>1. SUFFICES ASSUME b + 1 < GfBits PROVE TopBit(b + 1)
    OBVIOUS
  <2>2. TopBit(b)
    BY <1>1, <1>4, <2>1
  <2>3. /\ b \in 0..GfBits /\ b + 1 \in 1..GfBits /\ b + 2 \in 1..GfBits
        /\ b + 1 \in 0..GfBits /\ b + 2 \in 0..GfBits
        /\ b + 1 - 1 = b /\ b + 2 - 1 = b + 1 /\ (b + 1) + 1 = b + 2
    BY <1>1, <2>1
  <2> DEFINE H == Mask[b]
             X(x, y) == XorBits[b][x][y]
             Y(x, y) == XorBits[b + 1][x][y]
             Z(x, y) == XorBits[b + 2][x][y]
  <2>4. /\ H \in Nat /\ H >= 1 /\ Mask[b + 1] = 2 * H
        /\ Q \in Nat /\ 2 * H + 2 * H <= Q + 1
    <3>1. /\ Mask[b] \in Nat /\ Mask[b] >= 1 /\ Mask[b + 2] <= Q + 1
          /\ Q \in Nat
      BY <2>3, MaskDef, MaskGrows
    <3>2. Mask[b + 1] = 2 * Mask[b] /\ Mask[b + 2] = 2 * Mask[b + 1]
      BY <2>3, MaskDef
    <3> QED  BY <3>1, <3>2
  <2>5. \A u, v \in 0..(H - 1) :
          /\ Y(u, v) = X(u, v) /\ Y(u + H, v) = X(u, v) + H
          /\ Y(u + H, v + H) = X(u, v)
    BY <2>2 DEF TopBit
  <2>6. ASSUME NEW x \in GF, NEW y \in GF
        PROVE  /\ Y(x, y) = ((x + y) % 2) + 2 * X(x \div 2, y \div 2)
               /\ Z(x, y) = ((x + y) % 2) + 2 * Y(x \div 2, y \div 2)
    BY <2>3, XorBitsDef
  <2>7. ASSUME NEW u \in 0..(2 * H - 1), NEW v \in 0..(2 * H - 1)
        PROVE  /\ Z(u, v) = Y(u, v) /\ Z(u + 2 * H, v) = Y(u, v) + 2 * H
               /\ Z(u + 2 * H, v + 2 * H) = Y(u, v)
    <3> DEFINE p == u \div 2
               q == v \div 2
               w == (u + v) % 2
               e == X(p, q)
    <3> HIDE DEF H, X, Y, Z
    <3>1. /\ u \in GF /\ v \in GF /\ u + 2 * H \in GF /\ v + 2 * H \in GF
          /\ u \in Nat /\ v \in Nat
      BY <2>4 DEF GF
    <3>2. p \in 0..(H - 1) /\ q \in 0..(H - 1)
      BY <2>4, <3>1
    <3>3. (u + 2 * H) \div 2 = p + H /\ (v + 2 * H) \div 2 = q + H
      BY <2>4, <3>1
    <3>4. (u + 2 * H + v) % 2 = w /\ (u + 2 * H + (v + 2 * H)) % 2 = w
      BY <2>4, <3>1
    <3>5. e \in Nat
      <4>1. p \in GF /\ q \in GF
        BY <2>4, <3>2 DEF GF
      <4> QED  BY <2>3, <4>1, XorBitsDef DEF X
    <3>6. w \in {0, 1}
      BY <3>1
    <3>7. Y(u, v) = w + 2 * e
      BY <2>6, <3>1
    <3>8. Z(u, v) = w + 2 * Y(p, q)
      BY <2>6, <3>1
    <3>9. Z(u + 2 * H, v) = ((u + 2 * H + v) % 2)
                              + 2 * Y((u + 2 * H) \div 2, v \div 2)
      BY <2>6, <3>1
    <3>10. Z(u + 2 * H, v + 2 * H) = ((u + 2 * H + (v + 2 * H)) % 2)
                  + 2 * Y((u + 2 * H) \div 2, (v + 2 * H) \div 2)
      BY <2>6, <3>1
    <3>11. Y(p, q) = e /\ Y(p + H, q) = e + H /\ Y(p + H, q + H) = e
      BY <2>5, <3>2
    <3>12. Z(u + 2 * H, v) = w + 2 * (e + H)
      BY <3>3, <3>4, <3>9, <3>11
    <3>13. Z(u + 2 * H, v + 2 * H) = w + 2 * e
      BY <3>3, <3>4, <3>10, <3>11
    <3>14. Z(u, v) = w + 2 * e
      BY <3>8, <3>11
    <3> HIDE DEF p, q, w, e
    <3> QED  BY <2>4, <3>5, <3>6, <3>7, <3>12, <3>13, <3>14
  <2>8. ASSUME NEW u \in 0..(Mask[b + 1] - 1), NEW v \in 0..(Mask[b + 1] - 1)
        PROVE  /\ XorBits[b + 2][u][v] = XorBits[b + 1][u][v]
               /\ XorBits[b + 2][u + Mask[b + 1]][v]
                    = XorBits[b + 1][u][v] + Mask[b + 1]
               /\ XorBits[b + 2][u + Mask[b + 1]][v + Mask[b + 1]]
                    = XorBits[b + 1][u][v]
    <3>1. Mask[b + 1] = 2 * H
      BY <2>4
    <3>2. u \in 0..(2 * H - 1) /\ v \in 0..(2 * H - 1)
      BY <3>1
    <3>3. /\ Z(u, v) = Y(u, v) /\ Z(u + 2 * H, v) = Y(u, v) + 2 * H
          /\ Z(u + 2 * H, v + 2 * H) = Y(u, v)
      BY <2>7, <3>2
    <3> QED  BY <3>1, <3>3
  <2> HIDE DEF X, Y, Z, H
  <2> QED  BY <2>3, <2>8 DEF TopBit
<1> HIDE DEF S
<1>5. \A b \in Nat : b \in S
  BY <1>3, <1>4, Induction
<1> QED  BY <1>1, <1>5 DEF S

\* The half of the elements without the top bit.
Half == Mask[GfBits - 1]

\* The elements are two halves.
LEMMA HalfDef ==
  Half \in Nat /\ Half >= 1 /\ Q + 1 = 2 * Half
<1>1. GfBits - 1 \in 0..GfBits /\ GfBits \in 1..GfBits
  BY FecAssumption
<1>2. Mask[GfBits - 1] \in Nat /\ Mask[GfBits - 1] >= 1
  BY <1>1, MaskDef, MaskGrows
<1>3. Mask[GfBits] = 2 * Mask[GfBits - 1]
  BY <1>1, MaskDef
<1> QED  BY <1>2, <1>3, MaskGrows DEF Half

\* Sums and the top bit; the sum of doubles is the double of the sum.
LEMMA AddHalves ==
  ASSUME NEW u \in 0..(Half - 1), NEW v \in 0..(Half - 1)
  PROVE  /\ u (+) v \in 0..(Half - 1)
         /\ (u + Half) (+) v = (u (+) v) + Half
         /\ u (+) (v + Half) = (u (+) v) + Half
         /\ (u + Half) (+) (v + Half) = u (+) v
         /\ (2 * u) (+) (2 * v) = 2 * (u (+) v)
<1> DEFINE b == GfBits - 1
<1>1. b \in 0..(GfBits - 1) /\ b + 1 = GfBits /\ b \in 0..GfBits
      /\ GfBits \in 1..GfBits
  BY FecAssumption
<1>2. TopBit(b) /\ XorLaws(b)
  BY <1>1, XorTopBit, XorBitsLaws
<1>3. Mask[b] = Half
  BY DEF Half
<1>4. /\ XorBits[b][u][v] \in 0..(Half - 1) /\ u (+) v = XorBits[b][u][v]
      /\ XorBits[b][v][u] = XorBits[b][u][v]
      /\ (u + Half) (+) v = XorBits[b][u][v] + Half
      /\ (v + Half) (+) u = XorBits[b][v][u] + Half
      /\ (u + Half) (+) (v + Half) = XorBits[b][u][v]
  BY <1>1, <1>2, <1>3 DEF TopBit, XorLaws, (+)
<1>5. /\ u \in GF /\ v \in GF /\ v + Half \in GF
      /\ 2 * u \in GF /\ 2 * v \in GF
      /\ u \in Nat /\ v \in Nat
  BY HalfDef, MaskGrows DEF GF
<1>6. u (+) (v + Half) = (v + Half) (+) u
  BY <1>5, Add
<1>7. (2 * u) (+) (2 * v) = 2 * (u (+) v)
  <2>1. (2 * u) (+) (2 * v) = ((2 * u + 2 * v) % 2)
           + 2 * XorBits[GfBits - 1][(2 * u) \div 2][(2 * v) \div 2]
    BY <1>1, <1>5, XorBitsDef DEF (+)
  <2>2. (2 * u) \div 2 = u /\ (2 * v) \div 2 = v /\ (2 * u + 2 * v) % 2 = 0
    BY <1>5
  <2>3. XorBits[GfBits - 1][u][v] \in Nat
    BY <1>4, HalfDef
  <2>4. (2 * u) (+) (2 * v) = 0 + 2 * XorBits[GfBits - 1][u][v]
    BY <2>1, <2>2
  <2> QED  BY <1>4, <2>3, <2>4
<1> HIDE DEF b
<1> QED  BY <1>4, <1>6, <1>7

\* The lowest bit of a sum.
LEMMA AddLowBit ==
  ASSUME NEW x \in GF, NEW y \in GF
  PROVE  (x (+) y) % 2 = (x + y) % 2
<1>1. GfBits \in 1..GfBits /\ GfBits - 1 \in 0..GfBits
  BY FecAssumption
<1>2. x (+) y = ((x + y) % 2) + 2 * XorBits[GfBits - 1][x \div 2][y \div 2]
  BY <1>1, XorBitsDef DEF (+)
<1>3. XorBits[GfBits - 1][x \div 2][y \div 2] \in Nat
  BY <1>1, XorBitsDef, HalfElement
<1>4. x \in Nat /\ y \in Nat
  BY HalfElement
<1> DEFINE e == XorBits[GfBits - 1][x \div 2][y \div 2]
           w == (x + y) % 2
<1>5. e \in Nat /\ w \in {0, 1} /\ x (+) y = w + 2 * e
  BY <1>2, <1>3, <1>4
<1> HIDE DEF e, w
<1>6. (w + 2 * e) % 2 = w
  BY <1>5
<1> QED  BY <1>5, <1>6 DEF w

-----------------------------------------------------------------------------
\* The powers of the primitive element.

\* What a bit that falls out is replaced by is an odd element.
LEMMA ReducedOdd ==
  Reduced \in GF /\ Reduced % 2 = 1
<1> DEFINE f == [j \in 0..(GfBits - 1) |-> Pp[j + 1] * Mask[j]]
           S == {j \in Nat : j < GfBits => XorSum(j + 1, f) % 2 = 1}
<1>1. GfBits \in Nat /\ GfBits >= 1
  BY FecAssumption
<1>2. ASSUME NEW j \in 0..(GfBits - 1)
      PROVE  f[j] \in GF /\ (j > 0 => f[j] % 2 = 0) /\ (j = 0 => f[j] = 1)
  <2>1. Pp[j + 1] \in {0, 1}
    BY <1>1, FecAssumption
  <2>2. j \in 0..GfBits /\ GfBits - 1 \in 0..GfBits
    BY <1>1
  <2>3. Mask[j] \in Nat /\ Half \in Nat /\ Mask[j] <= Half
    <3>1. CASE j = GfBits - 1
      BY <2>2, <3>1, MaskDef DEF Half
    <3>2. CASE j # GfBits - 1
      <4>1. j < GfBits - 1
        BY <1>1, <3>2
      <4>2. Mask[j] < Mask[GfBits - 1]
        BY <2>2, <4>1, MaskGrows
      <4> QED  BY <2>2, <4>2, MaskDef DEF Half
    <3> QED  BY <3>1, <3>2
  <2>4. f[j] = Pp[j + 1] * Mask[j]
    OBVIOUS
  <2> HIDE DEF f
  <2>5. f[j] = 0 \/ f[j] = Mask[j]
    BY <2>1, <2>3, <2>4
  <2>6. f[j] \in GF
    BY <2>3, <2>5, HalfDef, MaskGrows DEF GF
  <2>7. ASSUME j > 0 PROVE f[j] % 2 = 0
    <3>1. j \in 1..GfBits /\ j - 1 \in 0..GfBits
      BY <1>1, <2>7
    <3>2. Mask[j] = 2 * Mask[j - 1] /\ Mask[j - 1] \in Nat
      BY <3>1, MaskDef
    <3> QED  BY <2>5, <3>2
  <2>8. ASSUME j = 0 PROVE f[j] = 1
    BY <2>4, <2>8, FecPrimitive, MaskDef DEF Primitive
  <2> QED  BY <2>6, <2>7, <2>8
<1>3. Terms(GfBits, f)
  BY <1>2 DEF Terms, Size
<1> HIDE DEF f
<1>4. /\ XorSum(GfBits, f) \in GF /\ XorSum(0, f) = 0
      /\ \A j \in Size(GfBits) : XorSum(j, f) \in GF
      /\ \A j \in Size(GfBits) : XorSum(j + 1, f) = XorSum(j, f) (+) f[j]
  BY <1>1, <1>3, SumStep
<1>5. 0 \in S
  <2>1. 0 \in Size(GfBits) /\ 0 \in 0..(GfBits - 1)
    BY <1>1 DEF Size
  <2>2. XorSum(0 + 1, f) = 0 (+) 1
    BY <1>2, <1>4, <2>1
  <2>3. 0 (+) 1 = 1
    BY Add
  <2> QED  BY <2>2, <2>3
<1>6. ASSUME NEW j \in Nat, j \in S PROVE j + 1 \in S
  <2>1. SUFFICES ASSUME j + 1 < GfBits
                 PROVE  XorSum(j + 1 + 1, f) % 2 = 1
    OBVIOUS
  <2>2. j + 1 \in Size(GfBits) /\ j + 1 \in 0..(GfBits - 1) /\ j + 1 > 0
    BY <1>1, <2>1 DEF Size
  <2> DEFINE a == XorSum(j + 1, f)
             c == f[j + 1]
  <2>3. a \in GF /\ c \in GF /\ a % 2 = 1 /\ c % 2 = 0
    <3>1. j < GfBits
      BY <1>1, <2>1
    <3>2. XorSum(j + 1, f) % 2 = 1
      BY <1>6, <3>1
    <3> QED  BY <1>2, <1>4, <2>2, <3>2
  <2>4. XorSum(j + 1 + 1, f) = a (+) c
    BY <1>4, <2>2
  <2> HIDE DEF a, c
  <2>5. a \in Nat /\ c \in Nat
    BY <2>3, HalfElement
  <2>6. (a + c) % 2 = 1
    BY <2>3, <2>5
  <2> QED  BY <2>3, <2>4, <2>6, AddLowBit
<1> HIDE DEF S
<1>7. GfBits - 1 \in S
  BY <1>1, <1>5, <1>6, Induction
<1>8. XorSum(GfBits, f) % 2 = 1
  BY <1>1, <1>7 DEF S
<1> QED  BY <1>4, <1>8 DEF f, Reduced

\* An element and the half it is in.
LEMMA Split ==
  ASSUME NEW x \in GF
  PROVE  \E u \in 0..(Half - 1) : x = u \/ x = u + Half
<1>1. x \in Nat /\ x <= Q /\ Q + 1 = 2 * Half /\ Half \in Nat /\ Q \in Nat
  BY HalfDef, MaskGrows DEF GF
<1>2. CASE x < Half
  BY <1>1, <1>2
<1>3. CASE x >= Half
  <2>1. x - Half \in 0..(Half - 1) /\ x = (x - Half) + Half
    BY <1>1, <1>3
  <2> QED  BY <2>1
<1> QED  BY <1>1, <1>2, <1>3

\* The next power of an element of each half.
LEMMA NextPowerOf ==
  ASSUME NEW u \in 0..(Half - 1)
  PROVE  /\ 2 * u \in GF /\ u \in GF /\ u + Half \in GF /\ u \in Nat
         /\ NextPower(u) = 2 * u
         /\ NextPower(u + Half) = Reduced (+) (2 * u)
<1>1. u \in Nat /\ u < Half /\ Q + 1 = 2 * Half /\ Half \in Nat /\ Q \in Nat
  BY HalfDef, MaskGrows
<1>2. 2 * u \in GF /\ u \in GF /\ u + Half \in GF
  BY <1>1 DEF GF
<1>3. ~(u + Half < Half) /\ (u + Half) - Half = u
  BY <1>1
<1>4. NextPower(u) = 2 * u
  BY <1>1 DEF NextPower, Half
<1>5. NextPower(u + Half) = Reduced (+) (2 * u)
  <2> DEFINE w == u + Half
  <2>1. NextPower(w) = IF w < Half THEN 2 * w ELSE Reduced (+) (2 * (w - Half))
    BY DEF NextPower, Half
  <2>2. ~(w < Half) /\ w - Half = u
    BY <1>3
  <2> QED  BY <2>1, <2>2
<1> QED  BY <1>1, <1>2, <1>4, <1>5

\* The step to the next power is linear, and takes no element but 0 to 0.
LEMMA NextPowerLinear ==
  /\ \A x \in GF : NextPower(x) \in GF /\ (NextPower(x) = 0 <=> x = 0)
  /\ \A x, y \in GF : NextPower(x (+) y) = NextPower(x) (+) NextPower(y)
<1>1. ASSUME NEW x \in GF
      PROVE  NextPower(x) \in GF /\ (NextPower(x) = 0 <=> x = 0)
  <2>1. PICK u \in 0..(Half - 1) : x = u \/ x = u + Half
    BY Split
  <2>2. /\ 2 * u \in GF /\ u \in GF /\ u + Half \in GF /\ u \in Nat
        /\ NextPower(u) = 2 * u
        /\ NextPower(u + Half) = Reduced (+) (2 * u)
    BY NextPowerOf
  <2>3. CASE x = u
    BY <2>2, <2>3
  <2>4. CASE x = u + Half
    <3> DEFINE r == Reduced
               s == r (+) (2 * u)
    <3>1. r \in GF /\ r % 2 = 1 /\ r \in Nat /\ s \in GF
      BY <2>2, ReducedOdd, HalfElement, Add
    <3>2. s % 2 = (r + 2 * u) % 2
      BY <2>2, <3>1, AddLowBit
    <3> HIDE DEF r, s
    <3>3. (r + 2 * u) % 2 = 1
      BY <2>2, <3>1
    <3>4. s # 0
      BY <3>2, <3>3
    <3>5. x # 0
      BY <2>2, <2>4, HalfDef
    <3> QED  BY <2>2, <2>4, <3>1, <3>4, <3>5 DEF r, s
  <2> QED  BY <2>1, <2>3, <2>4
<1>2. ASSUME NEW x \in GF, NEW y \in GF
      PROVE  NextPower(x (+) y) = NextPower(x) (+) NextPower(y)
  <2>1. PICK u \in 0..(Half - 1) : x = u \/ x = u + Half
    BY Split
  <2>2. PICK v \in 0..(Half - 1) : y = v \/ y = v + Half
    BY Split
  <2> DEFINE w == u (+) v
             r == Reduced
             a == 2 * u
             c == 2 * v
  <2>3. /\ w \in 0..(Half - 1) /\ (u + Half) (+) v = w + Half
        /\ u (+) (v + Half) = w + Half /\ (u + Half) (+) (v + Half) = w
        /\ a (+) c = 2 * w
    BY AddHalves
  <2>4. NextPower(u) = a /\ NextPower(u + Half) = r (+) a /\ a \in GF
    BY NextPowerOf
  <2>5. NextPower(v) = c /\ NextPower(v + Half) = r (+) c /\ c \in GF
    BY NextPowerOf
  <2>6. NextPower(w) = 2 * w /\ NextPower(w + Half) = r (+) (2 * w)
    BY <2>3, NextPowerOf
  <2>7. r \in GF /\ u (+) v = w
    BY ReducedOdd
  <2> HIDE DEF w, r, a, c
  <2>8. /\ (r (+) a) (+) c = r (+) (a (+) c)
        /\ a (+) (r (+) c) = r (+) (a (+) c)
        /\ (r (+) a) (+) (r (+) c) = a (+) c
    BY <2>4, <2>5, <2>7, Add
  <2>9. CASE x = u /\ y = v
    BY <2>3, <2>4, <2>5, <2>6, <2>7, <2>9
  <2>10. CASE x = u + Half /\ y = v
    BY <2>3, <2>4, <2>5, <2>6, <2>8, <2>10
  <2>11. CASE x = u /\ y = v + Half
    BY <2>3, <2>4, <2>5, <2>6, <2>8, <2>11
  <2>12. CASE x = u + Half /\ y = v + Half
    BY <2>3, <2>4, <2>5, <2>6, <2>8, <2>12
  <2> QED  BY <2>1, <2>2, <2>9, <2>10, <2>11, <2>12
<1> QED  BY <1>1, <1>2

\* Different elements have different next powers.
LEMMA NextPowerInjective ==
  ASSUME NEW x \in GF, NEW y \in GF, NextPower(x) = NextPower(y)
  PROVE  x = y
<1>1. NextPower(x (+) y) = NextPower(x) (+) NextPower(y)
  BY NextPowerLinear
<1>2. NextPower(x) (+) NextPower(y) = 0
  BY NextPowerLinear, Add
<1>3. x (+) y = 0
  BY <1>1, <1>2, NextPowerLinear, Add
<1> QED  BY <1>3, AddCancel

-----------------------------------------------------------------------------
\* Each power follows from the one before, the shifted masks included.
LEMMA GfExpSteps ==
  /\ GfExp \in [0..(Q - 1) -> GF] /\ GfExp[0] = 1
  /\ \A i \in 0..(Q - 2) : GfExp[i + 1] = NextPower(GfExp[i])
<1> DEFINE Next1(i, x) == IF i < GfBits THEN Mask[i]
                          ELSE IF i = GfBits THEN Reduced ELSE NextPower(x)
           Step == [i \in Nat |-> [x \in GF |-> Next1(i, x)]]
           M(f) == [i \in 0..(Q - 1) |->
                      IF i < GfBits THEN Mask[i]
                      ELSE IF i = GfBits THEN Reduced ELSE NextPower(f[i - 1])]
<1>1. Q \in Nat /\ Q - 1 \in Nat /\ GfBits \in Nat /\ GfBits >= 1
  BY MaskGrows, FecAssumption
<1>2. ASSUME NEW i \in Nat, NEW x \in GF PROVE Next1(i, x) \in GF
  <2>1. ASSUME i < GfBits PROVE Mask[i] \in GF
    <3>1. i \in 0..GfBits /\ GfBits \in 0..GfBits
      BY <1>1, <2>1
    <3>2. Mask[i] \in Nat /\ Mask[i] < Mask[GfBits]
      BY <2>1, <3>1, MaskDef, MaskGrows
    <3> QED  BY <1>1, <3>2, MaskGrows DEF GF
  <2> QED  BY <2>1, ReducedOdd, NextPowerLinear
<1>3. Step \in [Nat -> [GF -> GF]]
  <2> HIDE DEF Next1
  <2> QED  BY <1>2
<1>4. 1 \in GF
  BY Add
<1>5. PICK f : Recurs(GF, Q - 1, 1, Step, f)
  <2> HIDE DEF Step
  <2> QED  BY <1>1, <1>3, <1>4, Recursion
<1>6. f \in [0..(Q - 1) -> GF] /\ f[0] = 1
  BY <1>5 DEF Recurs
<1>7. ASSUME NEW i \in 1..(Q - 1) PROVE f[i] = Next1(i, f[i - 1])
  <2>1. i \in Nat /\ f[i - 1] \in GF
    BY <1>1, <1>6
  <2>2. f[i] = Step[i][f[i - 1]]
    BY <1>5 DEF Recurs
  <2> HIDE DEF Next1
  <2> QED  BY <2>1, <2>2
<1>8. f = M(f)
  <2>1. ASSUME NEW i \in 0..(Q - 1) PROVE f[i] = M(f)[i]
    <3>1. CASE i = 0
      BY <1>1, <1>6, <3>1, MaskDef
    <3>2. CASE i # 0
      BY <1>1, <1>7, <3>2
    <3> QED  BY <3>1, <3>2
  <2> QED  BY <1>6, <2>1
<1>9. GfExp = M(GfExp)
  <2> HIDE DEF M
  <2>1. GfExp = CHOOSE g : g = M(g)
    BY DEF GfExp, M
  <2> QED  BY <1>8, <2>1
<1>10. ASSUME NEW i \in 0..(Q - 1)
       PROVE  GfExp[i] = Next1(i, GfExp[i - 1])
  BY <1>9
<1> HIDE DEF M, Step
<1>11. GfExp[0] = 1
  BY <1>1, <1>10, MaskDef
<1> DEFINE S == {i \in Nat : i < Q => GfExp[i] \in GF}
<1>12. 0 \in S
  BY <1>4, <1>11
<1>13. ASSUME NEW i \in Nat, i \in S PROVE i + 1 \in S
  <2>1. SUFFICES ASSUME i + 1 < Q PROVE GfExp[i + 1] \in GF
    OBVIOUS
  <2>2. GfExp[i] \in GF
    BY <1>1, <1>13, <2>1
  <2>3. i + 1 \in 0..(Q - 1) /\ i + 1 - 1 = i /\ i + 1 \in Nat
    BY <1>1, <2>1
  <2> HIDE DEF S, Next1
  <2>4. GfExp[i + 1] = Next1(i + 1, GfExp[i])
    BY <1>10, <2>3
  <2> QED  BY <1>2, <2>2, <2>3, <2>4
<1>14. \A i \in Nat : i \in S
  <2> HIDE DEF S
  <2> QED  BY <1>12, <1>13, Induction
<1>15. \A i \in 0..(Q - 1) : GfExp[i] \in GF
  BY <1>1, <1>14
<1>16. GfExp \in [0..(Q - 1) -> GF]
  BY <1>9, <1>15 DEF M
<1>17. ASSUME NEW i \in 0..(Q - 2)
       PROVE  GfExp[i + 1] = NextPower(GfExp[i])
  <2>1. i \in Nat /\ i + 1 \in 0..(Q - 1) /\ i \in 0..(Q - 1) /\ i + 1 - 1 = i
    BY <1>1
  <2>2. GfExp[i + 1] = Next1(i + 1, GfExp[i])
    <3> HIDE DEF Next1
    <3> QED  BY <1>10, <2>1
  <2>3. CASE i + 1 > GfBits
    BY <1>1, <2>1, <2>2, <2>3
  <2>4. CASE i + 1 <= GfBits
    <3>1. GfExp[i] = Mask[i] /\ i \in 0..GfBits
      <4>1. GfExp[i] = Next1(i, GfExp[i - 1])
        <5> HIDE DEF Next1
        <5> QED  BY <1>10, <2>1
      <4> QED  BY <1>1, <2>1, <2>4, <4>1
    <3>2. CASE i + 1 < GfBits
      <4>1. Mask[i + 1] = 2 * Mask[i]
        BY <1>1, <2>1, <3>2, MaskDef
      <4>2. Mask[i] < Half
        <5>1. i < GfBits - 1 /\ GfBits - 1 \in 0..GfBits
          BY <1>1, <2>1, <3>2
        <5> QED  BY <3>1, <5>1, MaskGrows DEF Half
      <4>3. GfExp[i + 1] = Mask[i + 1]
        BY <1>1, <2>1, <2>2, <3>2
      <4>4. NextPower(Mask[i]) = 2 * Mask[i]
        BY <4>2 DEF NextPower, Half
      <4> QED  BY <3>1, <4>1, <4>3, <4>4
    <3>3. CASE i + 1 = GfBits
      <4>1. GfExp[i] = Half
        BY <1>1, <2>1, <3>1, <3>3 DEF Half
      <4>2. NextPower(0 + Half) = Reduced (+) (2 * 0)
        BY HalfDef, NextPowerOf
      <4>3. 0 + Half = Half /\ 2 * 0 = 0 /\ Reduced (+) 0 = Reduced
        BY HalfDef, ReducedOdd, Add
      <4>4. GfExp[i + 1] = Reduced
        BY <1>1, <2>1, <2>2, <3>3
      <4> QED  BY <4>1, <4>2, <4>3, <4>4
    <3> QED  BY <1>1, <2>1, <2>4, <3>2, <3>3
  <2> QED  BY <1>1, <2>1, <2>3, <2>4
<1> QED  BY <1>11, <1>16, <1>17

-----------------------------------------------------------------------------
\* The field.

\* Counting exponents round the Q powers.
Exponents == 0..(Q - 1)

\* What div and mod are.
LEMMA DivRest ==
  ASSUME NEW n \in Nat, NEW d \in Nat \ {0}
  PROVE  /\ n \div d \in Nat /\ n % d \in 0..(d - 1)
         /\ n = d * (n \div d) + (n % d)
OBVIOUS

\* One multiple of d less.
LEMMA Multiple ==
  ASSUME NEW d \in Nat, NEW q \in Nat, q >= 1
  PROVE  d * q \in Nat /\ d * q = d + d * (q - 1) /\ d * (q - 1) \in Nat
<1>1. q - 1 \in Nat
  OBVIOUS
<1>2. \A p \in Nat : d * p \in Nat /\ d * (p + 1) = d + d * p
  OBVIOUS
<1>3. d * (q - 1 + 1) = d + d * (q - 1) /\ q - 1 + 1 = q
  BY <1>1, <1>2
<1> QED  BY <1>1, <1>2, <1>3

\* Below d, a number is its own remainder, and once round it still is.
LEMMA ModRound ==
  ASSUME NEW n \in Nat, NEW d \in Nat \ {0}, n < d
  PROVE  n % d = n /\ (n + d) % d = n
<1>1. n % d = n
  <2> DEFINE q == n \div d
             r == n % d
  <2>1. q \in Nat /\ r \in 0..(d - 1) /\ n = d * q + r
    BY DivRest
  <2> HIDE DEF q, r
  <2>2. q = 0
    <3>1. SUFFICES ASSUME q >= 1 PROVE FALSE
      BY <2>1
    <3>2. d * q = d + d * (q - 1) /\ d * (q - 1) \in Nat
      BY <2>1, <3>1, Multiple
    <3> QED  BY <2>1, <3>2
  <2>3. d * q = 0
    BY <2>2
  <2>4. n = r
    BY <2>1, <2>3
  <2> QED  BY <2>4 DEF r
<1>2. (n + d) % d = n
  <2> DEFINE q == (n + d) \div d
             r == (n + d) % d
  <2>1. q \in Nat /\ r \in 0..(d - 1) /\ n + d = d * q + r
    BY DivRest
  <2> HIDE DEF q, r
  <2>2. q # 0
    <3>1. SUFFICES ASSUME q = 0 PROVE FALSE
      OBVIOUS
    <3>2. d * q = 0
      BY <3>1
    <3> QED  BY <2>1, <3>2
  <2>3. d * q = d + d * (q - 1) /\ q - 1 \in Nat /\ d * (q - 1) \in Nat
    BY <2>1, <2>2, Multiple
  <2>4. q - 1 = 0
    <3> DEFINE p == q - 1
               a == d * p
               b == d * (p - 1)
    <3>1. SUFFICES ASSUME ~(p = 0) PROVE FALSE
      OBVIOUS
    <3>2. p \in Nat /\ n + d = d + a + r
      BY <2>1, <2>3
    <3> HIDE DEF p
    <3>3. p >= 1
      BY <3>1, <3>2
    <3>4. a = d + b /\ b \in Nat
      BY <3>2, <3>3, Multiple
    <3> HIDE DEF a, b
    <3> QED  BY <2>1, <3>2, <3>4
  <2>5. d * (q - 1) = 0
    BY <2>4
  <2>6. n = r
    BY <2>1, <2>3, <2>5
  <2> QED  BY <2>6 DEF r
<1> QED  BY <1>1, <1>2

\* The sum of two exponents goes round at most once.
LEMMA AddExponents ==
  ASSUME NEW i \in Exponents, NEW j \in Exponents
  PROVE  /\ (i + j) % Q \in Exponents
         /\ (i + j) % Q = IF i + j < Q THEN i + j ELSE i + j - Q
<1>1. Q \in Nat \ {0} /\ i \in Nat /\ j \in Nat /\ i < Q /\ j < Q
  BY MaskGrows DEF Exponents
<1>2. (i + j) % Q \in 0..(Q - 1)
  BY <1>1, DivRest
<1>3. CASE i + j < Q
  <2>1. i + j \in Nat
    BY <1>1
  <2>2. (i + j) % Q = i + j
    BY <1>1, <1>3, <2>1, ModRound
  <2> QED  BY <1>2, <1>3, <2>2 DEF Exponents
<1>4. CASE ~(i + j < Q)
  <2> DEFINE e == i + j - Q
  <2>1. e \in Nat /\ e < Q /\ e + Q = i + j
    BY <1>1, <1>4
  <2> HIDE DEF e
  <2>2. (e + Q) % Q = e
    BY <1>1, <2>1, ModRound
  <2>3. (i + j) % Q = e
    BY <2>1, <2>2
  <2> QED  BY <1>2, <1>4, <2>3 DEF Exponents, e
<1> QED  BY <1>3, <1>4

\* The exponents and the elements but 0 are in correspondence.
LEMMA ExpLog ==
  /\ \A i \in Exponents : GfExp[i] \in GF \ {0} /\ GfLog[GfExp[i]] = i
  /\ \A x \in GF \ {0} : GfLog[x] \in Exponents /\ GfExp[GfLog[x]] = x
  /\ \A i, j \in Exponents : GfExp[i] = GfExp[j] => i = j
<1>1. Q \in Nat /\ Q >= 1 /\ GF \ {0} = 1..Q
  BY MaskGrows DEF GF
<1>2. {GfExp[i] : i \in Exponents} = 1..Q
  BY FecPrimitive DEF Primitive, Exponents
<1>3. GfExp \in [Exponents -> 1..Q]
  BY <1>2, GfExpSteps DEF Exponents
<1>4. GfExp \in Surjection(Exponents, 1..Q)
  BY <1>2, <1>3 DEF Surjection
<1>5. IsFiniteSet(Exponents) /\ Cardinality(Exponents) = Cardinality(1..Q)
  <2>1. 0 \in Int /\ Q - 1 \in Int /\ 1 \in Int /\ Q \in Int
    BY <1>1
  <2>2. /\ IsFiniteSet(0..(Q - 1)) /\ IsFiniteSet(1..Q)
        /\ Cardinality(0..(Q - 1)) = IF 0 > Q - 1 THEN 0 ELSE Q - 1 - 0 + 1
        /\ Cardinality(1..Q) = IF 1 > Q THEN 0 ELSE Q - 1 + 1
    BY <2>1, FS_Interval
  <2> QED  BY <1>1, <2>2 DEF Exponents
<1>6. GfExp \in Injection(Exponents, 1..Q)
  BY <1>4, <1>5, FS_Surjection
<1>7. \A i, j \in Exponents : GfExp[i] = GfExp[j] => i = j
  BY <1>6 DEF Injection, IsInjective
<1>8. ASSUME NEW x \in 1..Q
      PROVE  GfLog[x] \in Exponents /\ GfExp[GfLog[x]] = x
  <2>1. \E i \in Exponents : GfExp[i] = x
    BY <1>2
  <2>2. GfLog[x] = CHOOSE i \in Exponents : GfExp[i] = x
    BY DEF GfLog, Exponents
  <2> QED  BY <2>1, <2>2
<1>9. ASSUME NEW i \in Exponents
      PROVE  GfExp[i] \in 1..Q /\ GfLog[GfExp[i]] = i
  BY <1>3, <1>7, <1>8
<1> QED  BY <1>1, <1>7, <1>8, <1>9

\* After the last power comes the first.
LEMMA NextPowerRound ==
  ASSUME NEW i \in Exponents
  PROVE  NextPower(GfExp[i]) = GfExp[(i + 1) % Q]
<1>1. Q \in Nat \ {0} /\ i \in Nat /\ i < Q
  BY MaskGrows DEF Exponents
<1>2. CASE i + 1 < Q
  <2>1. i + 1 \in Nat /\ i \in 0..(Q - 2)
    BY <1>1, <1>2
  <2>2. (i + 1) % Q = i + 1
    BY <1>1, <1>2, <2>1, ModRound
  <2> QED  BY <2>1, <2>2, GfExpSteps
<1>3. CASE i + 1 = Q
  <2>1. (i + 1) % Q = 0
    <3>1. (0 + Q) % Q = 0
      BY <1>1, ModRound
    <3> QED  BY <1>1, <1>3, <3>1
  <2>2. GfExp[i] \in GF \ {0}
    BY ExpLog
  <2>3. NextPower(GfExp[i]) \in GF \ {0}
    BY <2>2, NextPowerLinear
  <2>4. PICK j \in Exponents : GfExp[j] = NextPower(GfExp[i])
    BY <2>3, ExpLog
  <2>5. j = 0
    <3>1. SUFFICES ASSUME j # 0 PROVE FALSE
      OBVIOUS
    <3>2. j - 1 \in 0..(Q - 2) /\ j - 1 \in Exponents /\ j - 1 + 1 = j
      BY <1>1, <3>1 DEF Exponents
    <3>3. GfExp[j] = NextPower(GfExp[j - 1])
      BY <3>2, GfExpSteps
    <3>31. NextPower(GfExp[j - 1]) = NextPower(GfExp[i])
      BY <2>4, <3>3
    <3>32. GfExp[j - 1] \in GF /\ GfExp[i] \in GF
      BY <2>2, <3>2, ExpLog
    <3>4. GfExp[j - 1] = GfExp[i]
      BY <3>31, <3>32, NextPowerInjective
    <3>5. j - 1 = i
      BY <3>2, <3>4, ExpLog
    <3> QED  BY <1>1, <1>3, <3>5 DEF Exponents
  <2> QED  BY <2>1, <2>4, <2>5
<1> QED  BY <1>1, <1>2, <1>3

-----------------------------------------------------------------------------
\* The product of two elements other than 0 adds their logarithms.
LEMMA MulLogs ==
  ASSUME NEW x \in GF \ {0}, NEW y \in GF \ {0}
  PROVE  /\ x (.) y \in GF \ {0} /\ x (.) y = GfExp[(GfLog[x] + GfLog[y]) % Q]
         /\ GfLog[x (.) y] = (GfLog[x] + GfLog[y]) % Q
<1>1. GfLog[x] \in Exponents /\ GfLog[y] \in Exponents
  BY ExpLog
<1>2. (GfLog[x] + GfLog[y]) % Q \in Exponents
  BY <1>1, AddExponents
<1>3. x (.) y = GfExp[(GfLog[x] + GfLog[y]) % Q]
  BY DEF (.), GfMul
<1> QED  BY <1>2, <1>3, ExpLog

\* 0 times anything is 0.
LEMMA MulZero ==
  ASSUME NEW x
  PROVE  0 (.) x = 0 /\ x (.) 0 = 0
BY DEF (.), GfMul

\* Multiplication is commutative and associative, with 1 as its identity; it
\* has no divisors of zero, and Inv inverts it.
LEMMA Mul ==
  /\ \A x, y \in GF : x (.) y \in GF /\ x (.) y = y (.) x
  /\ \A x \in GF : x (.) 1 = x /\ 1 (.) x = x
  /\ \A x, y \in GF : x (.) y = 0 => x = 0 \/ y = 0
  /\ \A x, y, z \in GF : (x (.) y) (.) z = x (.) (y (.) z)
  /\ \A x \in GF \ {0} : Inv[x] \in GF \ {0} /\ Inv[x] (.) x = 1
<1>1. Q \in Nat \ {0} /\ 0 \in GF /\ 1 \in GF /\ GF \ {0} = 1..Q
  BY MaskGrows DEF GF
<1>2. ASSUME NEW x \in GF, NEW y \in GF
      PROVE  x (.) y \in GF /\ x (.) y = y (.) x
  <2>1. CASE x = 0 \/ y = 0
    BY <1>1, <2>1, MulZero
  <2>2. CASE x # 0 /\ y # 0
    <3>1. GfLog[x] \in Nat /\ GfLog[y] \in Nat
      BY <2>2, ExpLog DEF Exponents
    <3>2. GfLog[x] + GfLog[y] = GfLog[y] + GfLog[x]
      BY <3>1
    <3> QED  BY <2>2, <3>2, MulLogs
  <2> QED  BY <2>1, <2>2
<1>3. GfLog[1] = 0
  <2>1. 0 \in Exponents
    BY <1>1 DEF Exponents
  <2> QED  BY <2>1, ExpLog, GfExpSteps
<1>4. ASSUME NEW x \in GF PROVE x (.) 1 = x /\ 1 (.) x = x
  <2>1. CASE x = 0
    BY <2>1, MulZero
  <2>2. CASE x # 0
    <3> DEFINE e == GfLog[x]
    <3>1. e \in Nat /\ e < Q /\ GfExp[e] = x
      BY <1>1, <2>2, ExpLog DEF Exponents
    <3>2. x (.) 1 = GfExp[(e + 0) % Q]
      BY <1>1, <1>3, <2>2, MulLogs
    <3> HIDE DEF e
    <3>3. (e + 0) % Q = e
      <4>1. e + 0 = e
        BY <3>1
      <4> QED  BY <1>1, <3>1, <4>1, ModRound
    <3> QED  BY <1>1, <1>2, <3>1, <3>2, <3>3
  <2> QED  BY <2>1, <2>2
<1>5. ASSUME NEW x \in GF, NEW y \in GF, x (.) y = 0 PROVE x = 0 \/ y = 0
  BY <1>5, MulLogs
<1>6. ASSUME NEW x \in GF, NEW y \in GF, NEW z \in GF
      PROVE  (x (.) y) (.) z = x (.) (y (.) z)
  <2>1. CASE x = 0 \/ y = 0 \/ z = 0
    BY <2>1, MulZero
  <2>2. CASE x # 0 /\ y # 0 /\ z # 0
    <3> DEFINE a == GfLog[x]
               b == GfLog[y]
               c == GfLog[z]
               s == (a + b) % Q
               t == (b + c) % Q
    <3>1. /\ (x (.) y) (.) z = GfExp[(s + c) % Q]
          /\ x (.) (y (.) z) = GfExp[(a + t) % Q]
      BY <2>2, MulLogs
    <3>2. a \in Exponents /\ b \in Exponents /\ c \in Exponents
      BY <2>2, ExpLog
    <3> HIDE DEF a, b, c
    <3>3. /\ s \in Exponents /\ s = IF a + b < Q THEN a + b ELSE a + b - Q
          /\ t \in Exponents /\ t = IF b + c < Q THEN b + c ELSE b + c - Q
      BY <3>2, AddExponents
    <3> HIDE DEF s, t
    <3>4. /\ (s + c) % Q = IF s + c < Q THEN s + c ELSE s + c - Q
          /\ (a + t) % Q = IF a + t < Q THEN a + t ELSE a + t - Q
      BY <3>2, <3>3, AddExponents
    <3>5. (s + c) % Q = (a + t) % Q
      BY <1>1, <3>2, <3>3, <3>4 DEF Exponents
    <3> QED  BY <3>1, <3>5
  <2> QED  BY <2>1, <2>2
<1>7. ASSUME NEW x \in GF \ {0}
      PROVE  Inv[x] \in GF \ {0} /\ Inv[x] (.) x = 1
  <2>1. CASE x = 1
    <3>1. Inv[x] = 1
      BY <1>1, <2>1 DEF Inv
    <3> QED  BY <1>1, <1>4, <2>1, <3>1
  <2>2. CASE x # 1
    <3> DEFINE e == GfLog[x]
    <3>1. e \in Exponents /\ GfExp[e] = x
      BY ExpLog
    <3>2. e # 0
      BY <2>2, <3>1, GfExpSteps
    <3>3. x \in Nat /\ ~(x <= 1)
      BY <1>1, <2>2 DEF GF
    <3>4. Inv[x] = GfExp[(Q - e) % Q]
      BY <3>3 DEF Inv
    <3> HIDE DEF e
    <3>5. Q - e \in Nat /\ Q - e < Q /\ e \in Nat
      BY <1>1, <3>1, <3>2 DEF Exponents
    <3>6. (Q - e) % Q = Q - e /\ Q - e \in Exponents
      BY <1>1, <3>5, ModRound DEF Exponents
    <3>7. Inv[x] \in GF \ {0} /\ GfLog[Inv[x]] = Q - e
      BY <3>4, <3>6, ExpLog
    <3>8. Inv[x] (.) x = GfExp[(Q - e + e) % Q]
      BY <3>7, MulLogs DEF e
    <3>9. (Q - e + e) % Q = 0
      <4>1. Q - e + e = 0 + Q
        BY <1>1, <3>5
      <4>2. (0 + Q) % Q = 0
        BY <1>1, ModRound
      <4> QED  BY <4>1, <4>2
    <3> QED  BY <3>7, <3>8, <3>9, GfExpSteps
  <2> QED  BY <2>1, <2>2
<1> QED  BY <1>2, <1>4, <1>5, <1>6, <1>7

\* To multiply by the power after i is to multiply by the power i and take
\* the next power of that.
LEMMA MulNext ==
  ASSUME NEW i \in 0..(Q - 2), NEW y \in GF
  PROVE  GfExp[i + 1] (.) y = NextPower(GfExp[i] (.) y)
<1>1. /\ Q \in Nat \ {0} /\ i \in Nat /\ i \in Exponents
      /\ i + 1 \in Exponents
  BY MaskGrows DEF Exponents
<1>2. CASE y = 0
  BY <1>2, MulZero, NextPowerLinear, Add
<1>3. CASE y # 0
  <2> DEFINE e == GfLog[y]
             s == (i + e) % Q
  <2>1. /\ GfExp[i] (.) y = GfExp[s]
        /\ GfExp[i + 1] (.) y = GfExp[(i + 1 + e) % Q]
    BY <1>1, <1>3, ExpLog, MulLogs
  <2>2. e \in Exponents
    BY <1>3, ExpLog
  <2> HIDE DEF e
  <2>3. s \in Exponents /\ s = IF i + e < Q THEN i + e ELSE i + e - Q
    BY <1>1, <2>2, AddExponents
  <2>4. (i + 1 + e) % Q = IF i + 1 + e < Q THEN i + 1 + e ELSE i + 1 + e - Q
    BY <1>1, <2>2, AddExponents
  <2> HIDE DEF s
  <2>5. (s + 1) % Q = (i + 1 + e) % Q
    <3>1. CASE Q = 1
      BY <1>1, <3>1
    <3>2. CASE Q > 1
      <4>1. 1 \in Exponents
        BY <1>1, <3>2 DEF Exponents
      <4>2. (s + 1) % Q = IF s + 1 < Q THEN s + 1 ELSE s + 1 - Q
        BY <2>3, <4>1, AddExponents
      <4> QED  BY <1>1, <2>2, <2>3, <2>4, <4>2 DEF Exponents
    <3> QED  BY <1>1, <3>1, <3>2
  <2> QED  BY <2>1, <2>3, <2>5, NextPowerRound
<1> QED  BY <1>2, <1>3

\* Multiplication distributes over addition.
LEMMA Distributive ==
  ASSUME NEW x \in GF, NEW y \in GF, NEW z \in GF
  PROVE  /\ x (.) (y (+) z) = (x (.) y) (+) (x (.) z)
         /\ (y (+) z) (.) x = (y (.) x) (+) (z (.) x)
<1> DEFINE Dist(c) == c (.) (y (+) z) = (c (.) y) (+) (c (.) z)
           S == {i \in Nat : i < Q => Dist(GfExp[i])}
<1>1. Q \in Nat \ {0} /\ y (+) z \in GF
  BY MaskGrows, Add
<1>2. 0 \in S
  BY <1>1, GfExpSteps, Mul
<1>3. ASSUME NEW i \in Nat, i \in S PROVE i + 1 \in S
  <2>1. SUFFICES ASSUME i + 1 < Q PROVE Dist(GfExp[i + 1])
    OBVIOUS
  <2>2. Dist(GfExp[i])
    BY <1>1, <1>3, <2>1
  <2>3. i \in 0..(Q - 2) /\ GfExp[i] \in GF
    BY <1>1, <2>1, GfExpSteps
  <2> DEFINE c == GfExp[i]
  <2>4. c (.) y \in GF /\ c (.) z \in GF
    BY <2>3, Mul
  <2>5. /\ GfExp[i + 1] (.) (y (+) z) = NextPower(c (.) (y (+) z))
        /\ GfExp[i + 1] (.) y = NextPower(c (.) y)
        /\ GfExp[i + 1] (.) z = NextPower(c (.) z)
    BY <1>1, <2>3, MulNext
  <2>6. NextPower((c (.) y) (+) (c (.) z))
          = NextPower(c (.) y) (+) NextPower(c (.) z)
    BY <2>4, NextPowerLinear
  <2> QED  BY <2>2, <2>5, <2>6
<1> HIDE DEF S
<1>4. \A i \in Nat : i \in S
  BY <1>2, <1>3, Induction
<1>5. Dist(x)
  <2>1. CASE x = 0
    BY <2>1, MulZero, Add
  <2>2. CASE x # 0
    <3>1. GfLog[x] \in Nat /\ GfLog[x] < Q /\ GfExp[GfLog[x]] = x
      BY <1>1, <2>2, ExpLog DEF Exponents
    <3>2. Dist(GfExp[GfLog[x]])
      BY <1>4, <3>1 DEF S
    <3> QED  BY <3>1, <3>2
  <2> QED  BY <2>1, <2>2
<1> QED  BY <1>1, <1>5, Mul

-----------------------------------------------------------------------------
\* Sums, again.

\* Equal terms have equal sums.
LEMMA SumSame ==
  ASSUME NEW k \in Nat, NEW f, NEW g, Terms(k, f),
         \A i \in Size(k) : g[i] = f[i]
  PROVE  XorSum(k, g) = XorSum(k, f) /\ Terms(k, g)
<1> DEFINE S == {j \in Nat : j <= k => XorSum(j, g) = XorSum(j, f)}
<1>1. Terms(k, g)
  BY DEF Terms
<1>2. /\ XorSum(0, f) = 0 /\ XorSum(0, g) = 0
      /\ \A j \in Size(k) : XorSum(j + 1, f) = XorSum(j, f) (+) f[j]
      /\ \A j \in Size(k) : XorSum(j + 1, g) = XorSum(j, g) (+) g[j]
  BY <1>1, SumStep
<1>3. 0 \in S
  BY <1>2
<1>4. ASSUME NEW j \in Nat, j \in S PROVE j + 1 \in S
  <2>1. SUFFICES ASSUME j + 1 <= k
                 PROVE  XorSum(j + 1, g) = XorSum(j + 1, f)
    OBVIOUS
  <2>2. j \in Size(k) /\ XorSum(j, g) = XorSum(j, f)
    BY <1>4, <2>1 DEF Size
  <2> HIDE DEF S
  <2> QED  BY <1>2, <2>2
<1> HIDE DEF S
<1>5. k \in S
  BY <1>3, <1>4, Induction
<1> QED  BY <1>1, <1>5 DEF S

\* A sum of sums.
LEMMA SumAdd ==
  ASSUME NEW k \in Nat, NEW f, NEW g, NEW h, Terms(k, f), Terms(k, g),
         \A i \in Size(k) : h[i] = f[i] (+) g[i]
  PROVE  XorSum(k, h) = XorSum(k, f) (+) XorSum(k, g) /\ Terms(k, h)
<1> DEFINE S == {j \in Nat : j <= k =>
                   XorSum(j, h) = XorSum(j, f) (+) XorSum(j, g)}
<1>1. Terms(k, h)
  BY Add DEF Terms
<1>2. /\ XorSum(0, f) = 0 /\ XorSum(0, g) = 0 /\ XorSum(0, h) = 0
      /\ \A j \in Size(k) : XorSum(j + 1, f) = XorSum(j, f) (+) f[j]
      /\ \A j \in Size(k) : XorSum(j + 1, g) = XorSum(j, g) (+) g[j]
      /\ \A j \in Size(k) : XorSum(j + 1, h) = XorSum(j, h) (+) h[j]
      /\ \A j \in Size(k) : XorSum(j, f) \in GF /\ XorSum(j, g) \in GF
  BY <1>1, SumStep
<1>3. 0 \in S
  BY <1>2, Add
<1>4. ASSUME NEW j \in Nat, j \in S PROVE j + 1 \in S
  <2>1. SUFFICES ASSUME j + 1 <= k
                 PROVE  XorSum(j + 1, h) =
                          XorSum(j + 1, f) (+) XorSum(j + 1, g)
    OBVIOUS
  <2>2. j \in Size(k) /\ XorSum(j, h) = XorSum(j, f) (+) XorSum(j, g)
    BY <1>4, <2>1 DEF Size
  <2> DEFINE F == XorSum(j, f)
             G == XorSum(j, g)
  <2>3. F \in GF /\ G \in GF /\ f[j] \in GF /\ g[j] \in GF
    BY <1>2, <2>2 DEF Terms
  <2>4. /\ XorSum(j + 1, f) = F (+) f[j] /\ XorSum(j + 1, g) = G (+) g[j]
        /\ XorSum(j + 1, h) = (F (+) G) (+) (f[j] (+) g[j])
    BY <1>2, <2>2
  <2> HIDE DEF F, G
  <2> QED  BY <2>3, <2>4, AddFour
<1> HIDE DEF S
<1>5. k \in S
  BY <1>3, <1>4, Induction
<1> QED  BY <1>1, <1>5 DEF S

\* A common factor.
LEMMA SumScale ==
  ASSUME NEW k \in Nat, NEW f, NEW h, NEW c \in GF, Terms(k, f),
         \A i \in Size(k) : h[i] = c (.) f[i]
  PROVE  XorSum(k, h) = c (.) XorSum(k, f) /\ Terms(k, h)
<1> DEFINE S == {j \in Nat : j <= k => XorSum(j, h) = c (.) XorSum(j, f)}
<1>1. Terms(k, h)
  <2>1. ASSUME NEW i \in Size(k) PROVE h[i] \in GF
    <3>1. f[i] \in GF /\ h[i] = c (.) f[i]
      BY DEF Terms
    <3> QED  BY <3>1, Mul
  <2> QED  BY <2>1 DEF Terms
<1>2. /\ XorSum(0, f) = 0 /\ XorSum(0, h) = 0
      /\ \A j \in Size(k) : XorSum(j + 1, f) = XorSum(j, f) (+) f[j]
      /\ \A j \in Size(k) : XorSum(j + 1, h) = XorSum(j, h) (+) h[j]
      /\ \A j \in Size(k) : XorSum(j, f) \in GF
  BY <1>1, SumStep
<1>3. 0 \in S
  BY <1>2, MulZero
<1>4. ASSUME NEW j \in Nat, j \in S PROVE j + 1 \in S
  <2>1. SUFFICES ASSUME j + 1 <= k
                 PROVE  XorSum(j + 1, h) = c (.) XorSum(j + 1, f)
    OBVIOUS
  <2>2. j \in Size(k) /\ XorSum(j, h) = c (.) XorSum(j, f)
    BY <1>4, <2>1 DEF Size
  <2>3. XorSum(j, f) \in GF /\ f[j] \in GF
    BY <1>2, <2>2 DEF Terms
  <2>4. c (.) (XorSum(j, f) (+) f[j]) = (c (.) XorSum(j, f)) (+) (c (.) f[j])
    BY <2>3, Distributive
  <2> HIDE DEF S
  <2> QED  BY <1>2, <2>2, <2>4
<1> HIDE DEF S
<1>5. k \in S
  BY <1>3, <1>4, Induction
<1> QED  BY <1>1, <1>5 DEF S

\* A sum with one term that counts.
LEMMA SumOne ==
  ASSUME NEW k \in Nat, NEW f, NEW p \in Size(k), f[p] \in GF,
         \A i \in Size(k) : i # p => f[i] = 0
  PROVE  XorSum(k, f) = f[p]
<1> DEFINE S == {j \in Nat : j <= k =>
                   XorSum(j, f) = IF p < j THEN f[p] ELSE 0}
<1>1. Terms(k, f)
  BY Add DEF Terms
<1>2. /\ XorSum(0, f) = 0 /\ p \in Nat /\ p < k
      /\ \A j \in Size(k) : XorSum(j + 1, f) = XorSum(j, f) (+) f[j]
  BY <1>1, SumStep DEF Size
<1>3. 0 \in S
  BY <1>2
<1>4. ASSUME NEW j \in Nat, j \in S PROVE j + 1 \in S
  <2>1. SUFFICES ASSUME j + 1 <= k
                 PROVE  XorSum(j + 1, f) = IF p < j + 1 THEN f[p] ELSE 0
    OBVIOUS
  <2>2. j \in Size(k) /\ XorSum(j, f) = IF p < j THEN f[p] ELSE 0
    BY <1>4, <2>1 DEF Size
  <2>3. XorSum(j + 1, f) = XorSum(j, f) (+) f[j]
    BY <1>2, <2>2
  <2> HIDE DEF S
  <2>4. CASE p < j
    BY <1>2, <2>2, <2>3, <2>4, Add
  <2>5. CASE p = j
    BY <1>2, <2>2, <2>3, <2>5, Add
  <2>6. CASE p > j
    BY <1>2, <2>2, <2>3, <2>6, Add
  <2> QED  BY <1>2, <2>4, <2>5, <2>6
<1> HIDE DEF S
<1>5. k \in S
  BY <1>3, <1>4, Induction
<1> QED  BY <1>2, <1>5 DEF S

\* A sum with no term that counts.
LEMMA SumNone ==
  ASSUME NEW k \in Nat, NEW f, \A i \in Size(k) : f[i] = 0
  PROVE  XorSum(k, f) = 0
<1> DEFINE S == {j \in Nat : j <= k => XorSum(j, f) = 0}
<1>1. Terms(k, f)
  BY Add DEF Terms
<1>2. /\ XorSum(0, f) = 0
      /\ \A j \in Size(k) : XorSum(j + 1, f) = XorSum(j, f) (+) f[j]
  BY <1>1, SumStep
<1>3. 0 \in S
  BY <1>2
<1>4. ASSUME NEW j \in Nat, j \in S PROVE j + 1 \in S
  BY <1>2, <1>4, Add DEF Size
<1> HIDE DEF S
<1>5. k \in S
  BY <1>3, <1>4, Induction
<1> QED  BY <1>5 DEF S

\* One term changed changes the sum by the difference.
LEMMA SumChange ==
  ASSUME NEW k \in Nat, NEW f, NEW g, NEW p \in Size(k),
         Terms(k, f), Terms(k, g),
         \A i \in Size(k) : i # p => g[i] = f[i]
  PROVE  XorSum(k, g) = XorSum(k, f) (+) (f[p] (+) g[p])
<1> DEFINE d == [i \in Size(k) |-> f[i] (+) g[i]]
<1>1. /\ f[p] \in GF /\ g[p] \in GF /\ XorSum(k, f) \in GF
      /\ XorSum(k, g) \in GF
  BY SumStep DEF Terms
<1>2. \A i \in Size(k) : i # p => d[i] = 0
  BY Add DEF Terms
<1>3. d[p] = f[p] (+) g[p] /\ d[p] \in GF
  BY <1>1, Add
<1>4. \A i \in Size(k) : d[i] = f[i] (+) g[i]
  OBVIOUS
<1> HIDE DEF d
<1>5. XorSum(k, d) = f[p] (+) g[p]
  BY <1>2, <1>3, SumOne
<1>6. XorSum(k, d) = XorSum(k, f) (+) XorSum(k, g)
  BY <1>4, SumAdd
<1> QED  BY <1>1, <1>5, <1>6, AddCancel

\* The order of two terms does not matter.
LEMMA SumSwap ==
  ASSUME NEW k \in Nat, NEW f, NEW g, NEW p \in Size(k), NEW q \in Size(k),
         Terms(k, f), g[p] = f[q], g[q] = f[p],
         \A i \in Size(k) : i # p /\ i # q => g[i] = f[i]
  PROVE  XorSum(k, g) = XorSum(k, f)
<1>1. Terms(k, g)
  BY DEF Terms
<1>2. CASE p = q
  BY <1>2, SumSame
<1>3. CASE p # q
  <2> DEFINE h == [i \in Size(k) |-> IF i = p THEN f[q] ELSE f[i]]
  <2>1. /\ Terms(k, h) /\ h[p] = f[q] /\ h[q] = f[q]
        /\ \A i \in Size(k) : i # p => h[i] = f[i]
        /\ \A i \in Size(k) : i # q => g[i] = h[i]
    BY <1>3 DEF Terms
  <2> HIDE DEF h
  <2>2. XorSum(k, h) = XorSum(k, f) (+) (f[p] (+) h[p])
    BY <2>1, SumChange
  <2>3. XorSum(k, g) = XorSum(k, h) (+) (h[q] (+) g[q])
    BY <1>1, <2>1, SumChange
  <2> DEFINE a == f[p]
             b == f[q]
             s == XorSum(k, f)
  <2>4. a \in GF /\ b \in GF /\ s \in GF
    BY SumStep DEF Terms
  <2>5. XorSum(k, g) = (s (+) (a (+) b)) (+) (b (+) a)
    BY <2>1, <2>2, <2>3
  <2> HIDE DEF a, b, s
  <2>6. a (+) b \in GF /\ b (+) a = a (+) b
    BY <2>4, Add
  <2>7. (s (+) (a (+) b)) (+) (a (+) b) = s
    BY <2>4, <2>6, AddCancel
  <2> QED  BY <2>5, <2>6, <2>7 DEF s
<1> QED  BY <1>2, <1>3

\* The first term by itself.
LEMMA SumShift ==
  ASSUME NEW k \in Nat, NEW f, NEW g, Terms(k + 1, f),
         \A i \in Size(k) : g[i] = f[i + 1]
  PROVE  /\ XorSum(k + 1, f) = f[0] (+) XorSum(k, g) /\ Terms(k, g)
         /\ f[0] \in GF /\ XorSum(k, g) \in GF
<1> DEFINE S == {j \in Nat :
                   j <= k => XorSum(j + 1, f) = f[0] (+) XorSum(j, g)}
<1>1. Terms(k, g)
  BY DEF Terms, Size
<1>2. /\ XorSum(0, f) = 0 /\ XorSum(0, g) = 0
      /\ \A j \in Size(k + 1) : XorSum(j + 1, f) = XorSum(j, f) (+) f[j]
      /\ \A j \in Size(k) : XorSum(j + 1, g) = XorSum(j, g) (+) g[j]
      /\ \A j \in Size(k) : XorSum(j, g) \in GF
      /\ XorSum(k, g) \in GF
  BY <1>1, SumStep
<1>3. f[0] \in GF /\ 0 \in Size(k + 1)
  BY DEF Terms, Size
<1>4. 0 \in S
  BY <1>2, <1>3, Add
<1>5. ASSUME NEW j \in Nat, j \in S PROVE j + 1 \in S
  <2>1. SUFFICES ASSUME j + 1 <= k
                 PROVE  XorSum(j + 1 + 1, f) = f[0] (+) XorSum(j + 1, g)
    OBVIOUS
  <2>2. /\ j \in Size(k) /\ j + 1 \in Size(k + 1)
        /\ XorSum(j + 1, f) = f[0] (+) XorSum(j, g)
    BY <1>5, <2>1 DEF Size
  <2>3. XorSum(j, g) \in GF /\ g[j] \in GF
    BY <1>1, <1>2, <2>2 DEF Terms
  <2>4. XorSum(j + 1 + 1, f) = (f[0] (+) XorSum(j, g)) (+) g[j]
    BY <1>2, <2>2
  <2>5. XorSum(j + 1, g) = XorSum(j, g) (+) g[j]
    BY <1>2, <2>2
  <2> HIDE DEF S
  <2> QED  BY <1>3, <2>3, <2>4, <2>5, Add
<1> HIDE DEF S
<1>6. k \in S
  BY <1>4, <1>5, Induction
<1> QED  BY <1>1, <1>2, <1>3, <1>6 DEF S

\* A double sum: row by row or column by column.
LEMMA SumExchange ==
  ASSUME NEW k \in Nat, NEW l \in Nat, NEW a,
         \A i \in Size(k) : Terms(l, a[i])
  PROVE  XorSum(k, [i \in Size(k) |-> XorSum(l, a[i])])
           = XorSum(l, [j \in Size(l) |->
                          XorSum(k, [i \in Size(k) |-> a[i][j]])])
<1> DEFINE row == [i \in Size(k) |-> XorSum(l, a[i])]
           column(j) == [i \in Size(k) |-> a[i][j]]
           part(n) == [j \in Size(l) |-> XorSum(n, column(j))]
           S == {n \in Nat : n <= k => XorSum(n, row) = XorSum(l, part(n))}
<1>1. Terms(k, row)
  <2>1. \A i \in Size(k) : XorSum(l, a[i]) \in GF
    BY SumStep
  <2> QED  BY <2>1 DEF Terms
<1>2. ASSUME NEW j \in Size(l) PROVE Terms(k, column(j))
  BY DEF Terms
<1>3. ASSUME NEW j \in Size(l)
      PROVE  /\ XorSum(0, column(j)) = 0 /\ XorSum(k, column(j)) \in GF
             /\ \A n \in Size(k) : XorSum(n, column(j)) \in GF
             /\ \A n \in Size(k) : XorSum(n + 1, column(j))
                                     = XorSum(n, column(j)) (+) a[n][j]
  <2> DEFINE c == column(j)
  <2>1. /\ XorSum(0, c) = 0 /\ XorSum(k, c) \in GF
        /\ \A n \in Size(k) : XorSum(n, c) \in GF
        /\ \A n \in Size(k) : XorSum(n + 1, c) = XorSum(n, c) (+) c[n]
    <3> HIDE DEF c
    <3>1. Terms(k, c)
      BY <1>2 DEF c
    <3> QED  BY <3>1, SumStep
  <2>2. \A n \in Size(k) : c[n] = a[n][j]
    OBVIOUS
  <2> QED  BY <2>1, <2>2
<1>4. /\ XorSum(0, row) = 0
      /\ \A n \in Size(k) : XorSum(n + 1, row) = XorSum(n, row) (+) row[n]
  <2> HIDE DEF row
  <2> QED  BY <1>1, SumStep
<1>5. 0 \in S
  <2>1. \A j \in Size(l) : part(0)[j] = 0
    BY <1>3
  <2>2. XorSum(l, part(0)) = 0
    BY <2>1, SumNone
  <2> QED  BY <1>4, <2>2
<1>6. ASSUME NEW n \in Nat, n \in S PROVE n + 1 \in S
  <2>1. SUFFICES ASSUME n + 1 <= k
                 PROVE  XorSum(n + 1, row) = XorSum(l, part(n + 1))
    OBVIOUS
  <2>2. n \in Size(k) /\ XorSum(n, row) = XorSum(l, part(n))
    BY <1>6, <2>1 DEF Size
  <2> DEFINE f == part(n)
             h == part(n + 1)
             g == a[n]
  <2>3. Terms(l, f) /\ Terms(l, g)
    BY <1>3, <2>2 DEF Terms
  <2>4. \A j \in Size(l) : h[j] = f[j] (+) g[j]
    BY <1>3, <2>2
  <2>5. row[n] = XorSum(l, g)
    BY <2>2
  <2>6. XorSum(n, row) = XorSum(l, f)
    BY <2>2
  <2> HIDE DEF f, g, h, S
  <2>7. XorSum(l, h) = XorSum(l, f) (+) XorSum(l, g)
    BY <2>3, <2>4, SumAdd
  <2> HIDE DEF row
  <2>8. XorSum(n + 1, row) = XorSum(l, f) (+) XorSum(l, g)
    BY <1>4, <2>2, <2>5, <2>6
  <2> QED  BY <2>7, <2>8 DEF h
<1>7. \A n \in Nat : n \in S
  <2> HIDE DEF S
  <2> QED  BY <1>5, <1>6, Induction
<1>8. XorSum(k, row) = XorSum(l, part(k))
  BY <1>7
<1> QED  BY <1>8

-----------------------------------------------------------------------------
\* Polynomials: division, roots and values.

\* The product of a row and a column is an element; one more place adds the
\* product of what stands there.
LEMMA DotStep ==
  ASSUME NEW k \in Nat, NEW r, NEW c, Terms(k, r), Terms(k, c)
  PROVE  /\ Dot(k, r, c) \in GF /\ Dot(0, r, c) = 0
         /\ \A j \in Size(k) : Dot(j, r, c) \in GF
         /\ \A j \in Size(k) :
              Dot(j + 1, r, c) = Dot(j, r, c) (+) (r[j] (.) c[j])
<1> DEFINE f(n) == [i \in Size(n) |-> r[i] (.) c[i]]
<1>1. Terms(k, f(k))
  <2>1. ASSUME NEW i \in Size(k) PROVE r[i] (.) c[i] \in GF
    BY Mul DEF Terms
  <2> QED  BY <2>1 DEF Terms
<1>2. ASSUME NEW n \in 0..k PROVE Dot(n, r, c) = XorSum(n, f(k))
  <2> DEFINE g == f(n)
             h == f(k)
  <2>1. n \in Nat /\ \A i \in Size(n) : i \in Size(k)
    BY DEF Size
  <2>2. Terms(n, h) /\ \A i \in Size(n) : g[i] = h[i]
    BY <1>1, <2>1 DEF Terms
  <2>3. XorSum(n, g) = XorSum(n, h)
    <3> HIDE DEF g, h
    <3> QED  BY <2>1, <2>2, SumSame
  <2> QED  BY <2>3 DEF Dot
<1>3. /\ XorSum(k, f(k)) \in GF /\ XorSum(0, f(k)) = 0
      /\ \A j \in Size(k) : XorSum(j, f(k)) \in GF
      /\ \A j \in Size(k) : XorSum(j + 1, f(k)) = XorSum(j, f(k)) (+) f(k)[j]
  <2> HIDE DEF f
  <2> QED  BY <1>1, SumStep
<1>4. \A j \in Size(k) : j \in 0..k /\ j + 1 \in 0..k
  BY DEF Size
<1>5. Dot(k, r, c) \in GF /\ Dot(0, r, c) = 0
  <2> HIDE DEF f
  <2> QED  BY <1>2, <1>3
<1>6. \A j \in Size(k) : f(k)[j] = r[j] (.) c[j]
  OBVIOUS
<1>7. ASSUME NEW j \in Size(k)
      PROVE  /\ Dot(j, r, c) \in GF
             /\ Dot(j + 1, r, c) = Dot(j, r, c) (+) (r[j] (.) c[j])
  <2> HIDE DEF f
  <2> QED  BY <1>2, <1>3, <1>4, <1>6
<1> QED  BY <1>5, <1>7

\* The first k powers of x.
Powers(k, x, v) ==
  /\ Terms(k, v) /\ (k > 0 => v[0] = 1)
  /\ \A j \in Size(k - 1) : v[j + 1] = x (.) v[j]

\* b is the quotient of the polynomial g by x - a, synthetic division as the
\* code does it, lowest coefficient first.
Quotient(n, g, a, b) ==
  /\ Terms(n + 1, g) /\ Terms(n, b) /\ b[n - 1] = g[n]
  /\ \A i \in Size(n - 1) : b[i] = g[i + 1] (+) (a (.) b[i + 1])

\* What a step of the division starts from.
CarryIn(x, a, s, t, r, b1, g, v0) ==
  ((x (+) a) (.) s) (+) t = ((g (+) (a (.) b1)) (.) v0) (+) r

\* What the step makes of it.
CarryOut(x, a, s, t, r, b1, g, v0) ==
  ((x (+) a) (.) (s (+) (b1 (.) v0))) (+) (t (+) (g (.) v0))
    = (b1 (.) (x (.) v0)) (+) r

\* A step of the division: one coefficient more.
LEMMA DivisionStep ==
  ASSUME NEW x \in GF, NEW a \in GF, NEW s \in GF, NEW t \in GF, NEW r \in GF,
         NEW b1 \in GF, NEW g \in GF, NEW v0 \in GF,
         CarryIn(x, a, s, t, r, b1, g, v0)
  PROVE  CarryOut(x, a, s, t, r, b1, g, v0)
<1> DEFINE b0 == g (+) (a (.) b1)
           y == b1 (.) v0
           c == (x (+) a) (.) s
           e == x (.) y
           f == a (.) y
           h == g (.) v0
           u == b0 (.) v0
<1>0. b0 \in GF
  BY Add, Mul
<1>1. /\ y \in GF /\ x (+) a \in GF /\ c \in GF /\ e \in GF
      /\ f \in GF /\ h \in GF /\ u \in GF
  BY <1>0, Add, Mul
<1>2. (x (+) a) (.) (s (+) y) = c (+) (e (+) f)
  BY <1>1, Distributive
<1>3. u = h (+) f
  <2>1. a (.) b1 \in GF
    BY Mul
  <2>2. u = (g (.) v0) (+) ((a (.) b1) (.) v0)
    BY <2>1, Distributive
  <2>3. (a (.) b1) (.) v0 = f
    BY Mul
  <2> QED  BY <2>2, <2>3
<1>4. b1 (.) (x (.) v0) = e
  <2>1. b1 (.) (x (.) v0) = (b1 (.) x) (.) v0 /\ b1 (.) x = x (.) b1
    BY Mul
  <2>2. (x (.) b1) (.) v0 = e
    BY Mul
  <2> QED  BY <2>1, <2>2
<1>5. c (+) t = u (+) r
  BY DEF CarryIn
<1> HIDE DEF y, c, e, f, h, u
<1>6. (c (+) (e (+) f)) (+) (t (+) h) = e (+) r
  <2>1. (c (+) (e (+) f)) (+) (t (+) h) = (c (+) t) (+) ((e (+) f) (+) h)
    <3> DEFINE d == e (+) f
    <3>1. d \in GF
      BY <1>1, Add
    <3> HIDE DEF d
    <3> QED  BY <1>1, <3>1, AddFour DEF d
  <2>2. (e (+) f) (+) h = e (+) u
    BY <1>1, <1>3, Add
  <2>3. (u (+) r) (+) (e (+) u) = (u (+) u) (+) (r (+) e)
    <3>1. e (+) u = u (+) e
      BY <1>1, Add
    <3> QED  BY <1>1, <3>1, AddFour
  <2>4. (u (+) u) (+) (r (+) e) = e (+) r
    BY <1>1, Add
  <2> QED  BY <1>5, <2>1, <2>2, <2>3, <2>4
<1> QED  BY <1>2, <1>4, <1>6 DEF y, h, CarryOut

\* The quotient times x - a is the polynomial less the remainder.
LEMMA Division ==
  ASSUME NEW n \in Nat, n >= 1, NEW g, NEW a \in GF, NEW b, NEW x \in GF,
         NEW v, Quotient(n, g, a, b), Powers(n + 1, x, v)
  PROVE  /\ (x (+) a) (.) Dot(n, b, v)
              = Dot(n + 1, g, v) (+) (g[0] (+) (a (.) b[0]))
         /\ g[0] (+) (a (.) b[0]) \in GF
         /\ Dot(n, b, v) \in GF /\ Dot(n + 1, g, v) \in GF
<1> DEFINE r == g[0] (+) (a (.) b[0])
           P(l) == ((x (+) a) (.) Dot(l, b, v)) (+) Dot(l, g, v)
           S == {l \in Nat : l < n => P(l + 1) = (b[l] (.) v[l + 1]) (+) r}
<1>1. /\ Terms(n + 1, g) /\ Terms(n, b) /\ Terms(n + 1, v) /\ Terms(n, v)
      /\ Terms(n, g) /\ v[0] = 1 /\ b[n - 1] = g[n]
      /\ \A j \in Size(n) : v[j + 1] = x (.) v[j]
      /\ \A i \in Size(n - 1) : b[i] = g[i + 1] (+) (a (.) b[i + 1])
  BY DEF Quotient, Powers, Terms, Size
<1>2. /\ Dot(n, b, v) \in GF /\ Dot(0, b, v) = 0
      /\ \A j \in Size(n) : Dot(j, b, v) \in GF
      /\ \A j \in Size(n) : Dot(j + 1, b, v) = Dot(j, b, v) (+) (b[j] (.) v[j])
  <2> HIDE DEF S, P, r
  <2>1. Terms(n, b) /\ Terms(n, v)
    BY <1>1
  <2> QED  BY <2>1, DotStep
<1>3. /\ Dot(n, g, v) \in GF /\ Dot(n + 1, g, v) \in GF /\ Dot(0, g, v) = 0
      /\ \A j \in Size(n + 1) : Dot(j, g, v) \in GF
      /\ \A j \in Size(n + 1) : Dot(j + 1, g, v)
                                  = Dot(j, g, v) (+) (g[j] (.) v[j])
  <2> HIDE DEF S, P, r
  <2> DEFINE N == n + 1
  <2>1. N \in Nat /\ n \in Size(N) /\ n + 1 = N
    BY DEF Size
  <2>2. Terms(N, g) /\ Terms(N, v)
    BY <1>1
  <2> HIDE DEF N
  <2>3. /\ Dot(N, g, v) \in GF /\ Dot(0, g, v) = 0
        /\ \A j \in Size(N) : Dot(j, g, v) \in GF
        /\ \A j \in Size(N) : Dot(j + 1, g, v)
                                = Dot(j, g, v) (+) (g[j] (.) v[j])
    BY <2>1, <2>2, DotStep
  <2> QED  BY <2>1, <2>3
<1>4. /\ g[0] \in GF /\ b[0] \in GF /\ r \in GF /\ x (+) a \in GF
      /\ a (.) b[0] \in GF /\ 0 \in Size(n) /\ 0 \in Size(n + 1)
  <2>1. 0 \in Size(n) /\ 0 \in Size(n + 1)
    BY DEF Size
  <2>2. g[0] \in GF /\ b[0] \in GF
    BY <1>1, <2>1 DEF Terms
  <2> QED  BY <2>1, <2>2, Add, Mul
<1>5. 0 \in S
  <2>1. Dot(0 + 1, b, v) = 0 (+) (b[0] (.) 1)
    BY <1>1, <1>2, <1>4
  <2>2. Dot(0 + 1, g, v) = 0 (+) (g[0] (.) 1)
    BY <1>1, <1>3, <1>4
  <2>3. Dot(0 + 1, b, v) = b[0] /\ Dot(0 + 1, g, v) = g[0]
    BY <1>4, <2>1, <2>2, Add, Mul
  <2>4. v[0 + 1] = x
    <3>1. v[0 + 1] = x (.) v[0] /\ v[0] = 1
      BY <1>1, <1>4
    <3>2. x (.) 1 = x
      BY Mul
    <3> QED  BY <3>1, <3>2
  <2> DEFINE b0 == b[0]
             g0 == g[0]
             ab == a (.) b0
  <2>5. /\ b0 \in GF /\ g0 \in GF /\ ab \in GF
        /\ b0 (.) x \in GF /\ b0 (.) x = x (.) b0
    BY <1>4, Mul
  <2>6. (x (+) a) (.) b0 = (x (.) b0) (+) ab
    BY <2>5, Distributive
  <2>7. ((x (.) b0) (+) ab) (+) g0 = (b0 (.) x) (+) (g0 (+) ab)
    <3> DEFINE z == b0 (.) x
    <3>1. z \in GF /\ x (.) b0 = z
      BY <2>5
    <3> HIDE DEF b0, g0, ab, z
    <3>2. (z (+) ab) (+) g0 = z (+) (g0 (+) ab)
      BY <2>5, <3>1, Add
    <3> QED  BY <3>1, <3>2 DEF z
  <2> QED  BY <2>3, <2>4, <2>6, <2>7
<1>6. ASSUME NEW l \in Nat, l \in S PROVE l + 1 \in S
  <2>1. SUFFICES ASSUME l + 1 < n
                 PROVE  P(l + 1 + 1) = (b[l + 1] (.) v[l + 1 + 1]) (+) r
    OBVIOUS
  <2>2. /\ l \in Size(n - 1) /\ l + 1 \in Size(n) /\ l \in Size(n)
        /\ l + 1 \in Size(n + 1)
    BY <2>1 DEF Size
  <2>3. P(l + 1) = (b[l] (.) v[l + 1]) (+) r
    BY <1>6, <2>1
  <2>4. /\ b[l] = g[l + 1] (+) (a (.) b[l + 1])
        /\ v[l + 1 + 1] = x (.) v[l + 1]
    BY <1>1, <2>2
  <2>5. /\ Dot(l + 1 + 1, b, v) = Dot(l + 1, b, v) (+) (b[l + 1] (.) v[l + 1])
        /\ Dot(l + 1 + 1, g, v) = Dot(l + 1, g, v) (+) (g[l + 1] (.) v[l + 1])
    BY <1>2, <1>3, <2>2
  <2>6. /\ b[l] \in GF /\ b[l + 1] \in GF /\ g[l + 1] \in GF /\ v[l + 1] \in GF
        /\ Dot(l + 1, b, v) \in GF /\ Dot(l + 1, g, v) \in GF
    BY <1>1, <1>2, <1>3, <2>2 DEF Terms
  <2> DEFINE s == Dot(l + 1, b, v)
             t == Dot(l + 1, g, v)
  <2>7. ((x (+) a) (.) s) (+) t = (b[l] (.) v[l + 1]) (+) r
    BY <2>3
  <2> HIDE DEF s, t, S, r
  <2>8. ((x (+) a) (.) (s (+) (b[l + 1] (.) v[l + 1])))
           (+) (t (+) (g[l + 1] (.) v[l + 1]))
          = (b[l + 1] (.) (x (.) v[l + 1])) (+) r
    <3> DEFINE b0 == b[l]
               b1 == b[l + 1]
               g1 == g[l + 1]
               v1 == v[l + 1]
    <3>1. /\ b0 \in GF /\ b1 \in GF /\ g1 \in GF /\ v1 \in GF
          /\ s \in GF /\ t \in GF /\ r \in GF
      BY <1>4, <2>6 DEF s, t
    <3>2. CarryIn(x, a, s, t, r, b1, g1, v1)
      BY <2>4, <2>7 DEF CarryIn
    <3> HIDE DEF b0, b1, g1, v1
    <3>3. CarryOut(x, a, s, t, r, b1, g1, v1)
      BY <3>1, <3>2, DivisionStep
    <3> QED  BY <3>3 DEF b1, g1, v1, CarryOut
  <2> QED  BY <2>4, <2>5, <2>8 DEF s, t
<1>7. \A l \in Nat : l \in S
  <2> HIDE DEF S
  <2> QED  BY <1>5, <1>6, Induction
<1>8. P(n) = (g[n] (.) v[n]) (+) r
  <2>1. n - 1 \in Nat /\ n - 1 < n /\ n - 1 + 1 = n
    OBVIOUS
  <2>2. P(n - 1 + 1) = (b[n - 1] (.) v[n - 1 + 1]) (+) r
    BY <1>7, <2>1
  <2> QED  BY <1>1, <2>1, <2>2
<1> DEFINE B == (x (+) a) (.) Dot(n, b, v)
           G == Dot(n, g, v)
           z == g[n] (.) v[n]
<1>9. B \in GF /\ G \in GF /\ z \in GF /\ Dot(n + 1, g, v) = G (+) z
  <2>1. n \in Size(n + 1)
    BY DEF Size
  <2>2. g[n] \in GF /\ v[n] \in GF
    BY <1>1, <2>1 DEF Terms
  <2> QED  BY <1>2, <1>3, <1>4, <2>1, <2>2, Mul
<1>10. B (+) G = z (+) r
  BY <1>8
<1>11. r \in GF
  BY <1>4
<1> HIDE DEF B, G, z, r
<1>12. B = (G (+) z) (+) r
  <2>1. B = (B (+) G) (+) G
    BY <1>9, AddCancel
  <2> QED  BY <1>9, <1>10, <1>11, <2>1, Add
<1> QED  BY <1>2, <1>3, <1>4, <1>9, <1>12 DEF B, r

\* The remainder of a division is the value of the polynomial at a.
LEMMA Remainder ==
  ASSUME NEW n \in Nat, n >= 1, NEW g, NEW a \in GF, NEW b, NEW v,
         Quotient(n, g, a, b), Powers(n + 1, a, v)
  PROVE  Dot(n + 1, g, v) = g[0] (+) (a (.) b[0])
<1> DEFINE G == Dot(n + 1, g, v)
           B == Dot(n, b, v)
           r == g[0] (+) (a (.) b[0])
<1>1. (a (+) a) (.) B = G (+) r /\ r \in GF /\ B \in GF /\ G \in GF
  BY Division
<1>2. a (+) a = 0
  BY Add
<1> HIDE DEF G, B, r
<1>3. G (+) r = 0
  BY <1>1, <1>2, MulZero
<1>4. G = r
  BY <1>1, <1>3, AddCancel
<1> QED  BY <1>4 DEF G, r

\* Every polynomial has its quotients.
LEMMA QuotientExists ==
  ASSUME NEW n \in Nat, n >= 1, NEW g, NEW a \in GF, Terms(n + 1, g)
  PROVE  \E b : Quotient(n, g, a, b)
<1> DEFINE Step == [i \in Nat |-> [c \in GF |->
                      IF i \in Size(n - 1) THEN g[i + 1] (+) (a (.) c) ELSE c]]
<1>1. ASSUME NEW i \in Nat, NEW c \in GF
      PROVE  (IF i \in Size(n - 1) THEN g[i + 1] (+) (a (.) c) ELSE c) \in GF
  <2>1. CASE i \in Size(n - 1)
    <3>1. i + 1 \in Size(n + 1)
      BY <2>1 DEF Size
    <3>2. g[i + 1] \in GF /\ a (.) c \in GF
      BY <3>1, Mul DEF Terms
    <3> QED  BY <2>1, <3>2, Add
  <2> QED  BY <2>1
<1>2. Step \in [Nat -> [GF -> GF]]
  BY <1>1
<1>3. g[n] \in GF
  BY DEF Terms, Size
<1>4. n - 1 \in Nat
  OBVIOUS
<1>5. PICK b : RecursDown(GF, n - 1, g[n], Step, b)
  <2> HIDE DEF Step
  <2> QED  BY <1>2, <1>3, <1>4, RecursionDown
<1>6. b \in [0..(n - 1) -> GF] /\ b[n - 1] = g[n]
  BY <1>5 DEF RecursDown
<1>7. ASSUME NEW i \in Size(n - 1) PROVE b[i] = g[i + 1] (+) (a (.) b[i + 1])
  <2>1. i \in 0..(n - 1 - 1) /\ i \in Nat /\ i + 1 \in 0..(n - 1)
    BY DEF Size
  <2>2. b[i + 1] \in GF
    BY <1>6, <2>1
  <2>3. b[i] = Step[i][b[i + 1]]
    BY <1>5, <2>1 DEF RecursDown
  <2> QED  BY <2>1, <2>2, <2>3
<1>8. Quotient(n, g, a, b)
  BY <1>6, <1>7 DEF Quotient, Terms, Size
<1> QED  BY <1>8

\* The polynomial w of n coefficients is 0 at the n points q, all different;
\* V has their powers.
Vanishes(n, w, q, V) ==
  /\ Terms(n, w) /\ Terms(n, q)
  /\ \A i, j \in Size(n) : q[i] = q[j] => i = j
  /\ \A i \in Size(n) : Powers(n, q[i], V[i]) /\ Dot(n, w, V[i]) = 0

\* A polynomial with as many roots as coefficients is 0.
LEMMA Roots ==
  ASSUME NEW k \in Nat, NEW w, NEW q, NEW V, Vanishes(k, w, q, V)
  PROVE  \A j \in Size(k) : w[j] = 0
<1> DEFINE Null(n, f) == \A j \in Size(n) : f[j] = 0
           S == {n \in Nat : \A u : Vanishes(n, u, q, V) => Null(n, u)}
<1>1. 0 \in S
  BY DEF Size
<1>2. ASSUME NEW n \in Nat, n \in S PROVE n + 1 \in S
  <2>1. SUFFICES ASSUME NEW u, Vanishes(n + 1, u, q, V)
                 PROVE  Null(n + 1, u)
    OBVIOUS
  <2>2. /\ Terms(n + 1, u) /\ Terms(n + 1, q)
        /\ \A i, j \in Size(n + 1) : q[i] = q[j] => i = j
        /\ \A i \in Size(n + 1) :
             Powers(n + 1, q[i], V[i]) /\ Dot(n + 1, u, V[i]) = 0
    BY <2>1 DEF Vanishes
  <2>3. CASE n = 0
    <3>1. Size(n + 1) = {0} /\ 0 \in Size(n + 1)
      BY <2>3 DEF Size
    <3> DEFINE v == V[0]
    <3>2. v[0] = 1 /\ Terms(n + 1, v) /\ Dot(n + 1, u, v) = 0 /\ u[0] \in GF
      BY <2>2, <3>1 DEF Powers, Terms
    <3>3. Dot(0 + 1, u, v) = Dot(0, u, v) (+) (u[0] (.) v[0])
          /\ Dot(0, u, v) = 0
      <4> HIDE DEF v, S
      <4>1. 1 \in Nat /\ 0 \in Size(1) /\ Terms(1, u) /\ Terms(1, v)
        BY <2>2, <2>3, <3>1, <3>2
      <4> QED  BY <4>1, DotStep
    <3>4. u[0] = 0
      <4>1. u[0] (.) 1 = u[0] /\ 0 (+) u[0] = u[0]
        BY <3>2, Mul, Add
      <4> QED  BY <2>3, <3>2, <3>3, <4>1
    <3> QED  BY <3>1, <3>4
  <2>4. CASE n # 0
    <3> DEFINE a == q[n]
    <3>1. /\ n >= 1 /\ n \in Size(n + 1) /\ a \in GF /\ 0 \in Size(n + 1)
          /\ \A i \in Size(n) : i \in Size(n + 1) /\ i # n
      BY <2>2, <2>4 DEF Size, Terms
    <3>2. PICK b : Quotient(n, u, a, b)
      BY <2>2, <3>1, QuotientExists
    <3> DEFINE r == u[0] (+) (a (.) b[0])
    <3>3. r = 0
      <4>1. Powers(n + 1, a, V[n]) /\ Dot(n + 1, u, V[n]) = 0
        BY <2>2, <3>1
      <4>2. Dot(n + 1, u, V[n]) = r
        <5> HIDE DEF S
        <5> QED  BY <3>1, <3>2, <4>1, Remainder
      <4> QED  BY <4>1, <4>2
    <3>4. ASSUME NEW i \in Size(n) PROVE Dot(n, b, V[i]) = 0
      <4> DEFINE x == q[i]
                 v == V[i]
      <4>1. Powers(n + 1, x, v) /\ Dot(n + 1, u, v) = 0 /\ x \in GF /\ x # a
        BY <2>2, <3>1 DEF Terms
      <4>2. /\ (x (+) a) (.) Dot(n, b, v) = Dot(n + 1, u, v) (+) r
            /\ Dot(n, b, v) \in GF
        <5> HIDE DEF S, x, v
        <5> QED  BY <3>1, <3>2, <4>1, Division
      <4>3. (x (+) a) (.) Dot(n, b, v) = 0
        BY <3>3, <4>1, <4>2, Add
      <4>4. x (+) a \in GF /\ x (+) a # 0
        BY <3>1, <4>1, Add, AddCancel
      <4> QED  BY <4>2, <4>3, <4>4, Mul
    <3>5. Vanishes(n, b, q, V)
      <4>1. Terms(n, b) /\ Terms(n, q)
        BY <2>2, <3>1, <3>2 DEF Quotient, Terms
      <4>2. ASSUME NEW i \in Size(n) PROVE Powers(n, q[i], V[i])
        <5>1. Powers(n + 1, q[i], V[i])
          BY <2>2, <3>1
        <5> QED  BY <3>1, <5>1 DEF Powers, Terms, Size
      <4> QED  BY <2>2, <3>1, <3>4, <4>1, <4>2 DEF Vanishes
    <3>6. Null(n, b)
      BY <1>2, <3>5
    <3>7. /\ b[n - 1] = u[n] /\ b[n - 1] = 0 /\ b[0] = 0
          /\ \A i \in Size(n - 1) : b[i] = u[i + 1] (+) (a (.) b[i + 1])
          /\ \A i \in Size(n - 1) : b[i] = 0 /\ b[i + 1] = 0
      BY <3>1, <3>2, <3>6 DEF Quotient, Size
    <3>8. u[0] = 0
      <4>1. u[0] \in GF /\ a (.) 0 = 0
        BY <2>2, <3>1, MulZero DEF Terms
      <4>2. r = u[0]
        BY <3>7, <4>1, Add
      <4> QED  BY <3>3, <4>2
    <3>9. ASSUME NEW i \in Size(n - 1) PROVE u[i + 1] = 0
      <4>1. u[i + 1] \in GF
        BY <2>2 DEF Terms, Size
      <4>2. 0 = u[i + 1] (+) (a (.) 0)
        BY <3>7
      <4>3. a (.) 0 = 0
        BY MulZero
      <4> QED  BY <4>1, <4>2, <4>3, Add
    <3>10. ASSUME NEW j \in Size(n + 1) PROVE u[j] = 0
      <4>1. j = 0 \/ j = n \/ (j - 1 \in Size(n - 1) /\ j - 1 + 1 = j)
        BY DEF Size
      <4>2. CASE j - 1 \in Size(n - 1) /\ j - 1 + 1 = j
        BY <3>9, <4>2
      <4> QED  BY <3>7, <3>8, <4>1, <4>2
    <3> QED  BY <3>10
  <2> QED  BY <2>3, <2>4
<1>3. k \in S
  <2> HIDE DEF S
  <2> QED  BY <1>1, <1>2, Induction
<1>4. Null(k, w)
  BY <1>3
<1> QED  BY <1>4

\* The value of a polynomial of k coefficients, as the code takes it: f
\* starts at the highest and multiplies downwards.
Horner(k, b, x, f) ==
  /\ Terms(k, b) /\ Terms(k, f) /\ f[k - 1] = b[k - 1]
  /\ \A i \in Size(k - 1) : f[i] = (x (.) f[i + 1]) (+) b[i]

\* The value is the product of the coefficients and the powers of x.
LEMMA HornerValue ==
  ASSUME NEW k \in Nat, k >= 2, NEW b, NEW x \in GF, NEW f, NEW v,
         Horner(k, b, x, f), Powers(k, x, v)
  PROVE  f[0] = Dot(k, b, v)
<1> DEFINE n == k - 1
           c == [i \in Size(n) |-> f[i + 1]]
<1>1. /\ Terms(k, b) /\ Terms(k, f) /\ f[k - 1] = b[k - 1]
      /\ \A i \in Size(k - 1) : f[i] = (x (.) f[i + 1]) (+) b[i]
  BY DEF Horner
<1>2. n \in Nat /\ n >= 1 /\ n + 1 = k
  OBVIOUS
<1>3. Terms(n, c)
  BY <1>1 DEF Terms, Size
<1>4. c[n - 1] = b[n]
  <2>1. n - 1 \in Size(n) /\ n - 1 + 1 = n
    BY <1>2 DEF Size
  <2> QED  BY <1>1, <2>1
<1>5. ASSUME NEW i \in Size(n - 1) PROVE c[i] = b[i + 1] (+) (x (.) c[i + 1])
  <2>1. i \in Size(n) /\ i + 1 \in Size(n) /\ i + 1 + 1 \in Size(k)
        /\ i + 1 \in Size(k - 1) /\ i + 1 \in Size(k)
    BY DEF Size
  <2>2. c[i] = f[i + 1] /\ c[i + 1] = f[i + 1 + 1]
    BY <2>1
  <2>3. f[i + 1] = (x (.) f[i + 1 + 1]) (+) b[i + 1]
    BY <1>1, <2>1
  <2>4. f[i + 1 + 1] \in GF /\ b[i + 1] \in GF
    BY <1>1, <2>1 DEF Terms
  <2>5. x (.) f[i + 1 + 1] \in GF
    BY <2>4, Mul
  <2> QED  BY <2>2, <2>3, <2>4, <2>5, Add
<1>6. Quotient(n, b, x, c)
  BY <1>1, <1>2, <1>3, <1>4, <1>5 DEF Quotient
<1>7. Dot(k, b, v) = b[0] (+) (x (.) c[0])
  <2> HIDE DEF n, c
  <2>1. Powers(n + 1, x, v)
    BY <1>2
  <2>2. Dot(n + 1, b, v) = b[0] (+) (x (.) c[0])
    BY <1>2, <1>6, <2>1, Remainder
  <2> QED  BY <1>2, <2>2
<1>8. f[0] = (x (.) f[1]) (+) b[0] /\ c[0] = f[1]
  <2>1. 0 \in Size(k - 1) /\ 0 \in Size(n) /\ 0 + 1 = 1
    BY DEF Size
  <2> QED  BY <1>1, <2>1
<1>9. b[0] \in GF /\ f[1] \in GF
  BY <1>1 DEF Terms, Size
<1>10. x (.) f[1] \in GF
  BY <1>9, Mul
<1> QED  BY <1>7, <1>8, <1>9, <1>10, Add

\* A product depends on its first k places only.
LEMMA DotSame ==
  ASSUME NEW k \in Nat, NEW r, NEW c, NEW s, NEW d, Terms(k, r), Terms(k, c),
         \A i \in Size(k) : s[i] = r[i] /\ d[i] = c[i]
  PROVE  Dot(k, s, d) = Dot(k, r, c)
<1> DEFINE f == [i \in Size(k) |-> r[i] (.) c[i]]
           g == [i \in Size(k) |-> s[i] (.) d[i]]
<1>1. Terms(k, f)
  BY Mul DEF Terms
<1>2. \A i \in Size(k) : g[i] = f[i]
  OBVIOUS
<1>3. XorSum(k, g) = XorSum(k, f)
  <2> HIDE DEF f, g
  <2> QED  BY <1>1, <1>2, SumSame
<1> QED  BY <1>3 DEF Dot

\* More powers of x.
LEMMA PowersExtend ==
  ASSUME NEW k \in Nat, k >= 1, NEW x \in GF, NEW v, Powers(k, x, v)
  PROVE  \E w : Powers(k + 1, x, w) /\ \A i \in Size(k) : w[i] = v[i]
<1> DEFINE w == [i \in Size(k + 1) |-> IF i = k THEN x (.) v[k - 1] ELSE v[i]]
<1>1. Terms(k, v) /\ v[0] = 1 /\ \A j \in Size(k - 1) : v[j + 1] = x (.) v[j]
  BY DEF Powers
<1>2. x (.) v[k - 1] \in GF
  <2>1. v[k - 1] \in GF
    BY <1>1 DEF Terms, Size
  <2> QED  BY <2>1, Mul
<1>3. Terms(k + 1, w)
  BY <1>1, <1>2 DEF Terms, Size
<1>4. w[0] = 1
  BY <1>1 DEF Size
<1>5. ASSUME NEW j \in Size(k + 1 - 1) PROVE w[j + 1] = x (.) w[j]
  <2>1. j \in Size(k + 1) /\ j + 1 \in Size(k + 1) /\ j # k
    BY DEF Size
  <2>2. w[j] = v[j]
    BY <2>1
  <2>3. CASE j + 1 = k
    <3>0. k - 1 = j /\ k \in Size(k + 1)
      BY <2>1, <2>3 DEF Size
    <3>2. w[k] = x (.) v[k - 1]
      BY <3>0
    <3>1. w[j + 1] = x (.) v[k - 1] /\ k - 1 = j
      <4> HIDE DEF w
      <4> QED  BY <2>3, <3>0, <3>2
    <3> HIDE DEF w
    <3> QED  BY <2>2, <3>1
  <2>4. CASE j + 1 # k
    <3>1. j \in Size(k - 1) /\ w[j + 1] = v[j + 1]
      BY <2>1, <2>4 DEF Size
    <3> QED  BY <1>1, <2>2, <3>1
  <2> QED  BY <2>3, <2>4
<1>6. Powers(k + 1, x, w)
  BY <1>3, <1>4, <1>5 DEF Powers
<1>7. \A i \in Size(k) : w[i] = v[i]
  BY DEF Size
<1> QED  BY <1>6, <1>7

\* The polynomial with the leading coefficient 1 that the code leaves out.
Monic(k, a) == [j \in Size(k + 1) |-> IF j = k THEN 1 ELSE a[j]]

\* x is a root of it.
Root(k, a, x) ==
  \A V : Powers(k + 2, x, V) => Dot(k + 1, Monic(k, a), V) = 0

\* Its coefficients are elements.
LEMMA MonicTerms ==
  ASSUME NEW k \in Nat, NEW a, Terms(k, a)
  PROVE  Terms(k + 1, Monic(k, a)) /\ k + 1 \in Nat
BY Add DEF Terms, Monic, Size

\* Without a constant coefficient, 0 is a root.
LEMMA RootAtZero ==
  ASSUME NEW k \in Nat, k >= 1, NEW a, Terms(k, a), a[0] = 0
  PROVE  Root(k, a, 0)
<1>1. SUFFICES ASSUME NEW V, Powers(k + 2, 0, V)
               PROVE  Dot(k + 1, Monic(k, a), V) = 0
  BY DEF Root
<1>2. Terms(k + 2, V) /\ \A j \in Size(k + 1) : V[j + 1] = 0 (.) V[j]
  BY <1>1 DEF Powers
<1>3. ASSUME NEW i \in Size(k + 1) PROVE Monic(k, a)[i] (.) V[i] = 0
  <2>1. CASE i = 0
    <3>1. Monic(k, a)[i] = 0
      BY <2>1 DEF Monic, Size
    <3> QED  BY <3>1, MulZero
  <2>2. CASE i # 0
    <3>1. i - 1 \in Size(k + 1) /\ i - 1 + 1 = i
      BY <2>2 DEF Size
    <3>2. V[i] = 0
      BY <1>2, <3>1, MulZero
    <3> QED  BY <3>2, MulZero
  <2> QED  BY <2>1, <2>2
<1> DEFINE f == [i \in Size(k + 1) |-> Monic(k, a)[i] (.) V[i]]
<1>4. \A i \in Size(k + 1) : f[i] = 0
  BY <1>3
<1>5. XorSum(k + 1, f) = 0
  <2> HIDE DEF f
  <2>1. k + 1 \in Nat
    OBVIOUS
  <2> QED  BY <1>4, <2>1, SumNone
<1> QED  BY <1>5 DEF Dot

\* c is the product of a and x - y, divided by x.
Step(k, a, y, c) ==
  /\ Terms(k, a) /\ Terms(k, c) /\ a[0] = 0
  /\ \A j \in Size(k - 1) : c[j] = a[j] (+) (y (.) a[j + 1])
  /\ c[k - 1] = a[k - 1] (+) y

\* Such a step keeps the roots, and makes y one.
LEMMA StepRoot ==
  ASSUME NEW k \in Nat, k >= 1, NEW a, NEW c, NEW y \in GF, Step(k, a, y, c),
         NEW x \in GF, x # 0, x = y \/ Root(k, a, x)
  PROVE  Root(k, c, x)
<1>1. SUFFICES ASSUME NEW V, Powers(k + 2, x, V)
               PROVE  Dot(k + 1, Monic(k, c), V) = 0
  BY DEF Root
<1>2. /\ Terms(k, a) /\ Terms(k, c) /\ a[0] = 0
      /\ \A j \in Size(k - 1) : c[j] = a[j] (+) (y (.) a[j + 1])
      /\ c[k - 1] = a[k - 1] (+) y
  BY DEF Step
<1> DEFINE n == k + 1
           b == Monic(k, a)
           h == Monic(k, c)
           g == [j \in Size(n + 1) |-> IF j = 0 THEN 0 ELSE h[j - 1]]
<1>3. n \in Nat /\ n >= 1 /\ n + 1 = k + 2
  OBVIOUS
<1>4. Terms(n, b) /\ Terms(n, h)
  BY <1>2, MonicTerms
<1>5. Terms(n + 1, g)
  <2>1. ASSUME NEW j \in Size(n + 1) PROVE g[j] \in GF
    <3>1. j = 0 \/ j - 1 \in Size(n)
      BY DEF Size
    <3> QED  BY <1>4, <3>1, Add DEF Terms
  <2> QED  BY <2>1 DEF Terms
<1>6. \A j \in Size(n) : g[j + 1] = h[j]
  BY DEF Size
<1>7. g[0] = 0
  BY DEF Size
<1>8. b[k] = 1 /\ h[k] = 1 /\ \A j \in Size(k) : b[j] = a[j] /\ h[j] = c[j]
  BY DEF Monic, Size
<1>9. ASSUME NEW i \in Size(n - 1) PROVE b[i] = g[i + 1] (+) (y (.) b[i + 1])
  <2>1. i \in Size(k) /\ i \in Size(n)
    BY DEF Size
  <2>2. g[i + 1] = c[i] /\ b[i] = a[i] /\ a[i] \in GF
    BY <1>2, <1>6, <1>8, <2>1 DEF Terms
  <2>3. CASE i = k - 1
    <3>1. b[i + 1] = 1 /\ c[i] = a[i] (+) y
      BY <1>2, <1>8, <2>3
    <3>2. y (.) 1 = y /\ (a[i] (+) y) (+) y = a[i]
      BY <2>2, Mul, AddCancel
    <3> QED  BY <2>2, <3>1, <3>2
  <2>4. CASE i # k - 1
    <3>1. i \in Size(k - 1) /\ i + 1 \in Size(k)
      BY <2>1, <2>4 DEF Size
    <3>2. b[i + 1] = a[i + 1] /\ a[i + 1] \in GF
      BY <1>2, <1>8, <3>1 DEF Terms
    <3>3. c[i] = a[i] (+) (y (.) a[i + 1])
      BY <1>2, <3>1
    <3>4. y (.) a[i + 1] \in GF
      BY <3>2, Mul
    <3>5. (a[i] (+) (y (.) a[i + 1])) (+) (y (.) a[i + 1]) = a[i]
      BY <2>2, <3>4, AddCancel
    <3> QED  BY <2>2, <3>2, <3>3, <3>5
  <2> QED  BY <2>3, <2>4
<1>10. b[n - 1] = g[n]
  <2>1. n - 1 = k /\ k \in Size(n) /\ g[k + 1] = h[k]
    BY <1>6 DEF Size
  <2> QED  BY <1>8, <2>1
<1>11. Quotient(n, g, y, b)
  BY <1>4, <1>5, <1>9, <1>10 DEF Quotient
<1>12. b[0] = 0
  BY <1>2, <1>8 DEF Size
<1>13. Powers(n + 1, x, V) /\ Terms(n + 1, V) /\ Terms(n, V)
       /\ \A j \in Size(n) : V[j + 1] = x (.) V[j]
  BY <1>1 DEF Powers, Terms, Size
<1> DEFINE B == Dot(n, b, V)
           G == Dot(n + 1, g, V)
           H == Dot(n, h, V)
<1>14. /\ (x (+) y) (.) B = G (+) (g[0] (+) (y (.) b[0]))
       /\ B \in GF /\ G \in GF
  <2> HIDE DEF n, b, g, h
  <2>1. Quotient(n, g, y, b) /\ Powers(n + 1, x, V) /\ n \in Nat /\ n >= 1
    BY <1>3, <1>11, <1>13
  <2>2. /\ (x (+) y) (.) Dot(n, b, V)
              = Dot(n + 1, g, V) (+) (g[0] (+) (y (.) b[0]))
        /\ Dot(n, b, V) \in GF /\ Dot(n + 1, g, V) \in GF
    BY <2>1, Division
  <2> QED  BY <2>2
<1>15. (x (+) y) (.) B = G
  <2>1. y (.) b[0] = 0 /\ g[0] (+) 0 = 0
    BY <1>7, <1>12, MulZero, Add
  <2>2. G (+) 0 = G
    BY <1>14, Add
  <2> HIDE DEF n, b, g, B, G
  <2> QED  BY <1>14, <2>1, <2>2
<1>16. G = x (.) H /\ H \in GF
  <2> DEFINE fg == [j \in Size(n + 1) |-> g[j] (.) V[j]]
             fh == [j \in Size(n) |-> h[j] (.) V[j]]
             sh == [j \in Size(n) |-> fg[j + 1]]
  <2>1. Terms(n + 1, fg)
    <3>1. ASSUME NEW j \in Size(n + 1) PROVE g[j] (.) V[j] \in GF
      BY <1>5, <1>13, Mul DEF Terms
    <3> HIDE DEF g
    <3> QED  BY <3>1 DEF Terms
  <2>2. Terms(n, fh)
    <3>1. ASSUME NEW j \in Size(n) PROVE h[j] (.) V[j] \in GF
      BY <1>4, <1>13, Mul DEF Terms
    <3> HIDE DEF h
    <3> QED  BY <3>1 DEF Terms
  <2>3. \A j \in Size(n) : sh[j] = fg[j + 1]
    OBVIOUS
  <2>4. ASSUME NEW j \in Size(n) PROVE sh[j] = x (.) fh[j]
    <3>1. j + 1 \in Size(n + 1)
      BY DEF Size
    <3>2. fg[j + 1] = g[j + 1] (.) V[j + 1]
      BY <3>1
    <3>3. g[j + 1] = h[j] /\ V[j + 1] = x (.) V[j]
      BY <1>6, <1>13
    <3>4. h[j] \in GF /\ V[j] \in GF
      BY <1>4, <1>13 DEF Terms
    <3> DEFINE p == h[j]
               q == V[j]
    <3>5. p (.) (x (.) q) = x (.) (p (.) q)
      <4>1. p \in GF /\ q \in GF
        BY <3>4
      <4> HIDE DEF p, q
      <4>2. (p (.) x) (.) q = p (.) (x (.) q) /\ p (.) x = x (.) p
            /\ (x (.) p) (.) q = x (.) (p (.) q)
        BY <4>1, Mul
      <4> QED  BY <4>2
    <3>6. fh[j] = h[j] (.) V[j] /\ sh[j] = fg[j + 1]
      OBVIOUS
    <3> HIDE DEF fg, fh, sh, g, h
    <3> QED  BY <3>2, <3>3, <3>5, <3>6
  <2>5. fg[0] = 0
    <3>1. 0 \in Size(n + 1) /\ fg[0] = g[0] (.) V[0]
      BY DEF Size
    <3> QED  BY <1>7, <3>1, MulZero
  <2>6. XorSum(n + 1, fg) = fg[0] (+) XorSum(n, sh)
    <3> HIDE DEF fg, sh, n
    <3> QED  BY <1>3, <2>1, <2>3, SumShift
  <2>7. XorSum(n, sh) = x (.) XorSum(n, fh)
    <3> HIDE DEF sh, fh, n
    <3> QED  BY <1>3, <2>2, <2>4, SumScale
  <2>8. XorSum(n, fh) \in GF
    <3> HIDE DEF fh, n
    <3> QED  BY <1>3, <2>2, SumStep
  <2>9. G = XorSum(n + 1, fg) /\ H = XorSum(n, fh)
    BY DEF Dot
  <2>10. x (.) XorSum(n, fh) \in GF
    BY <2>8, Mul
  <2> HIDE DEF fg, fh, sh, G, H, n
  <2> QED  BY <2>5, <2>6, <2>7, <2>8, <2>9, <2>10, Add
<1>17. G = 0
  <2>1. CASE x = y
    <3>1. x (+) y = 0
      BY <2>1, Add
    <3> HIDE DEF G, B
    <3> QED  BY <1>15, <3>1, MulZero
  <2>2. CASE Root(k, a, x)
    <3>1. B = 0
      BY <1>1, <2>2 DEF Root
    <3> HIDE DEF G, B
    <3> QED  BY <1>15, <3>1, MulZero
  <2> QED  BY <2>1, <2>2
<1>18. H = 0
  <2> HIDE DEF G, H
  <2>1. x (.) H = 0 /\ H \in GF
    BY <1>16, <1>17
  <2>2. \A u, w \in GF : u (.) w = 0 => u = 0 \/ w = 0
    BY Mul
  <2> QED  BY <2>1, <2>2
<1> QED  BY <1>18

-----------------------------------------------------------------------------
\* _invert_vdm.

\* The loop of Coefficients: how a row follows from the one before.
CoefficientRow(k, p, i, a) ==
  [j \in Size(k) |->
     IF j = k - 1 THEN a[j] (+) p[i]
     ELSE IF j >= k - i THEN a[j] (+) (p[i] (.) a[j + 1]) ELSE a[j]]

\* The function of all the rows.
After(k, p) ==
  CHOOSE after : after = [i \in Size(k) |->
        IF i = 0 THEN [j \in Size(k) |-> IF j = k - 1 THEN p[0] ELSE 0]
        ELSE [j \in Size(k) |->
                IF j = k - 1 THEN after[i - 1][j] (+) p[i]
                ELSE IF j >= k - i
                THEN after[i - 1][j] (+) (p[i] (.) after[i - 1][j + 1])
                ELSE after[i - 1][j]]]

\* These rows exist, and each follows from the one before.
LEMMA AfterDef ==
  ASSUME NEW k \in Nat, k >= 1, NEW p, Terms(k, p)
  PROVE  /\ Coefficients(k, p) = After(k, p)[k - 1]
         /\ After(k, p) \in [Size(k) -> [Size(k) -> GF]]
         /\ \A j \in Size(k) :
              After(k, p)[0][j] = IF j = k - 1 THEN p[0] ELSE 0
         /\ \A i \in 1..(k - 1) :
              After(k, p)[i] = CoefficientRow(k, p, i, After(k, p)[i - 1])
<1> DEFINE T == [Size(k) -> GF]
           base == [j \in Size(k) |-> IF j = k - 1 THEN p[0] ELSE 0]
           G == [i \in Nat |-> [a \in T |->
                   IF i \in 1..(k - 1) THEN CoefficientRow(k, p, i, a) ELSE a]]
           M(f) == [i \in Size(k) |->
             IF i = 0 THEN base
             ELSE [j \in Size(k) |->
                IF j = k - 1 THEN f[i - 1][j] (+) p[i]
                ELSE IF j >= k - i
                THEN f[i - 1][j] (+) (p[i] (.) f[i - 1][j + 1])
                ELSE f[i - 1][j]]]
<1>1. base \in T
  <2>1. 0 \in Size(k)
    BY DEF Size
  <2> QED  BY <2>1, Add DEF Terms
<1>2. ASSUME NEW i \in 1..(k - 1), NEW a \in T
      PROVE  CoefficientRow(k, p, i, a) \in T
  <2>1. ASSUME NEW j \in Size(k)
        PROVE  (IF j = k - 1 THEN a[j] (+) p[i]
                ELSE IF j >= k - i THEN a[j] (+) (p[i] (.) a[j + 1])
                ELSE a[j]) \in GF
    <3>1. i \in Size(k) /\ p[i] \in GF /\ a[j] \in GF
      BY DEF Size, Terms
    <3>2. CASE j = k - 1
      <4>1. a[j] (+) p[i] \in GF
        BY <3>1, Add
      <4> QED  BY <3>2, <4>1
    <3>3. CASE j # k - 1
      <4>1. j + 1 \in Size(k)
        BY <3>3 DEF Size
      <4>2. a[j + 1] \in GF
        BY <4>1
      <4>3. p[i] (.) a[j + 1] \in GF
        BY <3>1, <4>2, Mul
      <4>4. a[j] (+) (p[i] (.) a[j + 1]) \in GF
        BY <3>1, <4>3, Add
      <4> QED  BY <3>1, <3>3, <4>4
    <3> QED  BY <3>2, <3>3
  <2> QED  BY <2>1 DEF CoefficientRow
<1>3. G \in [Nat -> [T -> T]]
  <2>1. ASSUME NEW i \in Nat, NEW a \in T
        PROVE  (IF i \in 1..(k - 1) THEN CoefficientRow(k, p, i, a) ELSE a)
                 \in T
    BY <1>2
  <2> HIDE DEF T
  <2> QED  BY <2>1
<1>4. PICK f : Recurs(T, k - 1, base, G, f)
  <2> HIDE DEF T, G, base
  <2>1. k - 1 \in Nat
    OBVIOUS
  <2> QED  BY <1>1, <1>3, <2>1, Recursion
<1>5. f \in [Size(k) -> T] /\ f[0] = base
  BY <1>4 DEF Recurs, Size
<1>6. ASSUME NEW i \in 1..(k - 1)
      PROVE  f[i] = CoefficientRow(k, p, i, f[i - 1])
  <2>1. i \in Nat /\ i - 1 \in Size(k)
    BY DEF Size
  <2>2. f[i - 1] \in T
    BY <1>5, <2>1
  <2>3. f[i] = G[i][f[i - 1]]
    BY <1>4 DEF Recurs
  <2> DEFINE a == f[i - 1]
  <2>4. G[i][a] = CoefficientRow(k, p, i, a)
    <3>1. a \in T
      BY <2>2
    <3> HIDE DEF a, T
    <3> QED  BY <2>1, <3>1
  <2> QED  BY <2>3, <2>4
<1>7. f = M(f)
  <2>1. ASSUME NEW i \in Size(k) PROVE f[i] = M(f)[i]
    <3>1. i = 0 \/ i \in 1..(k - 1)
      BY DEF Size
    <3>2. CASE i = 0
      BY <1>5, <3>2
    <3>3. CASE i \in 1..(k - 1)
      BY <1>6, <3>3 DEF CoefficientRow
    <3> QED  BY <3>1, <3>2, <3>3
  <2>2. f = [i \in Size(k) |-> f[i]]
    <3> HIDE DEF T
    <3> QED  BY <1>5
  <2> QED  BY <2>1, <2>2
<1>8. After(k, p) = CHOOSE g : g = M(g)
  BY DEF After
<1> DEFINE A == After(k, p)
<1>9. A = M(A)
  <2> HIDE DEF M
  <2> QED  BY <1>7, <1>8
<1>10. Coefficients(k, p) = A[k - 1]
  BY DEF Coefficients, After
<1> HIDE DEF A
<1>11. 0 \in Size(k) /\ A[0] = base
  <2>1. 0 \in Size(k)
    BY DEF Size
  <2> QED  BY <1>9, <2>1
<1>12. ASSUME NEW i \in 1..(k - 1)
       PROVE  A[i] = CoefficientRow(k, p, i, A[i - 1])
  <2>1. i \in Size(k) /\ i # 0
    BY DEF Size
  <2>2. M(A)[i] = CoefficientRow(k, p, i, A[i - 1])
    BY <2>1 DEF CoefficientRow
  <2> QED  BY <1>9, <2>2
<1> DEFINE S == {i \in Nat : i < k => A[i] \in T}
<1>13. 0 \in S
  BY <1>1, <1>11
<1>14. ASSUME NEW i \in Nat, i \in S PROVE i + 1 \in S
  <2>1. SUFFICES ASSUME i + 1 < k PROVE A[i + 1] \in T
    OBVIOUS
  <2>2. i + 1 \in 1..(k - 1) /\ i + 1 - 1 = i /\ A[i] \in T
    BY <1>14, <2>1
  <2> DEFINE l == i + 1
  <2>3. l \in 1..(k - 1) /\ l - 1 = i
    BY <2>2
  <2>4. A[l] = CoefficientRow(k, p, l, A[l - 1])
    <3> HIDE DEF l
    <3> QED  BY <1>12, <2>3
  <2> HIDE DEF l, T, S
  <2>5. A[l] \in T
    BY <1>2, <2>2, <2>3, <2>4
  <2> QED  BY <2>5 DEF l
<1>15. \A i \in Nat : i \in S
  <2> HIDE DEF S
  <2> QED  BY <1>13, <1>14, Induction
<1>16. A \in [Size(k) -> T]
  <2>1. \A i \in Size(k) : A[i] \in T
    BY <1>15 DEF Size
  <2>2. A = [i \in Size(k) |-> A[i]]
    BY <1>9
  <2> HIDE DEF T
  <2> QED  BY <2>1, <2>2
<1> QED  BY <1>10, <1>11, <1>12, <1>16 DEF A

\* The elements are roots of the polynomial of _invert_vdm, whose constant
\* coefficient stays 0.
LEMMA CoefficientRoots ==
  ASSUME NEW k \in Nat, k >= 2, NEW p, Terms(k, p), p[0] = 0
  PROVE  /\ Terms(k, Coefficients(k, p)) /\ Coefficients(k, p)[0] = 0
         /\ \A l \in Size(k) : Root(k, Coefficients(k, p), p[l])
<1> DEFINE A == After(k, p)
<1>1. /\ Coefficients(k, p) = A[k - 1]
      /\ A \in [Size(k) -> [Size(k) -> GF]]
      /\ \A j \in Size(k) : A[0][j] = IF j = k - 1 THEN p[0] ELSE 0
      /\ \A i \in 1..(k - 1) : A[i] = CoefficientRow(k, p, i, A[i - 1])
  <2>1. k >= 1
    OBVIOUS
  <2> QED  BY <2>1, AfterDef
<1> HIDE DEF A
<1>2. \A i \in Size(k) : Terms(k, A[i])
  BY <1>1 DEF Terms
<1> DEFINE Low(i) == \A j \in Size(k) : j < k - i => A[i][j] = 0
           L == {i \in Nat : i < k => Low(i)}
<1>3. 0 \in L
  BY <1>1
<1>4. ASSUME NEW i \in Nat, i \in L PROVE i + 1 \in L
  <2>1. SUFFICES ASSUME i + 1 < k, NEW j \in Size(k), j < k - (i + 1)
                 PROVE  A[i + 1][j] = 0
    OBVIOUS
  <2>2. A[i][j] = 0
    BY <1>4, <2>1 DEF Size
  <2> DEFINE l == i + 1
  <2>3. l \in 1..(k - 1) /\ l - 1 = i /\ ~(j >= k - l) /\ j # k - 1
    BY <2>1 DEF Size
  <2> HIDE DEF l
  <2>4. A[l] = CoefficientRow(k, p, l, A[l - 1])
    BY <1>1, <2>3
  <2>5. A[l][j] = A[l - 1][j]
    BY <2>3, <2>4 DEF CoefficientRow
  <2>6. A[l][j] = 0
    BY <2>2, <2>3, <2>5
  <2> QED  BY <2>6 DEF l
<1>5. \A i \in Size(k) : Low(i)
  <2>1. \A i \in Nat : i \in L
    <3> HIDE DEF L
    <3> QED  BY <1>3, <1>4, Induction
  <2> QED  BY <2>1 DEF Size
<1>6. \A i \in Size(k) : A[i][0] = 0
  BY <1>5 DEF Size
<1>7. ASSUME NEW i \in 1..(k - 1) PROVE Step(k, A[i - 1], p[i], A[i])
  <2>1. i \in Size(k) /\ i - 1 \in Size(k)
    BY DEF Size
  <2> DEFINE a == A[i - 1]
  <2>2. A[i] = CoefficientRow(k, p, i, a)
    BY <1>1
  <2>3. Terms(k, a) /\ a[0] = 0 /\ Terms(k, A[i])
    BY <1>2, <1>6, <2>1
  <2>4. \A j \in Size(k) : j < k - i + 1 => a[j] = 0
    <3>1. Low(i - 1)
      BY <1>5, <2>1
    <3> QED  BY <3>1 DEF Size
  <2> HIDE DEF a
  <2>5. A[i][k - 1] = a[k - 1] (+) p[i]
    <3>1. k - 1 \in Size(k)
      BY DEF Size
    <3> QED  BY <2>2, <3>1 DEF CoefficientRow
  <2>6. ASSUME NEW j \in Size(k - 1)
        PROVE  A[i][j] = a[j] (+) (p[i] (.) a[j + 1])
    <3>1. j \in Size(k) /\ j # k - 1 /\ j + 1 \in Size(k)
      BY DEF Size
    <3>2. CASE j >= k - i
      BY <2>2, <3>1, <3>2 DEF CoefficientRow
    <3>3. CASE ~(j >= k - i)
      <4>1. A[i][j] = a[j]
        BY <2>2, <3>1, <3>3 DEF CoefficientRow
      <4>2. a[j + 1] = 0
        BY <2>4, <3>1, <3>3 DEF Size
      <4>3. a[j] \in GF /\ p[i] (.) 0 = 0
        BY <2>3, <3>1, MulZero DEF Terms
      <4>4. a[j] (+) 0 = a[j]
        BY <4>3, Add
      <4> QED  BY <4>1, <4>2, <4>3, <4>4
    <3> QED  BY <3>2, <3>3
  <2>7. Step(k, a, p[i], A[i])
    BY <2>3, <2>5, <2>6 DEF Step
  <2> QED  BY <2>7 DEF a
<1> DEFINE S == {i \in Nat : i < k => \A l \in 0..i : Root(k, A[i], p[l])}
<1>8. \A i \in Size(k) : Root(k, A[i], 0)
  <2>1. k >= 1
    OBVIOUS
  <2> QED  BY <1>2, <1>6, <2>1, RootAtZero
<1>9. 0 \in S
  BY <1>8 DEF Size
<1>10. ASSUME NEW i \in Nat, i \in S PROVE i + 1 \in S
  <2>1. SUFFICES ASSUME i + 1 < k, NEW l \in 0..(i + 1)
                 PROVE  Root(k, A[i + 1], p[l])
    OBVIOUS
  <2>2. /\ i + 1 \in 1..(k - 1) /\ i + 1 - 1 = i /\ i + 1 \in Size(k)
        /\ l \in Size(k) /\ p[l] \in GF /\ p[i + 1] \in GF /\ k >= 1
    BY <2>1 DEF Size, Terms
  <2>3. Step(k, A[i], p[i + 1], A[i + 1])
    <3> DEFINE j == i + 1
    <3>1. j \in 1..(k - 1) /\ j - 1 = i
      BY <2>2
    <3> HIDE DEF j
    <3>2. Step(k, A[j - 1], p[j], A[j])
      BY <1>7, <3>1
    <3> QED  BY <3>1, <3>2 DEF j
  <2>4. CASE p[l] = 0
    BY <1>8, <2>2, <2>4
  <2>5. CASE p[l] # 0
    <3>1. l = i + 1 \/ l \in 0..i
      OBVIOUS
    <3>2. p[l] = p[i + 1] \/ Root(k, A[i], p[l])
      BY <1>10, <2>1, <3>1
    <3> HIDE DEF S
    <3> QED  BY <2>2, <2>3, <2>5, <3>2, StepRoot
  <2> QED  BY <2>4, <2>5
<1>11. k - 1 \in S
  <2>1. k - 1 \in Nat
    OBVIOUS
  <2> HIDE DEF S
  <2> QED  BY <1>9, <1>10, <2>1, Induction
<1>12. k - 1 \in Size(k) /\ k - 1 < k /\ Size(k) = 0..(k - 1)
  BY DEF Size
<1> QED  BY <1>1, <1>2, <1>6, <1>11, <1>12

\* A scaled column, on the other side of the product.
LEMMA DotScale ==
  ASSUME NEW k \in Nat, NEW b, NEW v, NEW a \in GF, NEW d,
         Terms(k, b), Terms(k, v), \A i \in Size(k) : d[i] = a (.) b[i]
  PROVE  Dot(k, v, d) = a (.) Dot(k, b, v)
<1> DEFINE f == [i \in Size(k) |-> b[i] (.) v[i]]
           g == [i \in Size(k) |-> v[i] (.) d[i]]
<1>1. Terms(k, f)
  BY Mul DEF Terms
<1>2. ASSUME NEW i \in Size(k) PROVE g[i] = a (.) f[i]
  <2> DEFINE y == b[i]
             z == v[i]
  <2>1. y \in GF /\ z \in GF
    BY DEF Terms
  <2>2. g[i] = z (.) (a (.) y) /\ f[i] = y (.) z
    OBVIOUS
  <2> HIDE DEF y, z, f, g
  <2>3. z (.) (a (.) y) = (a (.) y) (.) z
    <3>1. a (.) y \in GF
      BY <2>1, Mul
    <3> QED  BY <2>1, <3>1, Mul
  <2>4. (a (.) y) (.) z = a (.) (y (.) z)
    BY <2>1, Mul
  <2> QED  BY <2>2, <2>3, <2>4
<1>3. XorSum(k, g) = a (.) XorSum(k, f)
  <2> HIDE DEF f, g
  <2> QED  BY <1>1, <1>2, SumScale
<1> QED  BY <1>3 DEF Dot

\* The two loops of InvertVdm: the quotient b first.
QuotientOf(k, c, x) ==
  CHOOSE f : f = [i \in Size(k) |->
    IF i = k - 1 THEN 1 ELSE c[i + 1] (+) (x (.) f[i + 1])]

\* The f of t.
ValuesOf(k, b, x) ==
  CHOOSE f : f = [i \in Size(k) |->
    IF i = k - 1 THEN 1 ELSE (x (.) f[i + 1]) (+) b[i]]

\* The first loop divides the polynomial by x - a.
LEMMA QuotientOfDef ==
  ASSUME NEW k \in Nat, k >= 1, NEW c, Terms(k, c), NEW x \in GF
  PROVE  /\ Quotient(k, Monic(k, c), x, QuotientOf(k, c, x))
         /\ QuotientOf(k, c, x)[k - 1] = 1
         /\ QuotientOf(k, c, x) \in [Size(k) -> GF]
<1> DEFINE h == Monic(k, c)
           M(f) == [i \in Size(k) |->
                      IF i = k - 1 THEN 1 ELSE c[i + 1] (+) (x (.) f[i + 1])]
<1>1. Terms(k + 1, h) /\ h[k] = 1 /\ \A i \in Size(k - 1) : h[i + 1] = c[i + 1]
  BY MonicTerms DEF Monic, Size
<1>2. PICK f : Quotient(k, h, x, f)
  <2> HIDE DEF h
  <2> QED  BY <1>1, QuotientExists
<1>3. /\ Terms(k, f) /\ f[k - 1] = h[k]
      /\ \A i \in Size(k - 1) : f[i] = h[i + 1] (+) (x (.) f[i + 1])
  BY <1>2 DEF Quotient
<1> HIDE DEF h
<1> DEFINE e == [i \in Size(k) |-> f[i]]
<1>4. e = M(e)
  <2>1. ASSUME NEW i \in Size(k) PROVE e[i] = M(e)[i]
    <3>1. CASE i = k - 1
      BY <1>1, <1>3, <3>1
    <3>2. CASE i # k - 1
      <4>1. i \in Size(k - 1) /\ i + 1 \in Size(k)
        BY <3>2 DEF Size
      <4>2. e[i] = f[i] /\ e[i + 1] = f[i + 1]
        BY <4>1
      <4>3. f[i] = c[i + 1] (+) (x (.) f[i + 1])
        BY <1>1, <1>3, <4>1
      <4>4. M(e)[i] = c[i + 1] (+) (x (.) e[i + 1])
        <5> HIDE DEF e
        <5> QED  BY <3>2
      <4> HIDE DEF e, M
      <4> QED  BY <4>2, <4>3, <4>4
    <3> QED  BY <3>1, <3>2
  <2> QED  BY <2>1
<1> DEFINE b == QuotientOf(k, c, x)
<1>5. b = CHOOSE g : g = M(g)
  BY DEF QuotientOf
<1>6. b = M(b)
  <2> HIDE DEF M, b, e
  <2> QED  BY <1>4, <1>5
<1> HIDE DEF b
<1>7. /\ b[k - 1] = 1
      /\ \A i \in Size(k - 1) : b[i] = c[i + 1] (+) (x (.) b[i + 1])
  <2>1. b[k - 1] = 1
    BY <1>6 DEF Size
  <2>2. ASSUME NEW i \in Size(k - 1) PROVE b[i] = c[i + 1] (+) (x (.) b[i + 1])
    <3>1. i \in Size(k) /\ i # k - 1
      BY DEF Size
    <3>2. M(b)[i] = c[i + 1] (+) (x (.) b[i + 1])
      BY <3>1
    <3> HIDE DEF M
    <3> QED  BY <1>6, <3>2
  <2> QED  BY <2>1, <2>2
<1> DEFINE S == {l \in Nat : l < k => b[k - 1 - l] \in GF}
<1>8. 0 \in S
  BY <1>7, Add
<1>9. ASSUME NEW l \in Nat, l \in S PROVE l + 1 \in S
  <2>1. SUFFICES ASSUME l + 1 < k PROVE b[k - 1 - (l + 1)] \in GF
    OBVIOUS
  <2> DEFINE i == k - 1 - (l + 1)
  <2>2. i \in Size(k - 1) /\ i + 1 = k - 1 - l /\ i + 1 \in Size(k)
    BY <2>1 DEF Size
  <2>3. b[i + 1] \in GF
    BY <1>9, <2>1, <2>2
  <2>4. b[i] = c[i + 1] (+) (x (.) b[i + 1])
    BY <1>7, <2>2
  <2>5. c[i + 1] \in GF /\ x (.) b[i + 1] \in GF
    <3> HIDE DEF i
    <3> QED  BY <2>2, <2>3, Mul DEF Terms
  <2> HIDE DEF i, S
  <2>6. b[i] \in GF
    BY <2>4, <2>5, Add
  <2> QED  BY <2>6 DEF i
<1>10. ASSUME NEW i \in Size(k) PROVE b[i] \in GF
  <2>1. \A l \in Nat : l \in S
    <3> HIDE DEF S
    <3> QED  BY <1>8, <1>9, Induction
  <2>2. k - 1 - i \in Nat /\ k - 1 - i < k /\ k - 1 - (k - 1 - i) = i
    BY DEF Size
  <2> QED  BY <2>1, <2>2
<1>11. b \in [Size(k) -> GF]
  <2>1. b = [i \in Size(k) |-> b[i]]
    BY <1>6
  <2> QED  BY <1>10, <2>1
<1>12. Quotient(k, h, x, b)
  BY <1>1, <1>7, <1>10 DEF Quotient, Terms
<1> QED  BY <1>7, <1>11, <1>12 DEF b, h

\* The second loop takes the value of the quotient at x.
LEMMA ValuesOfDef ==
  ASSUME NEW k \in Nat, k >= 1, NEW b, Terms(k, b), b[k - 1] = 1, NEW x \in GF
  PROVE  Horner(k, b, x, ValuesOf(k, b, x))
<1> DEFINE M(f) == [i \in Size(k) |->
                      IF i = k - 1 THEN 1 ELSE (x (.) f[i + 1]) (+) b[i]]
           c == [i \in Size(k) |-> IF i = 0 THEN 0 ELSE b[i - 1]]
<1>1. Terms(k, c)
  <2>1. ASSUME NEW i \in Size(k) PROVE c[i] \in GF
    <3>1. i = 0 \/ i - 1 \in Size(k)
      BY DEF Size
    <3> QED  BY <3>1, Add DEF Terms
  <2> QED  BY <2>1 DEF Terms
<1>2. \A i \in Size(k - 1) : c[i + 1] = b[i]
  BY DEF Size
<1> HIDE DEF c
<1> DEFINE q == QuotientOf(k, c, x)
           h == Monic(k, c)
<1>3. Quotient(k, h, x, q) /\ q[k - 1] = 1 /\ q \in [Size(k) -> GF]
  BY <1>1, QuotientOfDef
<1>4. \A i \in Size(k - 1) : h[i + 1] = b[i]
  BY <1>2 DEF Monic, Size
<1> HIDE DEF q, h
<1>5. \A i \in Size(k - 1) : q[i] = (x (.) q[i + 1]) (+) b[i]
  <2>1. ASSUME NEW i \in Size(k - 1) PROVE q[i] = (x (.) q[i + 1]) (+) b[i]
    <3>1. i + 1 \in Size(k) /\ i \in Size(k)
      BY DEF Size
    <3>2. q[i + 1] \in GF /\ b[i] \in GF
      BY <1>3, <3>1 DEF Terms
    <3>3. q[i] = b[i] (+) (x (.) q[i + 1])
      BY <1>3, <1>4 DEF Quotient
    <3>4. x (.) q[i + 1] \in GF
      BY <3>2, Mul
    <3> QED  BY <3>2, <3>3, <3>4, Add
  <2> QED  BY <2>1
<1>6. q = M(q)
  <2>1. ASSUME NEW i \in Size(k) PROVE q[i] = M(q)[i]
    <3>1. CASE i = k - 1
      BY <1>3, <3>1
    <3>2. CASE i # k - 1
      <4>1. i \in Size(k - 1)
        BY <3>2 DEF Size
      <4> QED  BY <1>5, <3>2, <4>1
    <3> QED  BY <3>1, <3>2
  <2> QED  BY <1>3, <2>1
<1> DEFINE f == ValuesOf(k, b, x)
<1>7. f = CHOOSE g : g = M(g)
  BY DEF ValuesOf
<1>8. f = M(f)
  <2> HIDE DEF M, f
  <2> QED  BY <1>6, <1>7
<1> HIDE DEF f
<1>9. f[k - 1] = 1 /\ \A i \in Size(k - 1) : f[i] = (x (.) f[i + 1]) (+) b[i]
  <2>1. f[k - 1] = 1
    BY <1>8 DEF Size
  <2>2. ASSUME NEW i \in Size(k - 1) PROVE f[i] = (x (.) f[i + 1]) (+) b[i]
    <3>1. i \in Size(k) /\ i # k - 1
      BY DEF Size
    <3>2. M(f)[i] = (x (.) f[i + 1]) (+) b[i]
      BY <3>1
    <3> HIDE DEF M
    <3> QED  BY <1>8, <3>2
  <2> QED  BY <2>1, <2>2
<1> DEFINE S == {l \in Nat : l < k => f[k - 1 - l] \in GF}
<1>10. 0 \in S
  BY <1>9, Add
<1>11. ASSUME NEW l \in Nat, l \in S PROVE l + 1 \in S
  <2>1. SUFFICES ASSUME l + 1 < k PROVE f[k - 1 - (l + 1)] \in GF
    OBVIOUS
  <2> DEFINE i == k - 1 - (l + 1)
  <2>2. i \in Size(k - 1) /\ i + 1 = k - 1 - l /\ i \in Size(k)
    BY <2>1 DEF Size
  <2>3. f[i + 1] \in GF
    BY <1>11, <2>1, <2>2
  <2>4. f[i] = (x (.) f[i + 1]) (+) b[i]
    BY <1>9, <2>2
  <2>5. b[i] \in GF /\ x (.) f[i + 1] \in GF
    <3> HIDE DEF i
    <3> QED  BY <2>2, <2>3, Mul DEF Terms
  <2> HIDE DEF i, S
  <2>6. f[i] \in GF
    BY <2>4, <2>5, Add
  <2> QED  BY <2>6 DEF i
<1>12. Terms(k, f)
  <2>1. \A l \in Nat : l \in S
    <3> HIDE DEF S
    <3> QED  BY <1>10, <1>11, Induction
  <2>2. ASSUME NEW i \in Size(k) PROVE f[i] \in GF
    <3>1. k - 1 - i \in Nat /\ k - 1 - i < k /\ k - 1 - (k - 1 - i) = i
      BY DEF Size
    <3> QED  BY <2>1, <3>1
  <2> QED  BY <2>2 DEF Terms
<1>13. Horner(k, b, x, f)
  BY <1>9, <1>12 DEF Horner
<1> QED  BY <1>13 DEF f

\* The product is commutative.
LEMMA DotSym ==
  ASSUME NEW k \in Nat, NEW r, NEW c, Terms(k, r), Terms(k, c)
  PROVE  Dot(k, r, c) = Dot(k, c, r)
<1> DEFINE f == [i \in Size(k) |-> r[i] (.) c[i]]
           g == [i \in Size(k) |-> c[i] (.) r[i]]
<1>1. \A i \in Size(k) : f[i] = g[i]
  BY Mul DEF Terms
<1>2. f = g
  <2>1. f = [i \in Size(k) |-> f[i]] /\ g = [i \in Size(k) |-> g[i]]
    OBVIOUS
  <2> HIDE DEF f, g
  <2> QED  BY <1>1, <2>1
<1> QED  BY <1>2 DEF Dot

\* A row of the identity takes one element.
LEMMA DotUnit ==
  ASSUME NEW k \in Nat, NEW i \in Size(k), NEW x, Terms(k, x)
  PROVE  Dot(k, Unit(k, i), x) = x[i] /\ Terms(k, Unit(k, i))
<1> DEFINE f == [j \in Size(k) |-> Unit(k, i)[j] (.) x[j]]
<1>1. Terms(k, Unit(k, i))
  BY Add DEF Unit, Terms
<1>2. x[i] \in GF
  BY DEF Terms
<1>3. f[i] = x[i] /\ \A j \in Size(k) : j # i => f[j] = 0
  <2>1. 1 (.) x[i] = x[i]
    BY <1>2, Mul
  <2>2. \A j \in Size(k) : 0 (.) x[j] = 0
    BY MulZero
  <2>3. Unit(k, i)[i] = 1 /\ \A j \in Size(k) : j # i => Unit(k, i)[j] = 0
    BY DEF Unit
  <2> QED  BY <2>1, <2>2, <2>3
<1>4. XorSum(k, f) = f[i]
  <2> HIDE DEF f
  <2> QED  BY <1>2, <1>3, SumOne
<1> QED  BY <1>1, <1>3, <1>4 DEF Dot

\* The column c of the matrix z.
Column(k, z, c) == [i \in Size(k) |-> z[i][c]]

\* A product with a product: first the row with each column of the matrix z.
LEMMA DotThrough ==
  ASSUME NEW k \in Nat, NEW u, NEW z, NEW x,
         Terms(k, u), \A i \in Size(k) : Terms(k, z[i]), Terms(k, x)
  PROVE  Dot(k, u, [i \in Size(k) |-> Dot(k, z[i], x)])
           = Dot(k, [c \in Size(k) |-> Dot(k, u, Column(k, z, c))], x)
<1> DEFINE w == [i \in Size(k) |-> Dot(k, z[i], x)]
           e == [c \in Size(k) |-> Dot(k, u, Column(k, z, c))]
           a == [i \in Size(k) |-> [c \in Size(k) |->
                   u[i] (.) (z[i][c] (.) x[c])]]
           left == [i \in Size(k) |-> XorSum(k, a[i])]
           right == [c \in Size(k) |-> XorSum(k, [i \in Size(k) |-> a[i][c]])]
<1>1. ASSUME NEW i \in Size(k), NEW c \in Size(k)
      PROVE  /\ u[i] \in GF /\ z[i][c] \in GF /\ x[c] \in GF
             /\ z[i][c] (.) x[c] \in GF /\ u[i] (.) z[i][c] \in GF
             /\ u[i] (.) (z[i][c] (.) x[c]) \in GF
             /\ u[i] (.) (z[i][c] (.) x[c]) = x[c] (.) (u[i] (.) z[i][c])
  <2> DEFINE p == u[i]
             q == z[i][c]
             s == x[c]
  <2>1. p \in GF /\ q \in GF /\ s \in GF
    BY DEF Terms
  <2> HIDE DEF p, q, s
  <2>2. q (.) s \in GF /\ p (.) q \in GF
    BY <2>1, Mul
  <2>3. p (.) (q (.) s) \in GF /\ (p (.) q) (.) s = p (.) (q (.) s)
        /\ (p (.) q) (.) s = s (.) (p (.) q)
    BY <2>1, <2>2, Mul
  <2> QED  BY <2>1, <2>2, <2>3 DEF p, q, s
<1>2. \A i \in Size(k) : Terms(k, a[i])
  BY <1>1 DEF Terms
<1>3. XorSum(k, left) = XorSum(k, right)
  <2> HIDE DEF a
  <2> QED  BY <1>2, SumExchange
<1>4. ASSUME NEW i \in Size(k) PROVE u[i] (.) w[i] = left[i]
  <2> DEFINE f == [c \in Size(k) |-> z[i][c] (.) x[c]]
             h == a[i]
  <2>1. Terms(k, f)
    BY <1>1 DEF Terms
  <2>2. \A c \in Size(k) : h[c] = u[i] (.) f[c]
    OBVIOUS
  <2>3. u[i] \in GF
    BY DEF Terms
  <2>4. XorSum(k, h) = u[i] (.) XorSum(k, f)
    <3> HIDE DEF f, h
    <3> QED  BY <2>1, <2>2, <2>3, SumScale
  <2>5. w[i] = XorSum(k, f)
    BY DEF Dot
  <2>6. left[i] = XorSum(k, h)
    OBVIOUS
  <2> HIDE DEF f, h, w, left, a
  <2> QED  BY <2>4, <2>5, <2>6
<1>5. ASSUME NEW c \in Size(k) PROVE e[c] (.) x[c] = right[c]
  <2> DEFINE g == Column(k, z, c)
             f == [i \in Size(k) |-> u[i] (.) g[i]]
             h == [i \in Size(k) |-> a[i][c]]
  <2>0. \A i \in Size(k) : g[i] = z[i][c]
    BY DEF Column
  <2> HIDE DEF g
  <2>1. Terms(k, f)
    BY <1>1, <2>0 DEF Terms
  <2>2. \A i \in Size(k) : h[i] = x[c] (.) f[i]
    <3>1. ASSUME NEW i \in Size(k) PROVE h[i] = x[c] (.) f[i]
      <4>1. h[i] = u[i] (.) (z[i][c] (.) x[c])
        OBVIOUS
      <4>2. f[i] = u[i] (.) z[i][c]
        BY <2>0
      <4> HIDE DEF h, f
      <4> QED  BY <1>1, <4>1, <4>2
    <3> HIDE DEF h, f
    <3> QED  BY <3>1
  <2>3. x[c] \in GF
    BY DEF Terms
  <2>4. XorSum(k, h) = x[c] (.) XorSum(k, f)
    <3> HIDE DEF f, h
    <3> QED  BY <2>1, <2>2, <2>3, SumScale
  <2>5. XorSum(k, f) \in GF
    <3> HIDE DEF f
    <3> QED  BY <2>1, SumStep
  <2>6. e[c] = XorSum(k, f)
    BY DEF Dot, g
  <2>7. right[c] = XorSum(k, h)
    OBVIOUS
  <2> HIDE DEF f, h, e, right, a
  <2> QED  BY <2>3, <2>4, <2>5, <2>6, <2>7, Mul
<1>6. Dot(k, u, w) = XorSum(k, left)
  <2>1. [i \in Size(k) |-> u[i] (.) w[i]] = [i \in Size(k) |-> left[i]]
    <3> HIDE DEF w, left
    <3> QED  BY <1>4
  <2>2. left = [i \in Size(k) |-> left[i]]
    OBVIOUS
  <2> HIDE DEF w, left
  <2> QED  BY <2>1, <2>2 DEF Dot
<1>7. Dot(k, e, x) = XorSum(k, right)
  <2>1. [c \in Size(k) |-> e[c] (.) x[c]] = [c \in Size(k) |-> right[c]]
    <3> HIDE DEF e, right
    <3> QED  BY <1>5
  <2>2. right = [c \in Size(k) |-> right[c]]
    OBVIOUS
  <2> HIDE DEF e, right
  <2> QED  BY <2>1, <2>2 DEF Dot
<1> QED  BY <1>3, <1>6, <1>7

\* z is a right inverse of the matrix v.
RightInverse(k, v, z) ==
  /\ \A i \in Size(k) : Terms(k, z[i])
  /\ \A l, c \in Size(k) :
       Dot(k, v[l], Column(k, z, c)) = IF l = c THEN 1 ELSE 0

\* V are the powers of the elements p, all different and 0 first.
PowerRows(k, p, V) ==
  /\ Terms(k, p) /\ p[0] = 0 /\ \A i, j \in Size(k) : p[i] = p[j] => i = j
  /\ \A i \in Size(k) : Powers(k, p[i], V[i])

\* _invert_vdm inverts the matrix of the powers.
LEMMA InvertVdmInverts ==
  ASSUME NEW k \in Nat, k >= 2, NEW p, NEW V, PowerRows(k, p, V)
  PROVE  RightInverse(k, V, InvertVdm(k, p))
<1> DEFINE c == Coefficients(k, p)
           g == Monic(k, c)
           b(r) == QuotientOf(k, c, p[r])
           t(r) == ValuesOf(k, b(r), p[r])[0]
           z == InvertVdm(k, p)
<1>0. /\ Terms(k, p) /\ p[0] = 0 /\ \A i, j \in Size(k) : p[i] = p[j] => i = j
      /\ \A i \in Size(k) : Powers(k, p[i], V[i]) /\ Terms(k, V[i])
      /\ \A i \in Size(k) : p[i] \in GF
  BY DEF PowerRows, Powers, Terms
<1>1. Terms(k, c) /\ \A l \in Size(k) : Root(k, c, p[l])
  BY <1>0, CoefficientRoots
<1>2. z = [i \in Size(k) |-> [r \in Size(k) |-> Inv[t(r)] (.) b(r)[i]]]
  BY DEF InvertVdm, QuotientOf, ValuesOf
<1> HIDE DEF c, z
<1>3. ASSUME NEW r \in Size(k)
      PROVE  /\ Quotient(k, g, p[r], b(r)) /\ b(r)[k - 1] = 1
             /\ b(r) \in [Size(k) -> GF] /\ Terms(k, b(r))
             /\ Horner(k, b(r), p[r], ValuesOf(k, b(r), p[r]))
  <2>1. p[r] \in GF /\ k >= 1
    BY <1>0
  <2>2. /\ Quotient(k, g, p[r], b(r)) /\ b(r)[k - 1] = 1
        /\ b(r) \in [Size(k) -> GF]
    BY <1>1, <2>1, QuotientOfDef
  <2>3. Terms(k, b(r))
    BY <2>2 DEF Terms
  <2> DEFINE B == b(r)
  <2>4. Horner(k, B, p[r], ValuesOf(k, B, p[r]))
    <3>1. Terms(k, B) /\ B[k - 1] = 1
      BY <2>2, <2>3
    <3> HIDE DEF B
    <3> QED  BY <2>1, <3>1, ValuesOfDef
  <2> QED  BY <2>2, <2>3, <2>4
<1> HIDE DEF g
<1>4. ASSUME NEW l \in Size(k)
      PROVE  \E W : /\ Powers(k + 1, p[l], W) /\ Dot(k + 1, g, W) = 0
                    /\ \A i \in Size(k) : W[i] = V[l][i]
  <2> DEFINE x == p[l]
             v == V[l]
  <2>1. x \in GF /\ k >= 1 /\ Powers(k, x, v) /\ k + 1 \in Nat /\ k + 1 >= 1
    BY <1>0
  <2> HIDE DEF x, v
  <2>2. PICK w : Powers(k + 1, x, w) /\ \A i \in Size(k) : w[i] = v[i]
    BY <2>1, PowersExtend
  <2>3. PICK W : Powers(k + 1 + 1, x, W) /\ \A i \in Size(k + 1) : W[i] = w[i]
    BY <2>1, <2>2, PowersExtend
  <2>4. Powers(k + 1, x, W)
    <3>1. \A i \in Size(k + 1) : W[i] \in GF
      BY <2>3 DEF Powers, Terms, Size
    <3>2. W[0] = 1 /\ \A j \in Size(k) : W[j + 1] = x (.) W[j]
      BY <2>3 DEF Powers, Size
    <3> QED  BY <3>1, <3>2 DEF Powers, Terms
  <2>5. Dot(k + 1, g, W) = 0
    <3>1. k + 1 + 1 = k + 2
      OBVIOUS
    <3> QED  BY <1>1, <2>3, <3>1 DEF Root, g, x
  <2>6. \A i \in Size(k) : W[i] = v[i]
    BY <2>2, <2>3 DEF Size
  <2> QED  BY <2>4, <2>5, <2>6 DEF x, v
<1>5. ASSUME NEW r \in Size(k) PROVE g[0] (+) (p[r] (.) b(r)[0]) = 0
  <2> DEFINE B == b(r)
  <2>1. PICK W : Powers(k + 1, p[r], W) /\ Dot(k + 1, g, W) = 0
    BY <1>4
  <2>2. Quotient(k, g, p[r], B) /\ p[r] \in GF /\ k >= 1
    BY <1>0, <1>3
  <2> HIDE DEF B
  <2>3. Dot(k + 1, g, W) = g[0] (+) (p[r] (.) B[0])
    BY <2>1, <2>2, Remainder
  <2> QED  BY <2>1, <2>3 DEF B
<1>6. ASSUME NEW r \in Size(k), NEW l \in Size(k), l # r
      PROVE  Dot(k, b(r), V[l]) = 0
  <2> DEFINE B == b(r)
             x == p[l]
             a == p[r]
             v == V[l]
  <2>1. PICK W : /\ Powers(k + 1, x, W) /\ Dot(k + 1, g, W) = 0
                 /\ \A i \in Size(k) : W[i] = v[i]
    BY <1>4
  <2>2. /\ Quotient(k, g, a, B) /\ x \in GF /\ a \in GF /\ k >= 1 /\ x # a
        /\ g[0] (+) (a (.) B[0]) = 0 /\ Terms(k, B) /\ Terms(k, v)
    BY <1>0, <1>3, <1>5, <1>6
  <2> HIDE DEF B, x, a, v
  <2>3. /\ (x (+) a) (.) Dot(k, B, W)
             = Dot(k + 1, g, W) (+) (g[0] (+) (a (.) B[0]))
        /\ Dot(k, B, W) \in GF
    BY <2>1, <2>2, Division
  <2>4. (x (+) a) (.) Dot(k, B, W) = 0
    <3>1. 0 (+) 0 = 0
      BY Add
    <3> QED  BY <2>1, <2>2, <2>3, <3>1
  <2>5. x (+) a \in GF /\ x (+) a # 0
    BY <2>2, Add, AddCancel
  <2>6. Dot(k, B, W) = 0
    BY <2>3, <2>4, <2>5, Mul
  <2>7. Dot(k, B, W) = Dot(k, B, v)
    BY <2>1, <2>2, DotSame
  <2> QED  BY <2>6, <2>7 DEF B, v
<1>7. ASSUME NEW r \in Size(k) PROVE t(r) = Dot(k, b(r), V[r])
  <2> DEFINE B == b(r)
             f == ValuesOf(k, b(r), p[r])
  <2>1. Horner(k, B, p[r], f) /\ Powers(k, p[r], V[r]) /\ p[r] \in GF
    BY <1>0, <1>3
  <2> HIDE DEF B, f
  <2>2. f[0] = Dot(k, B, V[r])
    BY <2>1, HornerValue
  <2> QED  BY <2>2 DEF B, f
<1>8. ASSUME NEW r \in Size(k) PROVE t(r) \in GF /\ t(r) # 0
  <2> DEFINE B == b(r)
  <2>1. Terms(k, B) /\ B[k - 1] = 1
    BY <1>3
  <2>2. t(r) = Dot(k, B, V[r])
    BY <1>7
  <2>3. \A l \in Size(k) : l # r => Dot(k, B, V[l]) = 0
    BY <1>6
  <2> HIDE DEF B, t
  <2>4. Dot(k, B, V[r]) \in GF
    BY <1>0, <2>1, DotStep
  <2>5. Dot(k, B, V[r]) # 0
    <3>1. SUFFICES ASSUME Dot(k, B, V[r]) = 0 PROVE FALSE
      OBVIOUS
    <3>2. Vanishes(k, B, p, V)
      BY <1>0, <2>1, <2>3, <3>1 DEF Vanishes
    <3>3. B[k - 1] = 0
      BY <3>2, Roots DEF Size
    <3> QED  BY <2>1, <3>3
  <2> QED  BY <2>2, <2>4, <2>5
<1>9. ASSUME NEW r \in Size(k)
      PROVE  Inv[t(r)] \in GF /\ Inv[t(r)] (.) t(r) = 1
  <2> HIDE DEF t
  <2> QED  BY <1>8, Mul
<1>10. ASSUME NEW i \in Size(k) PROVE Terms(k, z[i])
  <2>1. ASSUME NEW r \in Size(k) PROVE z[i][r] \in GF
    <3>1. b(r)[i] \in GF /\ Inv[t(r)] \in GF
      BY <1>3, <1>9
    <3>2. z[i][r] = Inv[t(r)] (.) b(r)[i]
      BY <1>2
    <3> HIDE DEF b, t
    <3> QED  BY <3>1, <3>2, Mul
  <2> QED  BY <2>1 DEF Terms
<1>11. ASSUME NEW l \in Size(k), NEW r \in Size(k)
       PROVE  Dot(k, V[l], Column(k, z, r)) = IF l = r THEN 1 ELSE 0
  <2> DEFINE B == b(r)
             d == Column(k, z, r)
             a == Inv[t(r)]
             v == V[l]
  <2>1. Terms(k, B) /\ Terms(k, v) /\ a \in GF
    BY <1>0, <1>3, <1>9
  <2>2. \A i \in Size(k) : d[i] = a (.) B[i]
    BY <1>2 DEF Column
  <2>3. Dot(k, B, v) = IF l = r THEN t(r) ELSE 0
    BY <1>6, <1>7
  <2>4. a (.) t(r) = 1 /\ a (.) 0 = 0
    BY <1>9, MulZero
  <2> HIDE DEF B, d, a, v, t
  <2>5. Dot(k, v, d) = a (.) Dot(k, B, v)
    BY <2>1, <2>2, DotScale
  <2>6. Dot(k, v, d) = IF l = r THEN 1 ELSE 0
    BY <2>3, <2>4, <2>5
  <2> QED  BY <2>6 DEF v, d
<1> QED  BY <1>10, <1>11 DEF RightInverse, z

-----------------------------------------------------------------------------
\* fec_new.

\* A number has one remainder.
LEMMA OneRest ==
  ASSUME NEW d \in Nat \ {0}, NEW p \in Nat, NEW q \in Nat,
         NEW r \in 0..(d - 1), NEW s \in 0..(d - 1), d * p + r = d * q + s
  PROVE  r = s
<1>1. ASSUME NEW a \in Nat, NEW b \in Nat, NEW u \in 0..(d - 1),
             NEW w \in 0..(d - 1), d * a + u = d * b + w
      PROVE  ~(a < b)
  <2>1. SUFFICES ASSUME a < b PROVE FALSE
    OBVIOUS
  <2> DEFINE e == b - a
             x == d * e
             y == d * a
             z == d * b
  <2>2. e \in Nat /\ e >= 1 /\ b = a + e
    BY <2>1
  <2>3. z = y + x /\ y \in Nat
    <3>1. \A i, j \in Nat : d * (i + j) = d * i + d * j /\ d * i \in Nat
      OBVIOUS
    <3> HIDE DEF e
    <3> QED  BY <2>2, <3>1
  <2>4. x = d + d * (e - 1) /\ d * (e - 1) \in Nat /\ x \in Nat
    <3> HIDE DEF e
    <3> QED  BY <2>2, Multiple
  <2>5. x >= d
    <3> HIDE DEF x
    <3> QED  BY <2>4
  <2>6. y + u = z + w
    BY <1>1
  <2> HIDE DEF x, y, z
  <2> QED  BY <2>3, <2>4, <2>5, <2>6
<1>2. p = q
  <2>1. ~(p < q) /\ ~(q < p)
    BY <1>1
  <2> QED  BY <2>1
<1> DEFINE x == d * p
           y == d * q
<1>3. x = y /\ x \in Nat /\ x + r = y + s
  BY <1>2
<1> HIDE DEF x, y
<1> QED  BY <1>3

\* One more factor of an exponent.
LEMMA ModAdd ==
  ASSUME NEW d \in Nat \ {0}, NEW a \in Nat, NEW n \in Nat
  PROVE  (a + (n % d)) % d = (a + n) % d
<1> DEFINE q == n \div d
           r == n % d
           p == (a + r) \div d
           s == (a + r) % d
           u == (a + n) \div d
           w == (a + n) % d
<1>1. q \in Nat /\ r \in 0..(d - 1) /\ n = d * q + r
  BY DivRest
<1>2. p \in Nat /\ s \in 0..(d - 1) /\ a + r = d * p + s
  <2>1. a + r \in Nat
    BY <1>1
  <2> HIDE DEF r
  <2> QED  BY <2>1, DivRest
<1>3. u \in Nat /\ w \in 0..(d - 1) /\ a + n = d * u + w
  <2>1. a + n \in Nat
    OBVIOUS
  <2> QED  BY <2>1, DivRest
<1> HIDE DEF q, r, p, s, u, w
<1>4. d * (q + p) + s = d * u + w
  <2>1. \A i, j \in Nat : d * (i + j) = d * i + d * j /\ d * i \in Nat
    OBVIOUS
  <2>2. d * (q + p) = d * q + d * p /\ d * q \in Nat /\ d * p \in Nat
        /\ d * u \in Nat
    BY <1>1, <1>2, <1>3, <2>1
  <2> DEFINE x == d * q
             y == d * p
             z == d * u
             t == d * (q + p)
  <2>3. t = x + y /\ x \in Nat /\ y \in Nat /\ z \in Nat /\ n = x + r
        /\ a + r = y + s /\ a + n = z + w
    BY <1>1, <1>2, <1>3, <2>2
  <2>4. t + s = z + w
    <3> HIDE DEF x, y, z, t
    <3> QED  BY <1>1, <1>2, <1>3, <2>3
  <2> QED  BY <2>4
<1>5. q + p \in Nat
  BY <1>1, <1>2
<1>6. s = w
  BY <1>2, <1>3, <1>4, <1>5, OneRest
<1> QED  BY <1>6 DEF s, w, r

\* The elements whose powers are the rows of the matrix.
Element(r) == IF r = 0 THEN 0 ELSE GfExp[r - 1]

\* Their powers are the rows, and no two are the same.
LEMMA VandermondeRows ==
  ASSUME NEW n \in 1..MaxN, NEW k \in 1..n
  PROVE  /\ \A r \in 0..(n - 1) : Element(r) \in GF
         /\ \A r, s \in 0..(n - 1) : Element(r) = Element(s) => r = s
         /\ \A r \in 0..(n - 1) : Powers(k, Element(r), Vandermonde(k, n)[r])
         /\ k >= 2 =>
              \A r \in 0..(n - 1) : Vandermonde(k, n)[r][1] = Element(r)
<1>1. Q \in Nat /\ Q >= 1 /\ MaxN \in 1..(Q + 1) /\ k \in Nat /\ k >= 1
  BY MaskGrows, FecAssumption
<1>2. \A r \in 0..(n - 1) : r # 0 => r - 1 \in Exponents
  BY <1>1 DEF Exponents
<1>3. \A r \in 0..(n - 1) : r # 0 => Element(r) \in GF \ {0}
  BY <1>2, ExpLog DEF Element
<1>4. Element(0) = 0 /\ 0 \in GF
  BY Add DEF Element
<1>5. ASSUME NEW r \in 0..(n - 1), NEW s \in 0..(n - 1),
             Element(r) = Element(s)
      PROVE  r = s
  <2>1. CASE r = 0 \/ s = 0
    BY <1>3, <1>4, <1>5, <2>1
  <2>2. CASE r # 0 /\ s # 0
    <3>1. r - 1 = s - 1
      BY <1>2, <1>5, <2>2, ExpLog DEF Element
    <3> QED  BY <3>1
  <2> QED  BY <2>1, <2>2
<1>6. ASSUME NEW r \in 0..(n - 1)
      PROVE  /\ Powers(k, Element(r), Vandermonde(k, n)[r])
             /\ k >= 2 => Vandermonde(k, n)[r][1] = Element(r)
  <2> DEFINE v == Vandermonde(k, n)[r]
  <2>1. \A c \in Size(k) : v[c] = IF r = 0 THEN (IF c = 0 THEN 1 ELSE 0)
                                  ELSE GfExp[((r - 1) * c) % Q]
    BY DEF Vandermonde
  <2> HIDE DEF v
  <2>2. CASE r = 0
    <3>1. Terms(k, v) /\ v[0] = 1
      BY <1>1, <2>1, <2>2, Add DEF Terms, Size
    <3>2. ASSUME NEW j \in Size(k - 1) PROVE v[j + 1] = 0 (.) v[j]
      <4>1. v[j + 1] = 0
        BY <2>1, <2>2 DEF Size
      <4> QED  BY <4>1, MulZero
    <3>3. k >= 2 => v[1] = 0
      BY <2>1, <2>2 DEF Size
    <3> QED  BY <1>4, <2>2, <3>1, <3>2, <3>3 DEF Powers, v
  <2>3. CASE r # 0
    <3> DEFINE a == r - 1
    <3>1. a \in Exponents /\ a \in Nat /\ a < Q
      BY <1>1, <1>2, <2>3 DEF Exponents
    <3>2. Element(r) = GfExp[a]
      BY <2>3 DEF Element
    <3>3. \A c \in Size(k) : v[c] = GfExp[(a * c) % Q]
      BY <2>1, <2>3
    <3> HIDE DEF a
    <3>4. \A c \in Nat : a * c \in Nat /\ (a * c) % Q \in Exponents
      <4>1. \A c \in Nat : a * c \in Nat
        BY <3>1
      <4>2. \A x \in Nat : x % Q \in 0..(Q - 1)
        BY <1>1
      <4> QED  BY <4>1, <4>2 DEF Exponents
    <3>5. \A c \in Size(k) : v[c] \in GF \ {0} /\ GfLog[v[c]] = (a * c) % Q
      <4>1. \A c \in Size(k) : (a * c) % Q \in Exponents
        BY <3>4 DEF Size
      <4> QED  BY <3>3, <4>1, ExpLog
    <3>6. 0 \in Size(k) /\ v[0] = 1
      <4>1. a * 0 = 0 /\ 0 % Q = 0 /\ 0 \in Size(k)
        <5>1. 0 % Q = 0
          BY <1>1, ModRound
        <5> QED  BY <1>1, <3>1, <5>1 DEF Size
      <4> QED  BY <3>3, <4>1, GfExpSteps
    <3>7. ASSUME NEW j \in Size(k - 1) PROVE v[j + 1] = GfExp[a] (.) v[j]
      <4>1. j \in Size(k) /\ j + 1 \in Size(k) /\ j \in Nat
        BY DEF Size
      <4>2. GfExp[a] \in GF \ {0} /\ GfLog[GfExp[a]] = a
        BY <3>1, ExpLog
      <4>3. GfExp[a] (.) v[j] = GfExp[(a + ((a * j) % Q)) % Q]
        BY <3>5, <4>1, <4>2, MulLogs
      <4>4. (a + ((a * j) % Q)) % Q = (a + a * j) % Q
        <5> DEFINE x == a * j
        <5>1. x \in Nat
          BY <3>4, <4>1
        <5> HIDE DEF x
        <5>2. (a + (x % Q)) % Q = (a + x) % Q
          <6>1. Q \in Nat \ {0}
            BY <1>1
          <6> QED  BY <3>1, <5>1, <6>1, ModAdd, Zenon
        <5> QED  BY <5>2 DEF x
      <4>5. a * (j + 1) = a + a * j
        BY <3>1, <4>1
      <4>6. v[j + 1] = GfExp[(a * (j + 1)) % Q]
        BY <3>3, <4>1
      <4> QED  BY <4>3, <4>4, <4>5, <4>6
    <3>8. k >= 2 => v[1] = GfExp[a]
      <4>1. a * 1 = a /\ a % Q = a
        BY <1>1, <3>1, ModRound
      <4>2. k >= 2 => 1 \in Size(k)
        BY DEF Size
      <4> QED  BY <3>3, <4>1, <4>2
    <3> QED  BY <3>2, <3>5, <3>6, <3>7, <3>8 DEF Powers, Terms, v
  <2> QED  BY <2>2, <2>3
<1> QED  BY <1>3, <1>4, <1>5, <1>6

\* The matrix that makes the rows systematic.
TopInverted(k, n) ==
  IF k = 1 THEN [r \in {0} |-> Unit(1, 0)]
  ELSE InvertVdm(k, [i \in Size(k) |-> Vandermonde(k, n)[i][1]])

\* The inverse that fec_new uses is one of the top rows.
LEMMA TopInverse ==
  ASSUME NEW n \in 1..MaxN, NEW k \in 1..n
  PROVE  RightInverse(k, Vandermonde(k, n), TopInverted(k, n))
<1> DEFINE V == Vandermonde(k, n)
           z == TopInverted(k, n)
<1>1. /\ \A r \in Size(k) : r \in 0..(n - 1)
      /\ \A r \in Size(k) : Element(r) \in GF
      /\ \A r, s \in Size(k) : Element(r) = Element(s) => r = s
      /\ \A r \in Size(k) : Powers(k, Element(r), V[r])
      /\ k >= 2 => \A r \in Size(k) : V[r][1] = Element(r)
  <2>1. \A r \in Size(k) : r \in 0..(n - 1)
    BY DEF Size
  <2> QED  BY <2>1, VandermondeRows
<1>2. CASE k = 1
  <2>1. z = [r \in {0} |-> Unit(1, 0)] /\ Size(1) = {0}
    BY <1>2 DEF TopInverted, Size
  <2>2. Unit(1, 0) = [j \in {0} |-> 1]
    BY <2>1 DEF Unit
  <2> DEFINE d == Column(1, z, 0)
             v == V[0]
  <2>3. z[0][0] = 1 /\ d[0] = 1 /\ Terms(1, d) /\ Terms(1, z[0])
    BY <2>1, <2>2, Add DEF Column, Terms
  <2>4. v[0] = 1 /\ Terms(1, v)
    BY <1>1, <1>2, <2>1 DEF Powers
  <2> HIDE DEF d, v, z
  <2>5. Dot(1, v, d) = 1
    <3>1. 0 \in Size(1) /\ 1 \in Nat
      BY <2>1
    <3>2. Dot(0 + 1, v, d) = Dot(0, v, d) (+) (v[0] (.) d[0])
          /\ Dot(0, v, d) = 0
      BY <2>3, <2>4, <3>1, DotStep
    <3>3. 1 (.) 1 = 1 /\ 0 (+) 1 = 1
      BY Add, Mul
    <3> QED  BY <2>3, <2>4, <3>2, <3>3
  <2> QED  BY <1>2, <2>1, <2>3, <2>5 DEF RightInverse, d, v, z
<1>3. CASE k # 1
  <2> DEFINE p == [i \in Size(k) |-> V[i][1]]
  <2>1. k >= 2 /\ k \in Nat
    BY <1>3
  <2>2. \A i \in Size(k) : p[i] = Element(i)
    BY <1>1, <2>1
  <2>3. z = InvertVdm(k, p)
    BY <1>3 DEF TopInverted
  <2> HIDE DEF V, p, z
  <2>4. PowerRows(k, p, V)
    <3>1. 0 \in Size(k) /\ Element(0) = 0
      BY <2>1 DEF Size, Element
    <3> QED  BY <1>1, <2>2, <3>1 DEF PowerRows, Terms
  <2>5. RightInverse(k, V, InvertVdm(k, p))
    BY <2>1, <2>4, InvertVdmInverts
  <2> QED  BY <2>3, <2>5 DEF V, z
<1> QED  BY <1>2, <1>3

\* The code of fec_new: its rows are of field elements, the first k of them
\* the identity.
LEMMA EncoderRows ==
  ASSUME NEW n \in 1..MaxN, NEW k \in 1..n
  PROVE  /\ FecNew(k, n).k = k /\ FecNew(k, n).n = n
         /\ \A r \in 0..(n - 1) : FecNew(k, n).enc[r] =
              IF r < k THEN Unit(k, r)
              ELSE [c \in Size(k) |-> Dot(k, Vandermonde(k, n)[r],
                                          Column(k, TopInverted(k, n), c))]
         /\ \A r \in 0..(n - 1) : Terms(k, FecNew(k, n).enc[r])
<1> DEFINE V == Vandermonde(k, n)
           z == TopInverted(k, n)
           e == FecNew(k, n).enc
<1>1. FecNew(k, n).k = k /\ FecNew(k, n).n = n
  BY DEF FecNew
<1>2. \A r \in 0..(n - 1) : e[r] =
              IF r < k THEN Unit(k, r)
              ELSE [c \in Size(k) |-> Dot(k, V[r], Column(k, z, c))]
  BY DEF FecNew, TopInverted, Column
<1>3. RightInverse(k, V, z)
  BY TopInverse
<1>4. \A r \in 0..(n - 1) : Terms(k, V[r])
  BY VandermondeRows DEF Powers
<1> HIDE DEF V, z, e
<1>5. ASSUME NEW r \in 0..(n - 1) PROVE Terms(k, e[r])
  <2>1. CASE r < k
    <3>1. e[r] = Unit(k, r)
      BY <1>2, <2>1
    <3> QED  BY <3>1, Add DEF Unit, Terms
  <2>2. CASE ~(r < k)
    <3>1. ASSUME NEW c \in Size(k) PROVE Dot(k, V[r], Column(k, z, c)) \in GF
      <4>1. Terms(k, Column(k, z, c))
        BY <1>3 DEF RightInverse, Column, Terms
      <4>2. k \in Nat /\ Terms(k, V[r])
        BY <1>4
      <4> QED  BY <4>1, <4>2, DotStep
    <3>2. e[r] = [c \in Size(k) |-> Dot(k, V[r], Column(k, z, c))]
      BY <1>2, <2>2
    <3> QED  BY <3>1, <3>2 DEF Terms
  <2> QED  BY <2>1, <2>2
<1> QED  BY <1>1, <1>2, <1>5 DEF V, z, e

\* R picks k rows of the encoder, no two the same.
Independent(k, n, R) ==
  /\ \A i \in Size(k) : R[i] \in 0..(n - 1)
  /\ \A i, j \in Size(k) : R[i] = R[j] => i = j

\* Any k rows of the encoder of fec_new are independent, whatever the field,
\* k and n: what all of them turn into 0 is 0.
THEOREM AnyKIndependent ==
  ASSUME NEW n \in 1..MaxN, NEW k \in 1..n, NEW R, Independent(k, n, R),
         NEW x, Terms(k, x),
         \A i \in Size(k) : Dot(k, FecNew(k, n).enc[R[i]], x) = 0
  PROVE  \A j \in Size(k) : x[j] = 0
<1> DEFINE V == Vandermonde(k, n)
           z == TopInverted(k, n)
           e == FecNew(k, n).enc
           w == [i \in Size(k) |-> Dot(k, z[i], x)]
<1>1. k \in Nat /\ k >= 1 /\ \A r \in Size(k) : r \in 0..(n - 1)
  BY DEF Size
<1>2. RightInverse(k, V, z)
  BY TopInverse
<1>3. \A r \in 0..(n - 1) : e[r] =
              IF r < k THEN Unit(k, r)
              ELSE [c \in Size(k) |-> Dot(k, V[r], Column(k, z, c))]
  BY EncoderRows
<1>4. \A r \in 0..(n - 1) : Element(r) \in GF /\ Powers(k, Element(r), V[r])
      /\ Terms(k, V[r])
  BY VandermondeRows DEF Powers
<1>5. \A r, s \in 0..(n - 1) : Element(r) = Element(s) => r = s
  BY VandermondeRows
<1>6. \A i \in Size(k) : Dot(k, e[R[i]], x) = 0
  OBVIOUS
<1> HIDE DEF V, z, e
<1>7. Terms(k, w)
  <2>1. ASSUME NEW i \in Size(k) PROVE Dot(k, z[i], x) \in GF
    <3>1. Terms(k, z[i])
      BY <1>2 DEF RightInverse
    <3> QED  BY <1>1, <3>1, DotStep
  <2> QED  BY <2>1 DEF Terms
<1>8. ASSUME NEW r \in 0..(n - 1)
      PROVE  Dot(k, V[r], w)
               = Dot(k, [c \in Size(k) |-> Dot(k, V[r], Column(k, z, c))], x)
  <2>1. Terms(k, V[r]) /\ \A i \in Size(k) : Terms(k, z[i])
    BY <1>2, <1>4 DEF RightInverse
  <2> DEFINE u == V[r]
  <2>2. Terms(k, u)
    BY <2>1
  <2> HIDE DEF u
  <2>3. Dot(k, u, [i \in Size(k) |-> Dot(k, z[i], x)])
           = Dot(k, [c \in Size(k) |-> Dot(k, u, Column(k, z, c))], x)
    BY <1>1, <2>1, <2>2, DotThrough
  <2> QED  BY <2>3 DEF u
<1> HIDE DEF w
<1>9. ASSUME NEW l \in Size(k) PROVE Dot(k, V[l], w) = x[l]
  <2>1. [c \in Size(k) |-> Dot(k, V[l], Column(k, z, c))] = Unit(k, l)
    BY <1>2 DEF RightInverse, Unit
  <2>2. Dot(k, Unit(k, l), x) = x[l]
    BY <1>1, DotUnit
  <2>3. l \in 0..(n - 1)
    BY <1>1
  <2> QED  BY <1>8, <2>1, <2>2, <2>3
<1>10. ASSUME NEW r \in 0..(n - 1) PROVE Dot(k, e[r], x) = Dot(k, V[r], w)
  <2>1. CASE r < k
    <3>1. r \in Size(k)
      BY <2>1 DEF Size
    <3>2. e[r] = Unit(k, r)
      BY <1>3, <2>1
    <3>3. Dot(k, Unit(k, r), x) = x[r]
      BY <1>1, <3>1, DotUnit
    <3> QED  BY <1>9, <3>1, <3>2, <3>3
  <2>2. CASE ~(r < k)
    BY <1>3, <1>8, <2>2
  <2> QED  BY <2>1, <2>2
<1> DEFINE q == [i \in Size(k) |-> Element(R[i])]
           W == [i \in Size(k) |-> V[R[i]]]
<1>11. \A i \in Size(k) : R[i] \in 0..(n - 1)
       /\ \A j \in Size(k) : R[i] = R[j] => i = j
  BY DEF Independent
<1>12. Vanishes(k, w, q, W)
  <2>1. Terms(k, q) /\ \A i \in Size(k) : Powers(k, q[i], W[i])
    BY <1>4, <1>11 DEF Terms
  <2>2. \A i, j \in Size(k) : q[i] = q[j] => i = j
    BY <1>5, <1>11
  <2>3. ASSUME NEW i \in Size(k) PROVE Dot(k, w, W[i]) = 0
    <3> DEFINE v == V[R[i]]
    <3>1. Terms(k, v) /\ Dot(k, v, w) = 0
      BY <1>4, <1>6, <1>10, <1>11
    <3>2. W[i] = v
      OBVIOUS
    <3> HIDE DEF v, W
    <3>3. Dot(k, v, w) = Dot(k, w, v)
      BY <1>1, <1>7, <3>1, DotSym
    <3> QED  BY <3>1, <3>2, <3>3
  <2> HIDE DEF q, W
  <2> QED  BY <1>7, <2>1, <2>2, <2>3 DEF Vanishes
<1>13. \A j \in Size(k) : w[j] = 0
  <2> HIDE DEF q, W
  <2> QED  BY <1>1, <1>12, Roots
<1>14. ASSUME NEW j \in Size(k) PROVE x[j] = 0
  <2> DEFINE f == [i \in Size(k) |-> V[j][i] (.) w[i]]
  <2>1. \A i \in Size(k) : f[i] = 0
    BY <1>13, MulZero
  <2>2. XorSum(k, f) = 0
    <3> HIDE DEF f
    <3> QED  BY <1>1, <2>1, SumNone
  <2>3. Dot(k, V[j], w) = 0
    BY <2>2 DEF Dot
  <2> QED  BY <1>9, <2>3
<1> QED  BY <1>14

-----------------------------------------------------------------------------
\* The fragments that arrive.

\* What apply_fec starts from: the code of a block, and as many of its
\* fragments as it has data fragments.
Received ==
  /\ code.n \in 1..MaxN /\ code.k \in 1..code.n
  /\ code = FecNew(code.k, code.n)
  /\ have \in SUBSET (0..(code.n - 1)) /\ Cardinality(have) = code.k

\* The data fragments from i on that are missing.
Missing(i) == {g \in Size(code.k) \ have : g >= i}
\* The fragments from j on that arrived.
Rest(j) == {b \in have : b >= j}

\* Arrived finds the first of the fragments that are left.
LEMMA ArrivedFirst ==
  ASSUME Received, NEW j \in Nat, Rest(j) # {}
  PROVE  /\ Arrived(j) \in have /\ Arrived(j) \in Nat /\ j <= Arrived(j)
         /\ \A b \in have : j <= b => Arrived(j) <= b
<1>1. have \subseteq Nat
  BY DEF Received
<1>2. Rest(j) \in SUBSET Nat
  BY <1>1 DEF Rest
<1>3. PICK a \in Rest(j) : \A b \in Rest(j) : a <= b
  <2> DEFINE S == Rest(j)
  <2>1. S \in SUBSET Nat /\ S # {}
    BY <1>2
  <2> HIDE DEF S
  <2>2. \E a \in S : \A b \in S : a <= b
    BY <2>1, LeastNatural
  <2> QED  BY <2>2 DEF S
<1>4. a \in have /\ j <= a /\ \A b \in have : j <= b => a <= b
  BY <1>1, <1>3 DEF Rest
<1>5. Arrived(j) \in have /\ j <= Arrived(j)
      /\ \A b \in have : j <= b => Arrived(j) <= b
  BY <1>4 DEF Arrived
<1> QED  BY <1>1, <1>5

\* As many parity fragments arrived as data fragments are missing.
LEMMA AsManyParity ==
  ASSUME Received
  PROVE  /\ Cardinality(Missing(0)) = Cardinality(Rest(code.k))
         /\ \A i : IsFiniteSet(Missing(i)) /\ IsFiniteSet(Rest(i))
<1> DEFINE k == code.k
           D == Size(k)
<1>1. k \in Nat /\ Cardinality(have) = k /\ have \subseteq Nat
  BY DEF Received
<1>2. IsFiniteSet(D) /\ Cardinality(D) = k
  <2>1. 0 \in Int /\ k - 1 \in Int
    BY <1>1
  <2> HIDE DEF k
  <2>2. IsFiniteSet(0..(k - 1))
        /\ Cardinality(0..(k - 1)) = IF 0 > k - 1 THEN 0 ELSE k - 1 - 0 + 1
    BY <2>1, FS_Interval
  <2> QED  BY <1>1, <2>2 DEF Size
<1>3. IsFiniteSet(have)
  <2> DEFINE N == 0..(code.n - 1)
  <2>1. 0 \in Int /\ code.n - 1 \in Int
    BY DEF Received
  <2>2. IsFiniteSet(N)
    BY <2>1, FS_Interval
  <2>3. have \in SUBSET N
    BY DEF Received
  <2> HIDE DEF N
  <2> QED  BY <2>2, <2>3, FS_Subset
<1>4. Missing(0) = D \ have
  BY <1>1 DEF Missing, Size
<1>5. Rest(k) = have \ D
  <2>1. ASSUME NEW b \in have PROVE b >= k <=> b \notin D
    <3>1. b \in Nat /\ k \in Nat
      BY <1>1
    <3> HIDE DEF k
    <3> QED  BY <3>1 DEF Size
  <2> HIDE DEF k
  <2>2. D \subseteq Int
    BY <1>1 DEF Size
  <2> HIDE DEF D
  <2> QED  BY <2>1 DEF Rest
<1>6. /\ Cardinality(D \ have) = k - Cardinality(D \cap have)
      /\ Cardinality(have \ D) = k - Cardinality(have \cap D)
  <2> HIDE DEF D, k
  <2> QED  BY <1>1, <1>2, <1>3, FS_Difference
<1>7. D \cap have = have \cap D
  OBVIOUS
<1>8. ASSUME NEW i PROVE IsFiniteSet(Missing(i)) /\ IsFiniteSet(Rest(i))
  <2>1. Missing(i) \in SUBSET D /\ Rest(i) \in SUBSET have
    BY DEF Missing, Rest
  <2> HIDE DEF D
  <2> QED  BY <1>2, <1>3, <2>1, FS_Subset
<1> QED  BY <1>4, <1>5, <1>6, <1>7, <1>8

\* The function next of Stand.
NextFree ==
  CHOOSE next : next = [i \in 0..code.k |->
        IF i = 0 THEN code.k
        ELSE IF i - 1 \in have THEN next[i - 1]
        ELSE Arrived(next[i - 1]) + 1]

\* It has as many fragments left as there are gaps left.
Enough(f, i) ==
  /\ f[i] \in Nat /\ f[i] >= code.k
  /\ Cardinality(Missing(i)) = Cardinality(Rest(f[i]))

\* A gap takes one of them, and leaves enough for the gaps after it.
LEMMA NextFreeStep ==
  ASSUME Received, NEW i \in Size(code.k), NEW f, Enough(f, i), i \notin have,
         f[i + 1] = Arrived(f[i]) + 1
  PROVE  /\ Enough(f, i + 1) /\ Rest(f[i]) # {} /\ Arrived(f[i]) + 1 \in Nat
         /\ f[i + 1] > f[i] /\ Arrived(f[i]) >= f[i]
<1> DEFINE k == code.k
           j == f[i]
           a == Arrived(j)
<1>1. /\ k \in Nat /\ i \in Nat /\ i < k /\ j \in Nat /\ j >= k
      /\ have \subseteq Nat
  BY DEF Received, Enough, Size
<1>2. i \in Missing(i)
  BY <1>1 DEF Missing
<1>3. /\ Cardinality(Missing(i)) = Cardinality(Rest(j))
      /\ IsFiniteSet(Missing(i)) /\ IsFiniteSet(Rest(j))
  BY AsManyParity DEF Enough
<1>4. Rest(j) # {}
  <2>1. Cardinality(Missing(i)) # 0
    BY <1>2, <1>3, FS_EmptySet
  <2> HIDE DEF j
  <2> QED  BY <1>3, <2>1, FS_EmptySet
<1>5. a \in have /\ a \in Nat /\ j <= a /\ \A b \in have : j <= b => a <= b
  <2> HIDE DEF j
  <2> QED  BY <1>1, <1>4, ArrivedFirst
<1> HIDE DEF a
<1>6. Missing(i + 1) = Missing(i) \ {i}
  BY <1>1 DEF Missing, Size
<1>7. Rest(a + 1) = Rest(j) \ {a} /\ a \in Rest(j)
  <2>1. ASSUME NEW b \in have PROVE b >= a + 1 <=> (b >= j /\ b # a)
    <3>1. b \in Nat /\ (j <= b => a <= b) /\ j <= a /\ a \in Nat /\ j \in Nat
      BY <1>1, <1>5
    <3> HIDE DEF j
    <3> QED  BY <3>1
  <2>2. a \in have /\ a >= j
    BY <1>1, <1>5
  <2> HIDE DEF j
  <2> QED  BY <2>1, <2>2 DEF Rest
<1>8. Cardinality(Missing(i) \ {i}) = Cardinality(Missing(i)) - 1
  BY <1>2, <1>3, FS_RemoveElement
<1>9. Cardinality(Rest(j) \ {a}) = Cardinality(Rest(j)) - 1
  <2> HIDE DEF j
  <2> QED  BY <1>3, <1>7, FS_RemoveElement
<1>10. Cardinality(Missing(i + 1)) = Cardinality(Rest(a + 1))
  BY <1>3, <1>6, <1>7, <1>8, <1>9
<1>11. f[i + 1] = a + 1
  BY DEF a
<1>12. Enough(f, i + 1)
  BY <1>1, <1>5, <1>10, <1>11 DEF Enough
<1> QED  BY <1>1, <1>4, <1>5, <1>11, <1>12 DEF a, j

\* It exists, and no gap is left over.
LEMMA NextFreeDef ==
  ASSUME Received
  PROVE  /\ \A i \in 0..code.k : Enough(NextFree, i)
         /\ \A i \in Size(code.k) : NextFree[i + 1] =
              IF i \in have THEN NextFree[i] ELSE Arrived(NextFree[i]) + 1
<1> DEFINE k == code.k
           E(i, a) == IF i - 1 \in have THEN a
                      ELSE IF Arrived(a) + 1 \in Nat THEN Arrived(a) + 1 ELSE 0
           G == [i \in Nat |-> [a \in Nat |-> E(i, a)]]
           M(f) == [i \in 0..k |->
                      IF i = 0 THEN k ELSE IF i - 1 \in have THEN f[i - 1]
                      ELSE Arrived(f[i - 1]) + 1]
<1>1. k \in Nat /\ k >= 1
  BY DEF Received
<1>2. G \in [Nat -> [Nat -> Nat]]
  <2>1. \A i, a \in Nat : E(i, a) \in Nat
    OBVIOUS
  <2> HIDE DEF E
  <2> QED  BY <2>1
<1>3. PICK f : Recurs(Nat, k, k, G, f)
  <2> HIDE DEF G, k
  <2> QED  BY <1>1, <1>2, Recursion
<1>4. f \in [0..k -> Nat] /\ f[0] = k
  BY <1>3 DEF Recurs
<1>5. ASSUME NEW i \in Size(k)
      PROVE  f[i + 1] = IF i \in have THEN f[i]
                        ELSE IF Arrived(f[i]) + 1 \in Nat
                        THEN Arrived(f[i]) + 1 ELSE 0
  <2> DEFINE j == i + 1
             a == f[i]
  <2>1. j \in 1..k /\ j - 1 = i /\ j \in Nat /\ a \in Nat
    BY <1>1, <1>4 DEF Size
  <2>2. f[j] = G[j][f[j - 1]]
    <3> HIDE DEF j, G
    <3> QED  BY <1>3, <2>1 DEF Recurs
  <2>3. G[j][a] = E(j, a)
    <3> HIDE DEF j, a, E
    <3> QED  BY <2>1
  <2> QED  BY <2>1, <2>2, <2>3
<1> HIDE DEF G
<1> DEFINE S == {i \in Nat : i <= k => Enough(f, i)}
<1>6. 0 \in S
  BY <1>1, <1>4, AsManyParity DEF Enough
<1>7. ASSUME NEW i \in Size(k), Enough(f, i)
      PROVE  /\ Enough(f, i + 1)
             /\ f[i + 1] = IF i \in have THEN f[i] ELSE Arrived(f[i]) + 1
  <2>1. CASE i \in have
    <3>1. f[i + 1] = f[i]
      BY <1>5, <2>1
    <3>2. Missing(i + 1) = Missing(i)
      BY <2>1 DEF Missing, Size
    <3> QED  BY <1>7, <2>1, <3>1, <3>2 DEF Enough
  <2>2. CASE i \notin have
    <3> DEFINE g == [f EXCEPT ![i + 1] = Arrived(f[i]) + 1]
    <3>1. i + 1 \in 0..k /\ i # i + 1 /\ i \in 0..k
      BY <1>1 DEF Size
    <3>2. g[i + 1] = Arrived(f[i]) + 1 /\ g[i] = f[i]
      BY <1>4, <3>1
    <3>3. Enough(g, i)
      BY <1>7, <3>2 DEF Enough
    <3> HIDE DEF g, k
    <3>4. Enough(g, i + 1) /\ Arrived(g[i]) + 1 \in Nat
      BY <2>2, <3>2, <3>3, NextFreeStep DEF k
    <3>5. f[i + 1] = Arrived(f[i]) + 1
      <4>1. Arrived(f[i]) + 1 \in Nat
        BY <3>2, <3>4
      <4> QED  BY <1>5, <2>2, <4>1 DEF k
    <3>6. f[i + 1] = g[i + 1]
      BY <3>2, <3>5
    <3> QED  BY <2>2, <3>4, <3>5, <3>6 DEF Enough
  <2> QED  BY <2>1, <2>2
<1>8. ASSUME NEW i \in Nat, i \in S PROVE i + 1 \in S
  <2>1. SUFFICES ASSUME i + 1 <= k PROVE Enough(f, i + 1)
    OBVIOUS
  <2>2. i \in Size(k) /\ Enough(f, i)
    BY <1>1, <1>8, <2>1 DEF Size
  <2> QED  BY <1>7, <2>2
<1>9. \A i \in 0..k : Enough(f, i)
  <2>1. \A i \in Nat : i \in S
    <3> HIDE DEF S
    <3> QED  BY <1>6, <1>8, Induction
  <2> QED  BY <2>1
<1>10. \A i \in Size(k) : f[i + 1] = IF i \in have THEN f[i]
                                      ELSE Arrived(f[i]) + 1
  <2>1. \A i \in Size(k) : i \in 0..k
    BY <1>1 DEF Size
  <2> QED  BY <1>7, <1>9, <2>1
<1>11. f = M(f)
  <2>1. ASSUME NEW i \in 0..k PROVE f[i] = M(f)[i]
    <3>1. CASE i = 0
      BY <1>4, <3>1
    <3>2. CASE i # 0
      <4> DEFINE j == i - 1
      <4>1. j \in Size(k) /\ j + 1 = i
        BY <1>1, <3>2 DEF Size
      <4>2. M(f)[i] = IF j \in have THEN f[j] ELSE Arrived(f[j]) + 1
        BY <3>2
      <4> HIDE DEF j, M
      <4>3. f[j + 1] = IF j \in have THEN f[j] ELSE Arrived(f[j]) + 1
        BY <1>10, <4>1
      <4> QED  BY <4>1, <4>2, <4>3
    <3> QED  BY <3>1, <3>2
  <2> QED  BY <1>4, <2>1
<1> DEFINE F == NextFree
<1>12. F = CHOOSE g : g = M(g)
  BY DEF NextFree
<1>13. F = M(F)
  <2> HIDE DEF M, F
  <2> QED  BY <1>11, <1>12
<1> HIDE DEF F
<1>14. F[0] = k /\ \A i \in Size(k) : F[i + 1] = IF i \in have THEN F[i]
                                                  ELSE Arrived(F[i]) + 1
  <2>1. F[0] = k
    BY <1>1, <1>13
  <2>2. ASSUME NEW i \in Size(k)
        PROVE  F[i + 1] = IF i \in have THEN F[i] ELSE Arrived(F[i]) + 1
    <3> DEFINE j == i + 1
    <3>1. j \in 0..k /\ j # 0 /\ j - 1 = i
      BY <1>1 DEF Size
    <3> HIDE DEF j
    <3>2. M(F)[j] = IF j - 1 \in have THEN F[j - 1]
                    ELSE Arrived(F[j - 1]) + 1
      BY <3>1
    <3> HIDE DEF M
    <3>3. F[j] = IF i \in have THEN F[i] ELSE Arrived(F[i]) + 1
      BY <1>13, <3>1, <3>2
    <3> QED  BY <3>3 DEF j
  <2> QED  BY <2>1, <2>2
<1> DEFINE U == {i \in Nat : i <= k => F[i] = f[i]}
<1>15. 0 \in U
  BY <1>4, <1>14
<1>16. ASSUME NEW i \in Nat, i \in U PROVE i + 1 \in U
  <2>1. SUFFICES ASSUME i + 1 <= k PROVE F[i + 1] = f[i + 1]
    OBVIOUS
  <2>2. i \in Size(k) /\ F[i] = f[i]
    BY <1>1, <1>16, <2>1 DEF Size
  <2> QED  BY <1>10, <1>14, <2>2
<1>17. \A i \in 0..k : F[i] = f[i]
  <2>1. \A i \in Nat : i \in U
    <3> HIDE DEF U
    <3> QED  BY <1>15, <1>16, Induction
  <2> QED  BY <2>1
<1>18. \A i \in 0..k : Enough(F, i)
  BY <1>9, <1>17 DEF Enough
<1> QED  BY <1>14, <1>18 DEF F

\* Each data fragment gets a fragment that arrived, and no two the same.
LEMMA StandIndependent ==
  ASSUME Received
  PROVE  /\ Independent(code.k, code.n, Stand)
         /\ \A i \in Size(code.k) : Stand[i] \in have
         /\ \A i \in Size(code.k) \cap have : Stand[i] = i
<1> DEFINE k == code.k
           F == NextFree
<1>1. /\ \A i \in 0..k : Enough(F, i)
      /\ \A i \in Size(k) : F[i + 1] = IF i \in have THEN F[i]
                                       ELSE Arrived(F[i]) + 1
  BY NextFreeDef
<1>2. Stand = [i \in Size(k) |-> IF i \in have THEN i ELSE Arrived(F[i])]
  BY DEF Stand, NextFree
<1>3. k \in Nat /\ have \subseteq 0..(code.n - 1) /\ code.n \in Nat
  BY DEF Received
<1> HIDE DEF F
<1>4. ASSUME NEW i \in Size(k), i \notin have
      PROVE  /\ F[i] \in Nat /\ F[i] >= k /\ Arrived(F[i]) \in have
             /\ Arrived(F[i]) >= F[i] /\ Arrived(F[i]) \in Nat
             /\ F[i + 1] = Arrived(F[i]) + 1
  <2>1. i \in 0..k /\ Enough(F, i) /\ F[i + 1] = Arrived(F[i]) + 1
    <3>1. i \in 0..k
      BY <1>3 DEF Size
    <3> QED  BY <1>1, <1>4, <3>1
  <2> HIDE DEF k
  <2>2. Rest(F[i]) # {} /\ Arrived(F[i]) >= F[i]
    BY <1>4, <2>1, NextFreeStep DEF k
  <2>3. F[i] \in Nat /\ F[i] >= k
    BY <2>1 DEF Enough, k
  <2> DEFINE j == F[i]
  <2>4. Arrived(j) \in have /\ Arrived(j) \in Nat
    <3>1. j \in Nat /\ Rest(j) # {}
      BY <2>2, <2>3
    <3> HIDE DEF j
    <3> QED  BY <3>1, ArrivedFirst
  <2> QED  BY <2>1, <2>2, <2>3, <2>4
<1>5. ASSUME NEW i \in Size(k) PROVE Stand[i] \in have
  <2>1. CASE i \in have
    BY <1>2, <2>1
  <2>2. CASE i \notin have
    BY <1>2, <1>4, <2>2
  <2> QED  BY <2>1, <2>2
<1>6. ASSUME NEW i \in Size(k)
      PROVE  F[i] \in Nat /\ F[i + 1] \in Nat /\ F[i] <= F[i + 1]
  <2>1. i \in 0..k /\ i + 1 \in 0..k
    BY <1>3 DEF Size
  <2>2. F[i] \in Nat /\ F[i + 1] \in Nat
    BY <1>1, <2>1 DEF Enough
  <2>3. CASE i \in have
    BY <1>1, <2>2, <2>3
  <2>4. CASE i \notin have
    BY <1>4, <2>2, <2>4
  <2> QED  BY <2>2, <2>3, <2>4
<1>7. ASSUME NEW i \in Size(k), NEW j \in Size(k), i < j PROVE F[i + 1] <= F[j]
  <2> DEFINE S == {l \in Nat : i + 1 + l < k => F[i + 1] <= F[i + 1 + l]}
  <2>1. i \in Nat /\ i + 1 \in Size(k)
    BY <1>3, <1>7 DEF Size
  <2>2. 0 \in S
    BY <1>6, <2>1
  <2>3. ASSUME NEW l \in Nat, l \in S PROVE l + 1 \in S
    <3>1. SUFFICES ASSUME i + 1 + (l + 1) < k
                   PROVE  F[i + 1] <= F[i + 1 + (l + 1)]
      OBVIOUS
    <3> DEFINE h == i + 1 + l
    <3>2. h \in Size(k) /\ i + 1 + (l + 1) = h + 1 /\ F[i + 1] <= F[h]
      BY <1>3, <2>1, <2>3, <3>1 DEF Size
    <3>3. F[i + 1] \in Nat
      BY <1>6
    <3> HIDE DEF h, S
    <3>4. F[h] \in Nat /\ F[h + 1] \in Nat /\ F[h] <= F[h + 1]
      BY <1>6, <3>2
    <3> QED  BY <3>2, <3>3, <3>4
  <2>4. \A l \in Nat : l \in S
    <3> HIDE DEF S
    <3> QED  BY <2>2, <2>3, Induction
  <2>5. j - (i + 1) \in Nat /\ i + 1 + (j - (i + 1)) = j /\ j < k
    BY <1>3, <1>7 DEF Size
  <2> QED  BY <2>4, <2>5
<1>8. ASSUME NEW i \in Size(k), NEW j \in Size(k), i < j
      PROVE  Stand[i] # Stand[j]
  <2>1. /\ Stand[i] = (IF i \in have THEN i ELSE Arrived(F[i]))
        /\ Stand[j] = (IF j \in have THEN j ELSE Arrived(F[j]))
    BY <1>2
  <2>2. i < k /\ j < k /\ i \in Nat /\ j \in Nat
    BY <1>3 DEF Size
  <2>3. CASE i \in have
    BY <1>3, <1>4, <1>8, <2>1, <2>2, <2>3
  <2>4. CASE i \notin have /\ j \in have
    BY <1>3, <1>4, <2>1, <2>2, <2>4
  <2>5. CASE i \notin have /\ j \notin have
    <3>1. /\ F[i + 1] = Arrived(F[i]) + 1 /\ Arrived(F[i]) \in Nat
          /\ Arrived(F[j]) >= F[j] /\ F[j] \in Nat /\ Arrived(F[j]) \in Nat
      BY <1>4, <2>5
    <3>2. F[i + 1] <= F[j]
      BY <1>7, <1>8
    <3> QED  BY <2>1, <2>5, <3>1, <3>2
  <2> QED  BY <2>3, <2>4, <2>5
<1>9. ASSUME NEW i \in Size(k), NEW j \in Size(k), Stand[i] = Stand[j]
      PROVE  i = j
  <2>1. i \in Nat /\ j \in Nat
    BY DEF Size
  <2>2. ~(i < j) /\ ~(j < i)
    BY <1>8, <1>9
  <2> QED  BY <2>1, <2>2
<1>10. \A i \in Size(k) : Stand[i] \in 0..(code.n - 1)
  BY <1>3, <1>5
<1>11. \A i \in Size(k) \cap have : Stand[i] = i
  BY <1>2
<1> QED  BY <1>5, <1>9, <1>10, <1>11 DEF Independent

-----------------------------------------------------------------------------
\* The elimination in place of _invert_mat.

\* Rows of k elements, and matrices of k rows.
Vec(k) == [Size(k) -> GF]
Matrix(k) == [Size(k) -> Vec(k)]

\* A swap of two rows, or of two elements: what is at i then.
Other(s, i) == IF i = s[1] THEN s[2] ELSE IF i = s[2] THEN s[1] ELSE i

\* What SwapRows puts there; twice the same is nothing.
LEMMA SwapAt ==
  ASSUME NEW k, NEW a, DOMAIN a = Size(k), NEW s \in Size(k) \X Size(k)
  PROVE  /\ \A i \in Size(k) : SwapRows(a, s)[i] = a[Other(s, i)]
         /\ \A i \in Size(k) : Other(s, i) \in Size(k)
         /\ \A i \in Size(k) : Other(s, Other(s, i)) = i
<1>1. s[1] \in Size(k) /\ s[2] \in Size(k)
  OBVIOUS
<1>2. ASSUME NEW i \in Size(k) PROVE SwapRows(a, s)[i] = a[Other(s, i)]
  BY <1>1 DEF SwapRows, Other
<1>3. \A i \in Size(k) : Other(s, i) \in Size(k) /\ Other(s, Other(s, i)) = i
  BY <1>1 DEF Other
<1> QED  BY <1>2, <1>3

\* A swap changes no type.
LEMMA SwapType ==
  ASSUME NEW k, NEW T, NEW a \in [Size(k) -> T], NEW s \in Size(k) \X Size(k)
  PROVE  SwapRows(a, s) \in [Size(k) -> T]
<1>1. s[1] \in Size(k) /\ s[2] \in Size(k)
  OBVIOUS
<1>2. a[s[1]] \in T /\ a[s[2]] \in T
  BY <1>1
<1> QED  BY <1>1, <1>2 DEF SwapRows

\* The elements that the matrix of the loop takes: those of z where a pivot
\* was, those of x elsewhere. What it gives is the other way round.
Mixed(k, U, x, z) == [j \in Size(k) |-> IF j \in U THEN z[j] ELSE x[j]]

\* The rows of A, in the order h, turn x into z.
Sends(k, A, h, x, z) == \A i \in Size(k) : z[i] = Dot(k, A[h[i]], x)

\* The matrix a turns what it takes into what it gives.
Holds(k, a, U, x, z) ==
  \A i \in Size(k) : Mixed(k, U, z, x)[i] = Dot(k, a[i], Mixed(k, U, x, z))

\* The matrix a stands for A, its rows in the order h, with the pivots U
\* exchanged: the invariant of the elimination in place.
Exchanged(k, A, h, a, U) ==
  \A x, z \in Vec(k) : Sends(k, A, h, x, z) <=> Holds(k, a, U, x, z)

\* A swap of rows without a pivot keeps it.
LEMMA SwapExchanged ==
  ASSUME NEW k \in Nat, NEW A, NEW h \in [Size(k) -> Size(k)],
         NEW a \in Matrix(k), NEW U, NEW s \in Size(k) \X Size(k),
         s[1] \notin U, s[2] \notin U, Exchanged(k, A, h, a, U)
  PROVE  Exchanged(k, A, SwapRows(h, s), SwapRows(a, s), U)
<1> DEFINE g == SwapRows(h, s)
           b == SwapRows(a, s)
           o(i) == Other(s, i)
<1>1. /\ \A i \in Size(k) : g[i] = h[o(i)] /\ b[i] = a[o(i)]
      /\ \A i \in Size(k) : o(i) \in Size(k) /\ o(o(i)) = i
  <2>1. DOMAIN h = Size(k) /\ DOMAIN a = Size(k)
    BY DEF Matrix
  <2>2. \A i \in Size(k) : g[i] = h[o(i)]
    BY <2>1, SwapAt
  <2>3. \A i \in Size(k) : o(i) \in Size(k) /\ o(o(i)) = i
    BY <2>1, SwapAt
  <2>4. \A i \in Size(k) : b[i] = a[o(i)]
    BY <2>1, SwapAt
  <2> QED  BY <2>2, <2>3, <2>4
<1>2. \A i \in Size(k) : i \in U <=> o(i) \in U
  BY DEF Other
<1>3. \A i \in Size(k) : i \in U => o(i) = i
  BY DEF Other
<1> HIDE DEF g, b, o
<1>4. SUFFICES ASSUME NEW x \in Vec(k), NEW z \in Vec(k)
               PROVE  Sends(k, A, g, x, z) <=> Holds(k, b, U, x, z)
  BY DEF Exchanged, g, b
<1> DEFINE w == [i \in Size(k) |-> z[o(i)]]
<1>5. w \in Vec(k) /\ \A i \in Size(k) : w[i] = z[o(i)]
  BY <1>1 DEF Vec
<1> HIDE DEF w
<1>6. Sends(k, A, h, x, w) <=> Holds(k, a, U, x, w)
  BY <1>5 DEF Exchanged
<1>7. Sends(k, A, g, x, z) <=> Sends(k, A, h, x, w)
  <2>1. ASSUME Sends(k, A, g, x, z), NEW i \in Size(k)
        PROVE  w[i] = Dot(k, A[h[i]], x)
    <3>1. z[o(i)] = Dot(k, A[g[o(i)]], x)
      BY <1>1, <2>1 DEF Sends
    <3>2. g[o(i)] = h[i]
      BY <1>1
    <3> QED  BY <1>5, <3>1, <3>2
  <2>2. ASSUME Sends(k, A, h, x, w), NEW i \in Size(k)
        PROVE  z[i] = Dot(k, A[g[i]], x)
    <3>1. w[o(i)] = Dot(k, A[h[o(i)]], x)
      BY <1>1, <2>2 DEF Sends
    <3>2. w[o(i)] = z[i] /\ g[i] = h[o(i)]
      BY <1>1, <1>5
    <3> QED  BY <3>1, <3>2
  <2> QED  BY <2>1, <2>2 DEF Sends
<1>8. Mixed(k, U, x, w) = Mixed(k, U, x, z)
  BY <1>3, <1>5 DEF Mixed
<1>9. \A i \in Size(k) : Mixed(k, U, w, x)[i] = Mixed(k, U, z, x)[o(i)]
  BY <1>1, <1>2, <1>3, <1>5 DEF Mixed
<1> DEFINE v == Mixed(k, U, x, z)
           p == Mixed(k, U, z, x)
           q == Mixed(k, U, w, x)
<1>10. /\ Holds(k, b, U, x, z) <=> \A i \in Size(k) : p[i] = Dot(k, b[i], v)
       /\ Holds(k, a, U, x, w) <=> \A i \in Size(k) : q[i] = Dot(k, a[i], v)
  BY <1>8 DEF Holds
<1> HIDE DEF v, p, q
<1>11. \A i \in Size(k) : q[i] = p[o(i)]
  BY <1>9 DEF p, q
<1>12. ASSUME \A i \in Size(k) : p[i] = Dot(k, b[i], v), NEW i \in Size(k)
       PROVE  q[i] = Dot(k, a[i], v)
  <2>1. p[o(i)] = Dot(k, b[o(i)], v)
    BY <1>1, <1>12
  <2>2. b[o(i)] = a[i]
    BY <1>1
  <2> QED  BY <1>11, <2>1, <2>2
<1>13. ASSUME \A i \in Size(k) : q[i] = Dot(k, a[i], v), NEW i \in Size(k)
       PROVE  p[i] = Dot(k, b[i], v)
  <2>1. q[o(i)] = Dot(k, a[o(i)], v)
    BY <1>1, <1>13
  <2>2. q[o(i)] = p[i] /\ b[i] = a[o(i)]
    BY <1>1, <1>11
  <2> QED  BY <2>1, <2>2
<1> QED  BY <1>6, <1>7, <1>10, <1>12, <1>13

-----------------------------------------------------------------------------
\* One place of a product set apart: r0 is the row without it, and w may
\* differ from u there.
Apart(k, p, r, r0, u, w) ==
  /\ Terms(k, r) /\ Terms(k, u) /\ r0[p] = 0
  /\ \A j \in Size(k) : j # p => r0[j] = r[j] /\ w[j] = u[j]

\* The product is that of the rest, and the product at p.
LEMMA DotPart ==
  ASSUME NEW k \in Nat, NEW r, NEW r0, NEW u, NEW w, NEW p \in Size(k),
         Apart(k, p, r, r0, u, w)
  PROVE  /\ Dot(k, r, u) = Dot(k, r0, w) (+) (r[p] (.) u[p])
         /\ Dot(k, r0, w) \in GF
<1> DEFINE f == [j \in Size(k) |-> r[j] (.) u[j]]
           g == [j \in Size(k) |-> r0[j] (.) w[j]]
<1>0. /\ Terms(k, r) /\ Terms(k, u) /\ r0[p] = 0
      /\ \A j \in Size(k) : j # p => r0[j] = r[j] /\ w[j] = u[j]
  BY DEF Apart
<1>1. Terms(k, f)
  BY <1>0, Mul DEF Terms
<1>2. g[p] = 0 /\ \A j \in Size(k) : j # p => g[j] = f[j]
  BY <1>0, MulZero
<1>3. f[p] = r[p] (.) u[p]
  OBVIOUS
<1>4. XorSum(k, f) = Dot(k, r, u) /\ XorSum(k, g) = Dot(k, r0, w)
  BY DEF Dot
<1> HIDE DEF f, g
<1>5. Terms(k, g)
  BY <1>1, <1>2, Add DEF Terms
<1>6. XorSum(k, g) = XorSum(k, f) (+) (f[p] (+) g[p])
  BY <1>1, <1>2, <1>5, SumChange
<1>7. XorSum(k, f) \in GF /\ XorSum(k, g) \in GF /\ f[p] \in GF
  BY <1>1, <1>5, SumStep DEF Terms
<1>8. XorSum(k, f) = XorSum(k, g) (+) f[p]
  <2>1. f[p] (+) g[p] = f[p]
    BY <1>2, <1>7, Add
  <2> QED  BY <1>6, <1>7, <2>1, AddCancel
<1> QED  BY <1>3, <1>4, <1>7, <1>8

\* A row plus a multiple of another.
LEMMA DotRows ==
  ASSUME NEW k \in Nat, NEW r, NEW s, NEW c \in GF, NEW t, NEW u,
         Terms(k, r), Terms(k, s), Terms(k, u),
         \A j \in Size(k) : t[j] = r[j] (+) (c (.) s[j])
  PROVE  Dot(k, t, u) = Dot(k, r, u) (+) (c (.) Dot(k, s, u))
<1> DEFINE f == [j \in Size(k) |-> r[j] (.) u[j]]
           g == [j \in Size(k) |-> s[j] (.) u[j]]
           e == [j \in Size(k) |-> c (.) g[j]]
           h == [j \in Size(k) |-> t[j] (.) u[j]]
<1>1. Terms(k, f) /\ Terms(k, g)
  BY Mul DEF Terms
<1>2. ASSUME NEW j \in Size(k) PROVE h[j] = f[j] (+) e[j]
  <2> DEFINE a == r[j]
             b == s[j]
             d == u[j]
  <2>1. a \in GF /\ b \in GF /\ d \in GF
    BY DEF Terms
  <2>2. /\ h[j] = (a (+) (c (.) b)) (.) d
        /\ f[j] = a (.) d /\ e[j] = c (.) (b (.) d)
    OBVIOUS
  <2> HIDE DEF a, b, d, f, e, h
  <2>3. c (.) b \in GF
    BY <2>1, Mul
  <2>4. (a (+) (c (.) b)) (.) d = (a (.) d) (+) ((c (.) b) (.) d)
    BY <2>1, <2>3, Distributive
  <2>5. (c (.) b) (.) d = c (.) (b (.) d)
    BY <2>1, Mul
  <2> QED  BY <2>2, <2>4, <2>5
<1>3. \A j \in Size(k) : e[j] = c (.) g[j]
  OBVIOUS
<1>4. /\ Dot(k, t, u) = XorSum(k, h) /\ Dot(k, r, u) = XorSum(k, f)
      /\ Dot(k, s, u) = XorSum(k, g)
  BY DEF Dot
<1> HIDE DEF f, g, e, h
<1>5. XorSum(k, e) = c (.) XorSum(k, g) /\ Terms(k, e)
  BY <1>1, <1>3, SumScale
<1>6. XorSum(k, h) = XorSum(k, f) (+) XorSum(k, e)
  BY <1>1, <1>2, <1>5, SumAdd
<1> QED  BY <1>4, <1>5, <1>6

\* A multiple of a row.
LEMMA DotMultiple ==
  ASSUME NEW k \in Nat, NEW s, NEW c \in GF, NEW t, NEW u,
         Terms(k, s), Terms(k, u), \A j \in Size(k) : t[j] = c (.) s[j]
  PROVE  Dot(k, t, u) = c (.) Dot(k, s, u)
<1> DEFINE g == [j \in Size(k) |-> s[j] (.) u[j]]
           h == [j \in Size(k) |-> t[j] (.) u[j]]
<1>1. Terms(k, g)
  BY Mul DEF Terms
<1>2. ASSUME NEW j \in Size(k) PROVE h[j] = c (.) g[j]
  <2> DEFINE b == s[j]
             d == u[j]
  <2>1. b \in GF /\ d \in GF
    BY DEF Terms
  <2>2. h[j] = (c (.) b) (.) d /\ g[j] = b (.) d
    OBVIOUS
  <2> HIDE DEF b, d, g, h
  <2> QED  BY <2>1, <2>2, Mul
<1>3. Dot(k, t, u) = XorSum(k, h) /\ Dot(k, s, u) = XorSum(k, g)
  BY DEF Dot
<1> HIDE DEF g, h
<1>4. XorSum(k, h) = c (.) XorSum(k, g)
  BY <1>1, <1>2, SumScale
<1> QED  BY <1>3, <1>4

\* The arithmetic of a pivot: its row gives x from z, and z from x.
LEMMA PivotRow ==
  ASSUME NEW p \in GF, p # 0, NEW c, c = Inv[p],
         NEW x \in GF, NEW z \in GF, NEW d \in GF
  PROVE  z = d (+) (p (.) x) <=> x = (c (.) d) (+) (c (.) z)
<1>1. c \in GF /\ c (.) p = 1 /\ p (.) c = 1
  <2>1. p \in GF \ {0}
    OBVIOUS
  <2>2. Inv[p] \in GF \ {0} /\ Inv[p] (.) p = 1
    BY <2>1, Mul
  <2>3. c \in GF /\ c (.) p = 1
    BY <2>2
  <2>4. p (.) c = c (.) p
    BY <2>3, Mul
  <2> QED  BY <2>3, <2>4
<1>0. \A u, v, w \in GF : (u (.) v) (.) w = u (.) (v (.) w)
  BY Mul
<1>2. p (.) x \in GF /\ c (.) d \in GF /\ c (.) z \in GF
  BY <1>1, Mul
<1>3. ASSUME z = d (+) (p (.) x) PROVE x = (c (.) d) (+) (c (.) z)
  <2>1. c (.) z = (c (.) d) (+) (c (.) (p (.) x))
    BY <1>1, <1>2, <1>3, Distributive
  <2>2. c (.) (p (.) x) = x
    <3>1. c (.) (p (.) x) = (c (.) p) (.) x
      BY <1>0, <1>1
    <3> QED  BY <1>1, <3>1, Mul
  <2> QED  BY <1>2, <2>1, <2>2, AddCancel
<1>4. ASSUME x = (c (.) d) (+) (c (.) z) PROVE z = d (+) (p (.) x)
  <2>1. p (.) x = (p (.) (c (.) d)) (+) (p (.) (c (.) z))
    BY <1>1, <1>2, <1>4, Distributive
  <2>2. \A y \in GF : p (.) (c (.) y) = y
    <3>1. ASSUME NEW y \in GF PROVE p (.) (c (.) y) = y
      <4>1. p (.) (c (.) y) = (p (.) c) (.) y
        BY <1>0, <1>1
      <4> QED  BY <1>1, <4>1, Mul
    <3> QED  BY <3>1
  <2>3. p (.) x = d (+) z
    BY <2>1, <2>2
  <2> QED  BY <2>3, AddCancel
<1> QED  BY <1>3, <1>4

\* Eliminate is of field elements.
LEMMA EliminateType ==
  ASSUME NEW k \in Nat, k = code.k, NEW a \in Matrix(k), NEW p \in Size(k),
         a[p][p] # 0
  PROVE  Eliminate(a, p) \in Matrix(k) /\ Inv[a[p][p]] \in GF
<1> DEFINE c == Inv[a[p][p]]
           row == [j \in Size(k) |-> IF j = p THEN c ELSE c (.) a[p][j]]
           E(i, j) == (IF j = p THEN 0 ELSE a[i][j]) (+) (a[i][p] (.) row[j])
<1>1. \A i, j \in Size(k) : a[i][j] \in GF
  BY DEF Matrix, Vec
<1>2. c \in GF
  <2> DEFINE e == a[p][p]
  <2>1. e \in GF \ {0}
    BY <1>1
  <2> HIDE DEF e
  <2>2. Inv[e] \in GF
    BY <2>1, Mul
  <2> QED  BY <2>2 DEF e
<1> HIDE DEF c
<1>3. row \in Vec(k)
  <2>1. \A j \in Size(k) : c (.) a[p][j] \in GF
    BY <1>1, <1>2, Mul
  <2> QED  BY <1>2, <2>1 DEF Vec
<1>4. Eliminate(a, p) = [i \in Size(k) |->
                           IF i = p THEN row ELSE [j \in Size(k) |-> E(i, j)]]
  BY DEF Eliminate, c
<1> HIDE DEF row
<1>5. ASSUME NEW i \in Size(k) PROVE [j \in Size(k) |-> E(i, j)] \in Vec(k)
  <2>1. ASSUME NEW j \in Size(k) PROVE E(i, j) \in GF
    <3>1. a[i][j] \in GF /\ a[i][p] \in GF /\ row[j] \in GF /\ 0 \in GF
      BY <1>1, <1>3, Add DEF Vec
    <3>2. a[i][p] (.) row[j] \in GF
      BY <3>1, Mul
    <3> QED  BY <3>1, <3>2, Add
  <2> HIDE DEF E
  <2> QED  BY <2>1 DEF Vec
<1> HIDE DEF E
<1> QED  BY <1>2, <1>3, <1>4, <1>5 DEF Matrix, c

\* The equation of a row that has i out of place: what it gives, of u with x
\* at the pivot and of w with z there, is the same once x is what the row of
\* the pivot gives of w.
LEMMA OtherRow ==
  ASSUME NEW k \in Nat, NEW r, NEW row, NEW t, NEW u, NEW w, NEW p \in Size(k),
         Terms(k, r), Terms(k, row), Terms(k, u), Terms(k, w),
         \A j \in Size(k) : j # p => w[j] = u[j],
         \A j \in Size(k) : t[j] = (IF j = p THEN 0 ELSE r[j])
                                     (+) (r[p] (.) row[j]),
         u[p] = Dot(k, row, w)
  PROVE  Dot(k, t, w) = Dot(k, r, u)
<1> DEFINE r0 == [j \in Size(k) |-> IF j = p THEN 0 ELSE r[j]]
<1>1. Terms(k, r0) /\ r0[p] = 0 /\ \A j \in Size(k) : j # p => r0[j] = r[j]
  BY Add DEF Terms
<1>2. \A j \in Size(k) : t[j] = r0[j] (+) (r[p] (.) row[j])
  OBVIOUS
<1>3. r[p] \in GF
  BY DEF Terms
<1> HIDE DEF r0
<1>4. Dot(k, t, w) = Dot(k, r0, w) (+) (r[p] (.) Dot(k, row, w))
  BY <1>1, <1>2, <1>3, DotRows
<1>5. Dot(k, r, u) = Dot(k, r0, w) (+) (r[p] (.) u[p])
  <2>1. Apart(k, p, r, r0, u, w)
    BY <1>1 DEF Apart
  <2> QED  BY <2>1, DotPart
<1> QED  BY <1>4, <1>5

\* One pivot more, and the equations are the same ones.
LEMMA EliminateExchanged ==
  ASSUME NEW k \in Nat, k = code.k, NEW A, NEW h, NEW a \in Matrix(k), NEW U,
         NEW p \in Size(k), p \notin U, a[p][p] # 0, Exchanged(k, A, h, a, U)
  PROVE  Exchanged(k, A, h, Eliminate(a, p), U \cup {p})
<1> DEFINE b == Eliminate(a, p)
           c == Inv[a[p][p]]
           W == U \cup {p}
           row == [j \in Size(k) |-> IF j = p THEN c ELSE c (.) a[p][j]]
<1>1. c \in GF /\ b \in Matrix(k)
  BY EliminateType
<1>2. /\ \A i, j \in Size(k) : a[i][j] \in GF
      /\ \A i \in Size(k) : Terms(k, a[i])
  BY DEF Matrix, Vec, Terms
<1>3. /\ b[p] = row
      /\ \A i, j \in Size(k) : i # p =>
           b[i][j] = (IF j = p THEN 0 ELSE a[i][j]) (+) (a[i][p] (.) row[j])
  BY DEF Eliminate
<1>4. Terms(k, row) /\ row[p] = c
      /\ \A j \in Size(k) : j # p => row[j] = c (.) a[p][j]
  <2>1. Terms(k, b[p])
    BY <1>1 DEF Matrix, Vec, Terms
  <2>2. row[p] = c /\ \A j \in Size(k) : j # p => row[j] = c (.) a[p][j]
    OBVIOUS
  <2> HIDE DEF row, b, c
  <2> QED  BY <1>3, <2>1, <2>2
<1> HIDE DEF b, W, row
<1>5. SUFFICES ASSUME NEW x \in Vec(k), NEW z \in Vec(k)
               PROVE  Holds(k, a, U, x, z) <=> Holds(k, b, W, x, z)
  BY DEF Exchanged, W, b
<1> DEFINE u == Mixed(k, U, x, z)
           w == Mixed(k, W, x, z)
           v == Mixed(k, U, z, x)
           y == Mixed(k, W, z, x)
<1>6. /\ Terms(k, u) /\ Terms(k, w) /\ u[p] = x[p] /\ w[p] = z[p]
      /\ v[p] = z[p] /\ y[p] = x[p]
      /\ \A j \in Size(k) : j # p => w[j] = u[j] /\ y[j] = v[j]
  <2>1. \A j \in Size(k) : x[j] \in GF /\ z[j] \in GF
    BY DEF Vec
  <2>2. Terms(k, u) /\ Terms(k, w)
    BY <2>1 DEF Mixed, Terms
  <2> QED  BY <2>2 DEF Mixed, W
<1>7. /\ Holds(k, a, U, x, z) <=> \A i \in Size(k) : v[i] = Dot(k, a[i], u)
      /\ Holds(k, b, W, x, z) <=> \A i \in Size(k) : y[i] = Dot(k, b[i], w)
  BY DEF Holds
<1>8. x[p] \in GF /\ z[p] \in GF
  BY DEF Vec
<1> HIDE DEF u, w, v, y
<1>9. z[p] = Dot(k, a[p], u) <=> x[p] = Dot(k, row, w)
  <2> DEFINE r == a[p]
             r0 == [j \in Size(k) |-> IF j = p THEN 0 ELSE r[j]]
             s0 == [j \in Size(k) |-> IF j = p THEN 0 ELSE row[j]]
             d == Dot(k, r0, w)
  <2>1. Terms(k, r) /\ Terms(k, r0) /\ r[p] \in GF /\ r[p] # 0 /\ c = Inv[r[p]]
    BY <1>2, Add DEF Terms
  <2>2. /\ r0[p] = 0 /\ s0[p] = 0
        /\ \A j \in Size(k) : j # p => r0[j] = r[j] /\ s0[j] = row[j]
    OBVIOUS
  <2>3. \A j \in Size(k) : s0[j] = c (.) r0[j]
    <3>1. c (.) 0 = 0
      BY MulZero
    <3>2. \A j \in Size(k) : j # p => row[j] = c (.) r[j]
      BY <1>4
    <3> HIDE DEF r, c, s0, r0
    <3> QED  BY <2>2, <3>1, <3>2
  <2> HIDE DEF r, r0, s0, c
  <2>4. Dot(k, r, u) = d (+) (r[p] (.) u[p]) /\ d \in GF
    <3>1. Apart(k, p, r, r0, u, w)
      BY <1>6, <2>1, <2>2 DEF Apart
    <3> QED  BY <3>1, DotPart
  <2>5. Dot(k, row, w) = Dot(k, s0, w) (+) (row[p] (.) w[p])
    <3>1. Apart(k, p, row, s0, w, w)
      BY <1>4, <1>6, <2>2 DEF Apart
    <3> HIDE DEF d
    <3> QED  BY <3>1, DotPart
  <2>6. Dot(k, s0, w) = c (.) d
    BY <1>1, <1>6, <2>1, <2>3, DotMultiple
  <2> HIDE DEF d
  <2> DEFINE q == r[p]
             xp == x[p]
             zp == z[p]
  <2>7. zp = d (+) (q (.) xp) <=> xp = (c (.) d) (+) (c (.) zp)
    <3>1. q \in GF /\ q # 0 /\ c = Inv[q] /\ xp \in GF /\ zp \in GF /\ d \in GF
      BY <1>8, <2>1, <2>4
    <3> HIDE DEF q, xp, zp
    <3> QED  BY <3>1, PivotRow
  <2>8. /\ Dot(k, r, u) = d (+) (q (.) xp)
        /\ Dot(k, row, w) = (c (.) d) (+) (c (.) zp)
    BY <1>4, <1>6, <2>4, <2>5, <2>6
  <2> HIDE DEF q, xp, zp
  <2>9. zp = Dot(k, r, u) <=> xp = Dot(k, row, w)
    BY <2>7, <2>8
  <2> QED  BY <2>9 DEF r, xp, zp
<1>10. ASSUME x[p] = Dot(k, row, w), NEW i \in Size(k), i # p
       PROVE  Dot(k, b[i], w) = Dot(k, a[i], u)
  <2> DEFINE r == a[i]
             t == b[i]
  <2>1. Terms(k, r)
    BY <1>2
  <2>2. \A j \in Size(k) : t[j] = (IF j = p THEN 0 ELSE r[j])
                                     (+) (r[p] (.) row[j])
    BY <1>3, <1>10
  <2>3. u[p] = Dot(k, row, w)
    BY <1>6, <1>10
  <2>4. \A j \in Size(k) : j # p => w[j] = u[j]
    BY <1>6
  <2> HIDE DEF r, t
  <2>5. Dot(k, t, w) = Dot(k, r, u)
    BY <1>4, <1>6, <2>1, <2>2, <2>3, <2>4, OtherRow
  <2> QED  BY <2>5 DEF r, t
<1>11. ASSUME \A i \in Size(k) : v[i] = Dot(k, a[i], u), NEW i \in Size(k)
       PROVE  y[i] = Dot(k, b[i], w)
  <2>1. x[p] = Dot(k, row, w)
    BY <1>6, <1>9, <1>11
  <2>2. CASE i = p
    BY <1>3, <1>6, <2>1, <2>2
  <2>3. CASE i # p
    BY <1>6, <1>10, <1>11, <2>1, <2>3
  <2> QED  BY <2>2, <2>3
<1>12. ASSUME \A i \in Size(k) : y[i] = Dot(k, b[i], w), NEW i \in Size(k)
       PROVE  v[i] = Dot(k, a[i], u)
  <2>1. x[p] = Dot(k, row, w)
    BY <1>3, <1>6, <1>12
  <2>2. CASE i = p
    BY <1>6, <1>9, <2>1, <2>2
  <2>3. CASE i # p
    BY <1>6, <1>10, <1>12, <2>1, <2>3
  <2> QED  BY <2>2, <2>3
<1> QED  BY <1>7, <1>11, <1>12

\* The matrix keeps only 0 as what it turns into 0.
Regular(k, A, h) ==
  \A x \in Vec(k) :
    (\A i \in Size(k) : Dot(k, A[h[i]], x) = 0) => \A i \in Size(k) : x[i] = 0

\* So a pivot is left as long as a column is.
LEMMA PivotExists ==
  ASSUME NEW k \in Nat, NEW A, NEW h, NEW a \in Matrix(k), NEW U,
         NEW c \in Size(k), c \notin U,
         Exchanged(k, A, h, a, U), Regular(k, A, h)
  PROVE  \E x \in Size(k) \X Size(k) :
           x[1] \notin U /\ x[2] \notin U /\ a[x[1]][x[2]] # 0
<1>1. SUFFICES ASSUME \A r, s \in Size(k) : r \notin U /\ s \notin U
                                              => a[r][s] = 0
               PROVE  FALSE
  <2>1. ASSUME NEW r \in Size(k), NEW s \in Size(k),
               r \notin U, s \notin U, a[r][s] # 0
        PROVE  \E x \in Size(k) \X Size(k) :
                 x[1] \notin U /\ x[2] \notin U /\ a[x[1]][x[2]] # 0
    <3>1. <<r, s>> \in Size(k) \X Size(k)
      OBVIOUS
    <3>2. <<r, s>>[1] = r /\ <<r, s>>[2] = s
      OBVIOUS
    <3> QED  BY <2>1, <3>1, <3>2
  <2> QED  BY <1>1, <2>1
<1>2. /\ \A i, j \in Size(k) : a[i][j] \in GF
      /\ \A i \in Size(k) : Terms(k, a[i])
  BY DEF Matrix, Vec, Terms
<1> DEFINE z == [i \in Size(k) |-> 0]
           x == [i \in Size(k) |-> IF i \in U THEN a[i][c]
                                   ELSE IF i = c THEN 1 ELSE 0]
           u == Mixed(k, U, x, z)
<1>3. z \in Vec(k) /\ x \in Vec(k) /\ x[c] = 1
  BY <1>2, Add DEF Vec
<1>4. u[c] = 1 /\ \A j \in Size(k) : j # c => u[j] = 0
  BY DEF Mixed
<1>5. \A i \in Size(k) : Mixed(k, U, z, x)[i] = a[i][c]
  BY <1>1 DEF Mixed
<1>6. \A i \in Size(k) : z[i] = 0
  OBVIOUS
<1> HIDE DEF z, x, u
<1>7. ASSUME NEW i \in Size(k) PROVE Dot(k, a[i], u) = a[i][c]
  <2> DEFINE r == a[i]
             f == [j \in Size(k) |-> r[j] (.) u[j]]
  <2>1. r[c] \in GF
    BY <1>2
  <2>2. r[c] (.) 1 = r[c] /\ \A j \in Size(k) : r[j] (.) 0 = 0
    BY <2>1, Mul, MulZero
  <2>3. f[c] = r[c] /\ \A j \in Size(k) : j # c => f[j] = 0
    BY <1>4, <2>2
  <2>4. XorSum(k, f) = f[c]
    <3> HIDE DEF f, r
    <3> QED  BY <2>1, <2>3, SumOne
  <2> QED  BY <2>3, <2>4 DEF Dot
<1>8. Holds(k, a, U, x, z)
  BY <1>5, <1>7 DEF Holds, u
<1>9. Sends(k, A, h, x, z)
  BY <1>3, <1>8 DEF Exchanged
<1>10. \A i \in Size(k) : Dot(k, A[h[i]], x) = 0
  BY <1>6, <1>9 DEF Sends
<1>11. x[c] = 0
  BY <1>3, <1>10 DEF Regular
<1> QED  BY <1>3, <1>11

\* The order of the rows after each of the swaps w.
Orders(k, w, h) ==
  /\ h \in [0..Len(w) -> [Size(k) -> Size(k)]]
  /\ h[0] = [i \in Size(k) |-> i]
  /\ \A t \in 1..Len(w) : h[t] = SwapRows(h[t - 1], w[t])

\* No two places of g are the same.
Injective(k, g) == \A i, j \in Size(k) : g[i] = g[j] => i = j

\* Where _invert_mat is after the swaps w and with the pivots U: the
\* invariant of its loop.
Inverting(k, A, a, U, w) ==
  /\ w \in Seq(Size(k) \X Size(k)) /\ U \in SUBSET Size(k)
  /\ Cardinality(U) = Len(w) /\ a \in Matrix(k)
  /\ \E h : /\ Orders(k, w, h) /\ Injective(k, h[Len(w)])
            /\ Exchanged(k, A, h[Len(w)], a, U)

\* The rows are k.
LEMMA SizeFinite ==
  ASSUME NEW k \in Nat
  PROVE  IsFiniteSet(Size(k)) /\ Cardinality(Size(k)) = k
<1>1. 0 \in Int /\ k - 1 \in Int
  OBVIOUS
<1>2. IsFiniteSet(0..(k - 1))
      /\ Cardinality(0..(k - 1)) = IF 0 > k - 1 THEN 0 ELSE k - 1 - 0 + 1
  BY <1>1, FS_Interval
<1> QED  BY <1>2 DEF Size

\* It holds at the start, of the matrix itself.
LEMMA InvertingStart ==
  ASSUME NEW k \in Nat, NEW A \in Matrix(k)
  PROVE  Inverting(k, A, A, {}, <<>>)
<1> DEFINE id == [i \in Size(k) |-> i]
           h == [t \in 0..0 |-> id]
<1>1. Len(<<>>) = 0 /\ <<>> \in Seq(Size(k) \X Size(k))
  OBVIOUS
<1>2. h[0] = id /\ h \in [0..0 -> [Size(k) -> Size(k)]]
  OBVIOUS
<1>3. Orders(k, <<>>, h)
  <2>1. 1..0 = {}
    OBVIOUS
  <2> QED  BY <1>1, <1>2, <2>1 DEF Orders
<1>4. Injective(k, h[0])
  BY <1>2 DEF Injective
<1>5. Exchanged(k, A, id, A, {})
  <2>1. SUFFICES ASSUME NEW x \in Vec(k), NEW z \in Vec(k)
                 PROVE  Sends(k, A, id, x, z) <=> Holds(k, A, {}, x, z)
    BY DEF Exchanged
  <2>2. Mixed(k, {}, x, z) = x /\ Mixed(k, {}, z, x) = z
    BY DEF Mixed, Vec
  <2> QED  BY <2>2 DEF Sends, Holds
<1>6. Cardinality({}) = 0
  BY FS_EmptySet
<1> HIDE DEF h, id
<1>7. Exchanged(k, A, h[Len(<<>>)], A, {}) /\ Injective(k, h[Len(<<>>)])
  BY <1>1, <1>2, <1>4, <1>5
<1> QED  BY <1>1, <1>3, <1>6, <1>7 DEF Inverting

\* A column keeps it.
LEMMA InvertingStep ==
  ASSUME NEW k \in Nat, k = code.k, NEW A, NEW a, NEW U, NEW w,
         Inverting(k, A, a, U, w),
         NEW x \in Size(k) \X Size(k), x[1] \notin U, x[2] \notin U,
         a[x[1]][x[2]] # 0
  PROVE  Inverting(k, A, Eliminate(SwapRows(a, x), x[2]), U \cup {x[2]},
                   Append(w, x))
<1> DEFINE l == Len(w)
           b == SwapRows(a, x)
           v == Append(w, x)
<1>1. /\ w \in Seq(Size(k) \X Size(k)) /\ U \in SUBSET Size(k)
      /\ Cardinality(U) = l /\ a \in Matrix(k)
  BY DEF Inverting
<1>2. PICK h : /\ Orders(k, w, h) /\ Injective(k, h[l])
               /\ Exchanged(k, A, h[l], a, U)
  BY DEF Inverting
<1>3. /\ h \in [0..l -> [Size(k) -> Size(k)]]
      /\ h[0] = [i \in Size(k) |-> i]
      /\ \A t \in 1..l : h[t] = SwapRows(h[t - 1], w[t])
  BY <1>2 DEF Orders
<1>4. l \in Nat /\ Len(v) = l + 1 /\ v \in Seq(Size(k) \X Size(k))
      /\ v[l + 1] = x /\ \A t \in 1..l : v[t] = w[t]
  BY <1>1
<1> HIDE DEF l, b, v
<1> DEFINE g == SwapRows(h[l], x)
           e == [t \in 0..(l + 1) |-> IF t <= l THEN h[t] ELSE g]
<1>5. h[l] \in [Size(k) -> Size(k)]
  BY <1>3, <1>4
<1>6. g \in [Size(k) -> Size(k)]
  BY <1>5, SwapType
<1>7. DOMAIN h[l] = Size(k) /\ DOMAIN a = Size(k)
  BY <1>1, <1>5 DEF Matrix
<1>8. /\ \A i \in Size(k) : g[i] = h[l][Other(x, i)]
      /\ \A i \in Size(k) : b[i] = a[Other(x, i)]
      /\ \A i \in Size(k) : Other(x, i) \in Size(k)
      /\ \A i \in Size(k) : Other(x, Other(x, i)) = i
  <2> DEFINE f == h[l]
  <2>1. DOMAIN f = Size(k)
    BY <1>7
  <2> HIDE DEF f
  <2>2. \A i \in Size(k) : SwapRows(f, x)[i] = f[Other(x, i)]
    BY <2>1, SwapAt
  <2>3. \A i \in Size(k) : b[i] = a[Other(x, i)]
    BY <1>7, SwapAt DEF b
  <2>4. \A i \in Size(k) : Other(x, i) \in Size(k)
    BY <1>7, SwapAt
  <2>5. \A i \in Size(k) : Other(x, Other(x, i)) = i
    BY <1>7, SwapAt
  <2> QED  BY <2>2, <2>3, <2>4, <2>5 DEF f
<1>9. Injective(k, g)
  <2>1. SUFFICES ASSUME NEW i \in Size(k), NEW j \in Size(k), g[i] = g[j]
                 PROVE  i = j
    BY DEF Injective
  <2>2. Other(x, i) = Other(x, j)
    <3> HIDE DEF g
    <3> QED  BY <1>2, <1>8, <2>1 DEF Injective
  <2>3. Other(x, Other(x, i)) = i /\ Other(x, Other(x, j)) = j
    BY <1>8
  <2> QED  BY <2>2, <2>3
<1>10. b \in Matrix(k)
  <2> DEFINE T == Vec(k)
  <2>1. a \in [Size(k) -> T]
    BY <1>1 DEF Matrix
  <2> HIDE DEF T
  <2>2. SwapRows(a, x) \in [Size(k) -> T]
    BY <2>1, SwapType
  <2> QED  BY <2>2 DEF T, Matrix, b
<1>11. Exchanged(k, A, g, b, U)
  <2> DEFINE f == h[l]
  <2>1. f \in [Size(k) -> Size(k)] /\ Exchanged(k, A, f, a, U)
    BY <1>2, <1>5
  <2> HIDE DEF f
  <2>2. Exchanged(k, A, SwapRows(f, x), SwapRows(a, x), U)
    BY <1>1, <2>1, SwapExchanged
  <2> QED  BY <2>2 DEF f, b
<1>12. x[2] \in Size(k) /\ b[x[2]][x[2]] # 0
  <2>1. x[2] \in Size(k) /\ Other(x, x[2]) = x[1]
    BY DEF Other
  <2> QED  BY <1>8, <2>1
<1> HIDE DEF g
<1>13. Exchanged(k, A, g, Eliminate(b, x[2]), U \cup {x[2]})
  BY <1>10, <1>11, <1>12, EliminateExchanged
<1>14. Eliminate(b, x[2]) \in Matrix(k)
  BY <1>10, <1>12, EliminateType
<1>15. e[l + 1] = g /\ \A t \in 0..l : e[t] = h[t]
  BY <1>4
<1>16. e \in [0..(l + 1) -> [Size(k) -> Size(k)]]
  <2> DEFINE T == [Size(k) -> Size(k)]
  <2>1. h \in [0..l -> T] /\ g \in T
    BY <1>3, <1>6
  <2> HIDE DEF T
  <2>2. e \in [0..(l + 1) -> T]
    BY <1>4, <2>1
  <2> QED  BY <2>2 DEF T
<1> HIDE DEF e
<1>17. Orders(k, v, e)
  <2>1. ASSUME NEW t \in 1..(l + 1) PROVE e[t] = SwapRows(e[t - 1], v[t])
    <3>1. t - 1 \in 0..l
      BY <1>4
    <3>2. CASE t = l + 1
      <4>1. t - 1 = l
        BY <1>4, <3>2
      <4> QED  BY <1>4, <1>15, <3>1, <3>2, <4>1 DEF g
    <3>3. CASE t # l + 1
      <4>1. t \in 1..l /\ t \in 0..l
        BY <1>4, <3>3
      <4> QED  BY <1>3, <1>4, <1>15, <3>1, <4>1
    <3> QED  BY <3>2, <3>3
  <2>2. e[0] = [i \in Size(k) |-> i]
    BY <1>3, <1>4, <1>15
  <2> QED  BY <1>4, <1>16, <2>1, <2>2 DEF Orders
<1>18. Cardinality(U \cup {x[2]}) = l + 1 /\ U \cup {x[2]} \in SUBSET Size(k)
  <2>1. IsFiniteSet(U)
    BY <1>1, SizeFinite, FS_Subset
  <2>2. Cardinality(U \cup {x[2]}) = Cardinality(U) + 1
    BY <2>1, FS_AddElement
  <2> QED  BY <1>1, <1>12, <2>2
<1>19. Exchanged(k, A, e[Len(v)], Eliminate(b, x[2]), U \cup {x[2]})
       /\ Injective(k, e[Len(v)])
  BY <1>4, <1>9, <1>13, <1>15
<1>20. Inverting(k, A, Eliminate(b, x[2]), U \cup {x[2]}, v)
  BY <1>4, <1>14, <1>17, <1>18, <1>19 DEF Inverting
<1> QED  BY <1>20 DEF b, v

\* Of the pairs of a set one is before the others.
LEMMA FirstPair ==
  ASSUME NEW S \in SUBSET (Nat \X Nat), S # {}
  PROVE  \E x \in S : \A y \in S : x = y \/ Before(x, y)
<1> DEFINE R == {x[1] : x \in S}
<1>1. R \in SUBSET Nat /\ R # {}
  OBVIOUS
<1>2. PICK r \in R : \A s \in R : r <= s
  <2> HIDE DEF R
  <2> QED  BY <1>1, LeastNatural
<1> DEFINE C == {c \in Nat : <<r, c>> \in S}
<1>3. C \in SUBSET Nat /\ C # {}
  <2>1. PICK x \in S : x[1] = r
    BY <1>2
  <2>2. x = <<x[1], x[2]>> /\ x[2] \in Nat
    OBVIOUS
  <2>3. <<r, x[2]>> \in S
    BY <2>1, <2>2
  <2> QED  BY <2>2, <2>3
<1>4. PICK c \in C : \A d \in C : c <= d
  <2> HIDE DEF C
  <2> QED  BY <1>3, LeastNatural
<1> DEFINE x == <<r, c>>
<1>5. x \in S /\ r \in Nat /\ c \in Nat
  BY <1>1, <1>2, <1>4
<1>6. ASSUME NEW y \in S PROVE x = y \/ Before(x, y)
  <2>1. y = <<y[1], y[2]>> /\ y[1] \in Nat /\ y[2] \in Nat /\ y[1] \in R
    OBVIOUS
  <2>2. r <= y[1]
    BY <1>2, <2>1
  <2>3. CASE y[1] = r
    <3>1. y[2] \in C
      BY <2>1, <2>3
    <3>2. c <= y[2]
      BY <1>4, <3>1
    <3>3. x[1] = r /\ x[2] = c
      OBVIOUS
    <3>4. CASE c = y[2]
      BY <2>1, <2>3, <3>4
    <3>5. CASE c # y[2]
      <4>1. x[1] = y[1] /\ x[2] < y[2]
        BY <1>5, <2>1, <2>3, <3>2, <3>3, <3>5
      <4> HIDE DEF x
      <4> QED  BY <4>1 DEF Before
    <3> QED  BY <3>4, <3>5
  <2>4. CASE y[1] # r
    <3>1. x[1] < y[1]
      BY <1>5, <2>1, <2>2, <2>4
    <3> HIDE DEF x
    <3> QED  BY <3>1 DEF Before
  <2> QED  BY <2>3, <2>4
<1> QED  BY <1>5, <1>6

\* The search for a pivot finds one as long as a column is left.
LEMMA PivotFound ==
  ASSUME NEW k \in Nat, k = code.k, NEW A, Inverting(k, A, m, used, swaps),
         Len(swaps) < k, \A h : Injective(k, h) /\ h \in [Size(k) -> Size(k)]
                           => Regular(k, A, h),
         NEW x, x = Pivot(m, Len(swaps))
  PROVE  /\ x \in Size(k) \X Size(k) /\ x[1] \notin used /\ x[2] \notin used
         /\ m[x[1]][x[2]] # 0
<1> DEFINE l == Len(swaps)
           found == {y \in Size(k) \X Size(k) : Free(m, y[1], y[2])}
<1>1. /\ swaps \in Seq(Size(k) \X Size(k)) /\ used \in SUBSET Size(k)
      /\ Cardinality(used) = l /\ m \in Matrix(k)
  BY DEF Inverting
<1>2. l \in Nat /\ l \in Size(k)
  <2>1. l \in Nat
    BY <1>1
  <2> HIDE DEF l
  <2>2. l < k
    BY DEF l
  <2> QED  BY <2>1, <2>2 DEF Size
<1>3. PICK h : /\ Orders(k, swaps, h) /\ Injective(k, h[l])
               /\ Exchanged(k, A, h[l], m, used)
  BY DEF Inverting
<1>4. h[l] \in [Size(k) -> Size(k)]
  BY <1>2, <1>3 DEF Orders
<1>5. Regular(k, A, h[l])
  BY <1>3, <1>4
<1>6. PICK c \in Size(k) : c \notin used
  <2>1. SUFFICES ASSUME used = Size(k) PROVE FALSE
    BY <1>1
  <2>2. l = k
    BY <1>1, <2>1, SizeFinite
  <2> QED  BY <2>2
<1> HIDE DEF l
<1>7. found # {}
  <2> DEFINE f == h[l]
  <2>1. Exchanged(k, A, f, m, used) /\ Regular(k, A, f)
    BY <1>3, <1>5
  <2> HIDE DEF f
  <2>2. \E y \in Size(k) \X Size(k) :
          y[1] \notin used /\ y[2] \notin used /\ m[y[1]][y[2]] # 0
    BY <1>1, <1>6, <2>1, PivotExists
  <2> QED  BY <2>2 DEF Free
<1>8. CASE Free(m, l, l)
  <2>1. x = <<l, l>>
    BY <1>8 DEF Pivot, l
  <2> QED  BY <1>2, <1>8, <2>1 DEF Free
<1>9. CASE ~Free(m, l, l)
  <2>1. x = CHOOSE y \in found : \A z \in found : y = z \/ Before(y, z)
    BY <1>7, <1>9 DEF Pivot, l
  <2>2. \E y \in found : \A z \in found : y = z \/ Before(y, z)
    <3>1. found \in SUBSET (Nat \X Nat)
      BY DEF Size
    <3> HIDE DEF found
    <3> QED  BY <1>7, <3>1, FirstPair
  <2>3. x \in found
    <3> HIDE DEF found
    <3> QED  BY <2>1, <2>2
  <2> QED  BY <2>3 DEF Free
<1> QED  BY <1>8, <1>9

-----------------------------------------------------------------------------
\* The columns put back.

\* What a matrix does to the rows A is undone.
Rebuilds(k, A, a) ==
  \A x \in Vec(k), r \in Size(k) :
    Dot(k, a[r], [c \in Size(k) |-> Dot(k, A[c], x)]) = x[r]

\* A swap on one side of a product is one on the other.
LEMMA DotSwap ==
  ASSUME NEW k \in Nat, NEW r \in Vec(k), NEW z \in Vec(k),
         NEW s \in Size(k) \X Size(k)
  PROVE  Dot(k, SwapRows(r, s), z) = Dot(k, r, SwapRows(z, s))
<1> DEFINE q == SwapRows(r, s)
           w == SwapRows(z, s)
           f == [j \in Size(k) |-> q[j] (.) z[j]]
           g == [j \in Size(k) |-> r[j] (.) w[j]]
<1>1. s[1] \in Size(k) /\ s[2] \in Size(k)
  OBVIOUS
<1>2. /\ q[s[1]] = r[s[2]] /\ q[s[2]] = r[s[1]]
      /\ w[s[1]] = z[s[2]] /\ w[s[2]] = z[s[1]]
      /\ \A i \in Size(k) : i # s[1] /\ i # s[2] => q[i] = r[i] /\ w[i] = z[i]
  BY <1>1 DEF SwapRows, Vec
<1>3. \A i \in Size(k) : q[i] \in GF
  BY SwapType DEF Vec
<1> HIDE DEF q, w
<1>4. Terms(k, f)
  <2>1. ASSUME NEW j \in Size(k) PROVE q[j] (.) z[j] \in GF
    <3>1. z[j] \in GF
      BY DEF Vec
    <3> QED  BY <1>3, <3>1, Mul
  <2> QED  BY <2>1 DEF Terms
<1>5. g[s[1]] = f[s[2]] /\ g[s[2]] = f[s[1]]
  BY <1>1, <1>2
<1>6. \A i \in Size(k) : i # s[1] /\ i # s[2] => g[i] = f[i]
  BY <1>2
<1>7. XorSum(k, g) = XorSum(k, f)
  <2> HIDE DEF f, g
  <2> QED  BY <1>1, <1>4, <1>5, <1>6, SumSwap
<1> QED  BY <1>7 DEF Dot, q, w

\* The function put of PutBack.
Putting ==
  CHOOSE put : put = [t \in 0..code.k |->
    IF t = code.k THEN m ELSE SwapColumns(put[t + 1], swaps[t + 1])]

\* It exists, and each step down swaps two columns.
LEMMA PuttingDef ==
  ASSUME NEW k \in Nat, k = code.k, m \in Matrix(k),
         swaps \in Seq(Size(k) \X Size(k)), Len(swaps) = k
  PROVE  /\ PutBack = Putting[0] /\ Putting[k] = m
         /\ \A t \in 0..k : Putting[t] \in Matrix(k)
         /\ \A t \in 0..(k - 1) : \A r \in Size(k) :
              Putting[t][r] = SwapRows(Putting[t + 1][r], swaps[t + 1])
<1> DEFINE T == Matrix(k)
           E(t, a) == IF t \in 0..(k - 1) THEN SwapColumns(a, swaps[t + 1])
                      ELSE a
           G == [t \in Nat |-> [a \in T |-> E(t, a)]]
           M(f) == [t \in 0..k |-> IF t = k THEN m
                                   ELSE SwapColumns(f[t + 1], swaps[t + 1])]
<1>1. ASSUME NEW a \in T, NEW t \in 0..(k - 1)
      PROVE  /\ SwapColumns(a, swaps[t + 1]) \in T
             /\ \A r \in Size(k) : SwapColumns(a, swaps[t + 1])[r]
                                     = SwapRows(a[r], swaps[t + 1])
  <2> DEFINE s == swaps[t + 1]
  <2>1. s \in Size(k) \X Size(k)
    BY Z3
  <2>2. DOMAIN a = Size(k) /\ \A r \in Size(k) : a[r] \in Vec(k)
    BY DEF Matrix
  <2> HIDE DEF s
  <2>3. SwapColumns(a, s) = [r \in Size(k) |-> SwapRows(a[r], s)]
    BY <2>2 DEF SwapColumns, SwapRows
  <2>4. \A r \in Size(k) : SwapRows(a[r], s) \in Vec(k)
    <3>1. ASSUME NEW r \in Size(k) PROVE SwapRows(a[r], s) \in Vec(k)
      <4> DEFINE b == a[r]
      <4>1. b \in [Size(k) -> GF]
        BY <2>2 DEF Vec
      <4> HIDE DEF b
      <4>2. SwapRows(b, s) \in [Size(k) -> GF]
        BY <2>1, <4>1, SwapType
      <4> QED  BY <4>2 DEF b, Vec
    <3> QED  BY <3>1
  <2>5. SwapColumns(a, s) \in T
    BY <2>3, <2>4 DEF Matrix
  <2> QED  BY <2>3, <2>5 DEF s
<1>2. G \in [Nat -> [T -> T]]
  <2>1. ASSUME NEW t \in Nat, NEW a \in T PROVE E(t, a) \in T
    <3>1. CASE t \in 0..(k - 1)
      BY <1>1, <3>1
    <3> QED  BY <3>1
  <2> HIDE DEF E, T
  <2> QED  BY <2>1
<1>3. PICK f : RecursDown(T, k, m, G, f)
  <2>1. m \in T
    OBVIOUS
  <2> HIDE DEF G, T
  <2> QED  BY <1>2, <2>1, RecursionDown
<1>4. f \in [0..k -> T] /\ f[k] = m
  BY <1>3 DEF RecursDown
<1>5. ASSUME NEW t \in 0..(k - 1)
      PROVE  f[t] = SwapColumns(f[t + 1], swaps[t + 1])
  <2>1. t \in Nat /\ t + 1 \in 0..k
    OBVIOUS
  <2> DEFINE a == f[t + 1]
  <2>2. a \in T
    <3> HIDE DEF T
    <3> QED  BY <1>4, <2>1
  <2>3. f[t] = G[t][a]
    <3> HIDE DEF G
    <3> QED  BY <1>3 DEF RecursDown
  <2>4. G[t][a] = E(t, a)
    <3> HIDE DEF a, E, T
    <3> QED  BY <2>1, <2>2
  <2>5. E(t, a) = SwapColumns(a, swaps[t + 1])
    OBVIOUS
  <2> HIDE DEF E, G
  <2> QED  BY <2>3, <2>4, <2>5
<1>6. f = M(f)
  <2>1. ASSUME NEW t \in 0..k PROVE f[t] = M(f)[t]
    <3>1. CASE t = k
      BY <1>4, <3>1
    <3>2. CASE t # k
      <4>1. t \in 0..(k - 1)
        BY <3>2
      <4> QED  BY <1>5, <3>2, <4>1
    <3> QED  BY <3>1, <3>2
  <2>2. f = [t \in 0..k |-> f[t]]
    <3> HIDE DEF T
    <3> QED  BY <1>4
  <2> QED  BY <2>1, <2>2
<1> DEFINE P == Putting
<1>7. P = CHOOSE g : g = M(g)
  BY DEF Putting
<1>8. PutBack = P[0]
  BY DEF PutBack, Putting
<1>9. P = M(P)
  <2> HIDE DEF M, P
  <2> QED  BY <1>6, <1>7
<1> HIDE DEF P
<1>10. P[k] = m
  BY <1>9
<1>11. ASSUME NEW t \in 0..(k - 1)
       PROVE  P[t] = SwapColumns(P[t + 1], swaps[t + 1])
  <2>1. t \in 0..k /\ t # k
    OBVIOUS
  <2>2. M(P)[t] = SwapColumns(P[t + 1], swaps[t + 1])
    BY <2>1
  <2> HIDE DEF M
  <2> QED  BY <1>9, <2>2
<1> DEFINE S == {l \in Nat : l <= k => P[k - l] \in T}
<1>12. 0 \in S
  BY <1>10
<1>13. ASSUME NEW l \in Nat, l \in S PROVE l + 1 \in S
  <2>1. SUFFICES ASSUME l + 1 <= k PROVE P[k - (l + 1)] \in T
    OBVIOUS
  <2> DEFINE t == k - (l + 1)
             a == P[t + 1]
  <2>2. t \in 0..(k - 1) /\ t + 1 = k - l /\ a \in T
    BY <1>13, <2>1
  <2>3. P[t] = SwapColumns(a, swaps[t + 1])
    BY <1>11, <2>2
  <2> HIDE DEF t, a, T
  <2>4. P[t] \in T
    BY <1>1, <2>2, <2>3
  <2> QED  BY <2>4 DEF t
<1>14. \A t \in 0..k : P[t] \in T
  <2>1. \A l \in Nat : l \in S
    <3> HIDE DEF S
    <3> QED  BY <1>12, <1>13, Induction
  <2>2. \A t \in 0..k : k - t \in Nat /\ k - t <= k /\ k - (k - t) = t
    OBVIOUS
  <2> HIDE DEF T
  <2> QED  BY <2>1, <2>2
<1>15. ASSUME NEW t \in 0..(k - 1), NEW r \in Size(k)
       PROVE  P[t][r] = SwapRows(P[t + 1][r], swaps[t + 1])
  <2> DEFINE a == P[t + 1]
  <2>1. a \in T
    <3>1. t + 1 \in 0..k
      OBVIOUS
    <3> HIDE DEF T
    <3> QED  BY <1>14, <3>1
  <2>2. P[t] = SwapColumns(a, swaps[t + 1])
    BY <1>11
  <2> HIDE DEF a, T
  <2>3. P[t][r] = SwapRows(a[r], swaps[t + 1])
    BY <1>1, <2>1, <2>2
  <2> QED  BY <2>3 DEF a
<1> QED  BY <1>8, <1>10, <1>14, <1>15 DEF P

\* With every column a pivot and the columns put back, the matrix undoes the
\* rows.
LEMMA PutBackRebuilds ==
  ASSUME NEW k \in Nat, k = code.k, NEW A \in Matrix(k),
         Inverting(k, A, m, used, swaps), Len(swaps) = k
  PROVE  Rebuilds(k, A, PutBack) /\ PutBack \in Matrix(k)
<1>1. /\ swaps \in Seq(Size(k) \X Size(k)) /\ used \in SUBSET Size(k)
      /\ Cardinality(used) = k /\ m \in Matrix(k)
  BY DEF Inverting
<1>2. PICK h : /\ Orders(k, swaps, h)
               /\ Exchanged(k, A, h[k], m, used)
  BY DEF Inverting
<1>3. /\ h \in [0..k -> [Size(k) -> Size(k)]]
      /\ h[0] = [i \in Size(k) |-> i]
      /\ \A t \in 1..k : h[t] = SwapRows(h[t - 1], swaps[t])
  BY <1>2 DEF Orders
<1>4. used = Size(k)
  BY <1>1, SizeFinite, FS_Subset
<1> DEFINE P == Putting
<1>5. /\ PutBack = P[0] /\ P[k] = m
      /\ \A t \in 0..k : P[t] \in Matrix(k)
      /\ \A t \in 0..(k - 1) : \A r \in Size(k) :
           P[t][r] = SwapRows(P[t + 1][r], swaps[t + 1])
  BY <1>1, PuttingDef
<1> HIDE DEF P
<1>6. SUFFICES ASSUME NEW x \in Vec(k), NEW r \in Size(k)
               PROVE  Dot(k, P[0][r], [c \in Size(k) |-> Dot(k, A[c], x)])
                        = x[r]
  BY <1>5 DEF Rebuilds
<1> DEFINE Z(t) == [i \in Size(k) |-> Dot(k, A[h[t][i]], x)]
           S == {l \in Nat : l <= k => Dot(k, P[k - l][r], Z(k - l)) = x[r]}
<1>7. ASSUME NEW t \in 0..k
      PROVE  Z(t) \in Vec(k) /\ h[t] \in [Size(k) -> Size(k)]
  <2>1. h[t] \in [Size(k) -> Size(k)]
    BY <1>3
  <2>2. Terms(k, x)
    BY DEF Terms, Vec
  <2>3. ASSUME NEW i \in Size(k) PROVE Dot(k, A[h[t][i]], x) \in GF
    <3> DEFINE j == h[t][i]
               a == A[j]
    <3>1. j \in Size(k)
      BY <2>1
    <3> HIDE DEF j
    <3>2. Terms(k, a)
      BY <3>1 DEF Matrix, Vec, Terms
    <3> HIDE DEF a
    <3>3. Dot(k, a, x) \in GF
      BY <2>2, <3>2, DotStep
    <3> QED  BY <3>3 DEF a, j
  <2> QED  BY <2>1, <2>3 DEF Vec
<1>8. 0 \in S
  <2> DEFINE z == Z(k)
  <2>1. z \in Vec(k)
    BY <1>7
  <2>2. Sends(k, A, h[k], x, z)
    BY DEF Sends
  <2> HIDE DEF z
  <2>3. Holds(k, m, used, x, z)
    BY <1>2, <2>1, <2>2 DEF Exchanged
  <2>4. Mixed(k, used, x, z) = z /\ Mixed(k, used, z, x) = x
    BY <1>4, <2>1 DEF Mixed, Vec
  <2>5. x[r] = Dot(k, m[r], z)
    BY <2>3, <2>4 DEF Holds
  <2>6. Dot(k, P[k][r], Z(k)) = x[r]
    BY <1>5, <2>5 DEF z
  <2>7. k - 0 = k
    OBVIOUS
  <2> HIDE DEF Z
  <2> QED  BY <2>6, <2>7
<1>9. ASSUME NEW l \in Nat, l \in S PROVE l + 1 \in S
  <2>1. SUFFICES ASSUME l + 1 <= k
                 PROVE  Dot(k, P[k - (l + 1)][r], Z(k - (l + 1))) = x[r]
    OBVIOUS
  <2> DEFINE t == k - (l + 1)
             s == swaps[t + 1]
             a == P[t + 1][r]
             z == Z(t)
             w == Z(t + 1)
  <2>2. /\ t \in 0..(k - 1) /\ t + 1 = k - l /\ t \in 0..k /\ t + 1 \in 0..k
        /\ t + 1 \in 1..k /\ t + 1 - 1 = t /\ l <= k
    BY <2>1
  <2>3. Dot(k, P[t + 1][r], Z(t + 1)) = x[r]
    <3> HIDE DEF t, Z
    <3> QED  BY <1>9, <2>2
  <2>4. z \in Vec(k) /\ h[t] \in [Size(k) -> Size(k)]
    <3> HIDE DEF t, Z
    <3> QED  BY <1>7, <2>2
  <2>5. a \in Vec(k)
    <3> HIDE DEF t
    <3> QED  BY <1>5, <2>2 DEF Matrix
  <2>6. P[t][r] = SwapRows(a, s)
    BY <1>5, <2>2
  <2>7. s \in Size(k) \X Size(k)
    <3> HIDE DEF t
    <3> QED  BY <1>1, <2>2
  <2>8. SwapRows(z, s) = w
    <3> DEFINE g == h[t]
               e == h[t + 1]
    <3>1. e = SwapRows(g, s)
      <4> DEFINE j == t + 1
      <4>1. j \in 1..k /\ j - 1 = t
        BY <2>2
      <4> HIDE DEF t, j
      <4>2. h[j] = SwapRows(h[j - 1], swaps[j])
        BY <1>3, <4>1
      <4> QED  BY <4>1, <4>2 DEF j
    <3>2. DOMAIN g = Size(k) /\ DOMAIN z = Size(k)
      BY <2>4 DEF Vec
    <3>3. /\ \A i \in Size(k) : z[i] = Dot(k, A[g[i]], x)
          /\ w = [i \in Size(k) |-> Dot(k, A[e[i]], x)]
      OBVIOUS
    <3>4. SwapRows(z, s) \in Vec(k)
      <4> HIDE DEF z, s
      <4> QED  BY <2>4, <2>7, SwapType DEF Vec
    <3> HIDE DEF g, e, s, z, w, t
    <3>5. /\ \A i \in Size(k) : SwapRows(z, s)[i] = z[Other(s, i)]
          /\ \A i \in Size(k) : Other(s, i) \in Size(k)
      BY <2>7, <3>2, SwapAt
    <3>6. \A i \in Size(k) : e[i] = g[Other(s, i)]
      BY <2>7, <3>1, <3>2, SwapAt
    <3>7. ASSUME NEW i \in Size(k) PROVE SwapRows(z, s)[i] = w[i]
      <4> DEFINE o == Other(s, i)
      <4>1. o \in Size(k) /\ SwapRows(z, s)[i] = z[o] /\ e[i] = g[o]
        BY <3>5, <3>6
      <4> HIDE DEF o
      <4>2. z[o] = Dot(k, A[g[o]], x) /\ w[i] = Dot(k, A[e[i]], x)
        BY <3>3, <4>1
      <4> QED  BY <4>1, <4>2
    <3>8. /\ SwapRows(z, s) = [i \in Size(k) |-> SwapRows(z, s)[i]]
          /\ w = [i \in Size(k) |-> w[i]]
      BY <3>3, <3>4 DEF Vec
    <3> QED  BY <3>7, <3>8
  <2>9. Dot(k, SwapRows(a, s), z) = Dot(k, a, SwapRows(z, s))
    <3> HIDE DEF a, s, z
    <3> QED  BY <2>4, <2>5, <2>7, DotSwap
  <2>10. Dot(k, a, w) = x[r]
    BY <2>3
  <2>11. Dot(k, P[t][r], z) = x[r]
    <3> HIDE DEF a, s, z, w, t
    <3> QED  BY <2>6, <2>8, <2>9, <2>10
  <2> QED  BY <2>11
<1>10. k \in S
  <2> HIDE DEF S
  <2> QED  BY <1>8, <1>9, Induction
<1>11. Dot(k, P[0][r], Z(0)) = x[r]
  <2>1. k - k = 0
    OBVIOUS
  <2> HIDE DEF Z
  <2> QED  BY <1>10, <2>1
<1>12. Z(0) = [c \in Size(k) |-> Dot(k, A[c], x)]
  BY <1>3
<1> QED  BY <1>11, <1>12

-----------------------------------------------------------------------------
\* apply_fec.

\* The rows of the fragments that stand in for the data.
Rows == [i \in Size(code.k) |-> code.enc[index[i]]]

\* The inductive invariant of a block: what arrived, which fragment stands in
\* for which, where the inversion is, and what it ends with.
IInv ==
  /\ Received
  /\ step \in {"gather", "invert", "done"}
  /\ step = "gather" => used = {} /\ swaps = <<>>
  /\ step # "gather" => index = Stand
  /\ step = "invert" => Inverting(code.k, Rows, m, used, swaps)
  /\ step = "done" => Rebuilds(code.k, Rows, m)

\* They are a matrix that keeps only 0 as what it turns into 0.
LEMMA RowsMatrix ==
  ASSUME Received, NEW R, R = [i \in Size(code.k) |-> code.enc[Stand[i]]]
  PROVE  /\ R \in Matrix(code.k)
         /\ \A h : /\ Injective(code.k, h)
                   /\ h \in [Size(code.k) -> Size(code.k)]
                   => Regular(code.k, R, h)
<1> DEFINE k == code.k
           n == code.n
           e == FecNew(k, n).enc
<1>1. n \in 1..MaxN /\ k \in 1..n /\ code.enc = e /\ k \in Nat
  BY DEF Received
<1>2. Independent(k, n, Stand)
  BY StandIndependent
<1>3. \A r \in 0..(n - 1) : e[r] \in Vec(k)
  <2> DEFINE V == Vandermonde(k, n)
             z == TopInverted(k, n)
  <2>1. /\ \A r \in 0..(n - 1) : e[r] =
              IF r < k THEN Unit(k, r)
              ELSE [c \in Size(k) |-> Dot(k, V[r], Column(k, z, c))]
        /\ \A r \in 0..(n - 1) : Terms(k, e[r])
    <3> HIDE DEF k, n
    <3> QED  BY <1>1, EncoderRows DEF k, n
  <2> HIDE DEF e, V, z, k
  <2>2. ASSUME NEW r \in 0..(n - 1) PROVE e[r] \in Vec(k)
    <3>1. e[r] = [c \in Size(k) |-> e[r][c]]
      BY <2>1 DEF Unit
    <3>2. \A c \in Size(k) : e[r][c] \in GF
      BY <2>1 DEF Terms
    <3> QED  BY <3>1, <3>2 DEF Vec
  <2> QED  BY <2>2
<1> HIDE DEF k, n, e
<1>4. R = [i \in Size(k) |-> e[Stand[i]]]
  BY <1>1 DEF k
<1>5. R \in Matrix(k)
  BY <1>2, <1>3, <1>4 DEF Independent, Matrix
<1>6. ASSUME NEW h \in [Size(k) -> Size(k)], Injective(k, h)
      PROVE  Regular(k, R, h)
  <2>1. SUFFICES ASSUME NEW x \in Vec(k),
                        \A i \in Size(k) : Dot(k, R[h[i]], x) = 0
                 PROVE  \A i \in Size(k) : x[i] = 0
    BY DEF Regular
  <2> DEFINE S == [i \in Size(k) |-> Stand[h[i]]]
  <2>2. Independent(k, n, S)
    BY <1>2, <1>6 DEF Independent, Injective
  <2>3. \A i \in Size(k) : Dot(k, e[S[i]], x) = 0
    BY <1>4, <2>1
  <2>4. Terms(k, x)
    BY DEF Terms, Vec
  <2> HIDE DEF S
  <2> QED  BY <1>1, <2>2, <2>3, <2>4, AnyKIndependent DEF e
<1> QED  BY <1>5, <1>6 DEF k

\* A block starts from a code that fec_new makes.
LEMMA IInvInit == Init => IInv
<1>1. SUFFICES ASSUME Init PROVE IInv
  OBVIOUS
<1>2. PICK n \in 1..MaxN : \E k \in 1..n : code = FecNew(k, n)
  BY <1>1 DEF Init
<1>3. PICK k \in 1..n : code = FecNew(k, n)
  BY <1>2
<1>4. code.k = k /\ code.n = n
  BY <1>3 DEF FecNew
<1>5. Received
  BY <1>1, <1>3, <1>4 DEF Init, Received
<1> QED  BY <1>1, <1>5 DEF Init, IInv

\* Each step keeps it.
LEMMA IInvStep == IInv /\ [Next]_vars => IInv'
<1>1. SUFFICES ASSUME IInv, [Next]_vars PROVE IInv'
  OBVIOUS
<1> DEFINE k == code.k
<1>2. Received /\ k \in Nat
  BY <1>1 DEF IInv, Received
<1>3. ASSUME code' = code, have' = have
      PROVE  Received' /\ Stand' = Stand
  BY <1>2, <1>3 DEF Received, Stand, Arrived
<1>4. ASSUME code' = code, index' = index PROVE Rows' = Rows
  BY <1>4 DEF Rows
<1>5. CASE Gather
  <2>1. /\ step = "gather" /\ step' = "invert" /\ index' = Stand
        /\ m' = [i \in Size(code.k) |-> code.enc[index'[i]]]
        /\ code' = code /\ have' = have /\ used' = {} /\ swaps' = <<>>
    BY <1>1, <1>5 DEF Gather, IInv
  <2>2. Received' /\ index' = Stand'
    BY <1>3, <2>1
  <2>3. Rows' = m'
    BY <2>1 DEF Rows
  <2>4. m' \in Matrix(k)
    <3> DEFINE R == [i \in Size(code.k) |-> code.enc[Stand[i]]]
    <3>1. R \in Matrix(k)
      <4> HIDE DEF R
      <4> QED  BY <1>2, RowsMatrix DEF R
    <3> QED  BY <2>1, <3>1
  <2>5. Inverting(code.k, m', m', {}, <<>>)
    BY <1>2, <2>4, InvertingStart
  <2>6. Inverting(code.k', Rows', m', used', swaps')
    BY <2>1, <2>3, <2>5
  <2> QED  BY <2>1, <2>2, <2>6 DEF IInv, Inverting
<1>6. CASE InvertColumn
  <2>1. /\ step = "invert" /\ Len(swaps) < k /\ step' = step
        /\ index' = index /\ code' = code /\ have' = have
    BY <1>6 DEF InvertColumn
  <2>2. index = Stand /\ Inverting(k, Rows, m, used, swaps)
    BY <1>1, <2>1 DEF IInv
  <2> DEFINE x == Pivot(m, Len(swaps))
  <2>3. /\ m' = Eliminate(SwapRows(m, x), x[2])
        /\ used' = used \cup {x[2]} /\ swaps' = Append(swaps, x)
    BY <1>6 DEF InvertColumn
  <2>4. \A h : Injective(k, h) /\ h \in [Size(k) -> Size(k)]
               => Regular(k, Rows, h)
    <3>1. Rows = [i \in Size(code.k) |-> code.enc[Stand[i]]]
      BY <2>2 DEF Rows
    <3> QED  BY <1>2, <3>1, RowsMatrix
  <2>5. /\ x \in Size(k) \X Size(k) /\ x[1] \notin used /\ x[2] \notin used
        /\ m[x[1]][x[2]] # 0
    <3> HIDE DEF k, x
    <3>1. k = code.k /\ x = Pivot(m, Len(swaps))
      BY DEF k, x
    <3> QED  BY <1>2, <2>1, <2>2, <2>4, <3>1, PivotFound
  <2> HIDE DEF x
  <2>6. Inverting(k, Rows, m', used', swaps')
    BY <1>2, <2>2, <2>3, <2>5, InvertingStep
  <2>7. Received' /\ index' = Stand' /\ Rows' = Rows
    BY <1>3, <1>4, <2>1, <2>2
  <2>8. Inverting(code.k', Rows', m', used', swaps')
    BY <2>1, <2>6, <2>7
  <2> QED  BY <2>1, <2>7, <2>8 DEF IInv, Inverting
<1>7. CASE Unscramble
  <2>1. /\ step = "invert" /\ Len(swaps) = k /\ step' = "done"
        /\ m' = PutBack /\ index' = index /\ code' = code /\ have' = have
    BY <1>7 DEF Unscramble
  <2>2. index = Stand /\ Inverting(k, Rows, m, used, swaps)
    BY <1>1, <2>1 DEF IInv
  <2>3. Rows \in Matrix(k)
    <3>1. Rows = [i \in Size(code.k) |-> code.enc[Stand[i]]]
      BY <2>2 DEF Rows
    <3> QED  BY <1>2, <3>1, RowsMatrix
  <2>4. Rebuilds(k, Rows, PutBack)
    BY <1>2, <2>1, <2>2, <2>3, PutBackRebuilds
  <2>5. Received' /\ index' = Stand' /\ Rows' = Rows
    BY <1>3, <1>4, <2>1, <2>2
  <2>6. Rebuilds(code.k', Rows', m')
    BY <2>1, <2>4, <2>5
  <2> QED  BY <2>1, <2>5, <2>6 DEF IInv, Rebuilds
<1>8. CASE UNCHANGED vars
  <2>1. code' = code /\ have' = have /\ index' = index
    BY <1>8 DEF vars
  <2>2. Received' /\ Stand' = Stand /\ Rows' = Rows
    BY <1>3, <1>4, <2>1
  <2> QED  BY <1>1, <1>8, <2>2 DEF vars, IInv, Inverting, Rebuilds
<1> QED  BY <1>1, <1>5, <1>6, <1>7, <1>8 DEF Next

\* Whatever the data fragments hold, the decoder gives back those that are
\* missing.
EveryBlockRebuilt ==
  step = "done" =>
    \A data \in Vec(code.k), row \in Size(code.k) \ have :
      FecDecode(data, row) = data[row]

\* What the decoder computes is what the invariant ends with.
LEMMA IInvRebuild == IInv => EveryBlockRebuilt
<1>1. SUFFICES ASSUME IInv, step = "done", NEW data \in Vec(code.k),
                      NEW row \in Size(code.k) \ have
               PROVE  FecDecode(data, row) = data[row]
  BY DEF EveryBlockRebuilt
<1> DEFINE k == code.k
<1>2. Rebuilds(k, Rows, m)
  BY <1>1 DEF IInv
<1>3. [c \in Size(k) |-> Encoded(data, index[c])]
        = [c \in Size(k) |-> Dot(k, Rows[c], data)]
  BY DEF Encoded, Rows
<1>4. FecDecode(data, row)
        = Dot(k, m[row], [c \in Size(k) |-> Encoded(data, index[c])])
  BY DEF FecDecode
<1>5. Dot(k, m[row], [c \in Size(k) |-> Dot(k, Rows[c], data)]) = data[row]
  BY <1>2 DEF Rebuilds
<1> QED  BY <1>3, <1>4, <1>5

\* Whichever k fragments of a block of n arrive, and whatever the block holds,
\* apply_fec rebuilds every data fragment that is missing: for every field, k
\* and n.
THEOREM EveryBlockAlwaysRebuilt == Spec => []EveryBlockRebuilt
<1>1. Spec => []IInv
  BY IInvInit, IInvStep, PTL DEF Spec
<1> QED  BY <1>1, IInvRebuild, PTL

\* So it does for the blocks that the run tries, those with one symbol that
\* is not 0.
THEOREM AnyKAlwaysRebuild == Spec => []AnyKRebuild
<1>1. EveryBlockRebuilt => AnyKRebuild
  <2>1. ASSUME NEW i \in Size(code.k) PROVE Unit(code.k, i) \in Vec(code.k)
    BY Add DEF Unit, Vec
  <2> QED  BY <2>1 DEF EveryBlockRebuilt, AnyKRebuild
<1> QED  BY <1>1, EveryBlockAlwaysRebuilt, PTL

=============================================================================
