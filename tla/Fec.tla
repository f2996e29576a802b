-------------------------------- MODULE Fec --------------------------------
(***************************************************************************)
(* Reed-Solomon erasure decoding: apply_fec of the aggregator and fec.c.   *)
(* It is what Aggregator takes for granted: that any k of the n fragments  *)
(* of a block give the block back.                                         *)
(*                                                                         *)
(* The field is GF(2^Bits), in the program GF(2^8) with up to 256          *)
(* fragments. Sums of field elements are exclusive ors. A fragment is one  *)
(* symbol here: the code works on the bytes of a fragment one by one.      *)
(* The unrolled loops, and where the matrices are kept, are left out.      *)
(***************************************************************************)
EXTENDS Integers, Sequences, FiniteSets

CONSTANTS
  GfBits,    \* 8
  Pp,        \* the bits of the primitive polynomial, lowest first
  MaxN       \* the most fragments of a block, 256 at most

\* The mask of a bit, shifted left once per bit.
Mask[i \in 0..GfBits] == IF i = 0 THEN 1 ELSE 2 * Mask[i - 1]

Q == Mask[GfBits] - 1    \* 255
GF == 0..Q               \* the elements of the field: a byte

ASSUME FecAssumption ==
  /\ GfBits \in Nat \ {0} /\ Pp \in [1..(GfBits + 1) -> {0, 1}]
  /\ MaxN \in 1..(Q + 1)

VARIABLES
  code,      \* fec_t: [k, n, enc], enc the matrix of the encoder
  have,      \* fragment_map: the fragments of the block that arrived
  index,     \* which of them stands in for which data fragment
  m,         \* the matrix in _invert_mat
  used,      \* ipiv: the rows that were pivots
  swaps,     \* indxr and indxc, column by column
  step       \* "gather", "invert", "done"

vars == <<code, have, index, m, used, swaps, step>>

\* x ^ y: the lowest b bits of it first; and the sum of k terms.
XorBits[b \in 0..GfBits] ==
  [x \in GF |-> [y \in GF |->
     IF b = 0 THEN 0
     ELSE ((x + y) % 2) + 2 * XorBits[b - 1][x \div 2][y \div 2]]]

x (+) y == XorBits[GfBits][x][y]

XorSum(k, f) ==
  LET acc[i \in 0..k] == IF i = 0 THEN 0 ELSE acc[i - 1] (+) f[i - 1]
  IN acc[k]

-----------------------------------------------------------------------------
\* generate_gf: the powers of the primitive element, and back.
Reduced == XorSum(GfBits, [j \in 0..(GfBits - 1) |-> Pp[j + 1] * Mask[j]])

\* The power after x: a shift, and the polynomial if a bit falls out.
NextPower(x) ==
  LET mask == Mask[GfBits - 1]
  IN IF x < mask THEN 2 * x ELSE Reduced (+) (2 * (x - mask))

GfExp[i \in 0..(Q - 1)] ==
  IF i < GfBits THEN Mask[i]
  ELSE IF i = GfBits THEN Reduced ELSE NextPower(GfExp[i - 1])

\* What the program relies on and never checks: the powers are all the
\* elements but 0.
Primitive == Pp[1] = 1 /\ {GfExp[i] : i \in 0..(Q - 1)} = 1..Q

ASSUME FecPrimitive == Primitive

GfLog == [x \in 1..Q |-> CHOOSE i \in 0..(Q - 1) : GfExp[i] = x]

\* gf_mul, _init_mul_table
GfMul(x, y) ==
  IF x = 0 \/ y = 0 THEN 0 ELSE GfExp[(GfLog[x] + GfLog[y]) % Q]

x (.) y == GfMul(x, y)

\* The table inverse; 0 has none.
Inv == [x \in GF |-> IF x <= 1 THEN x ELSE GfExp[(Q - GfLog[x]) % Q]]

Size(k) == 0..(k - 1)
Dot(k, row, column) == XorSum(k, [i \in Size(k) |-> row[i] (.) column[i]])

-----------------------------------------------------------------------------
\* The matrix fec_new starts from: powers of the field elements, 0 first.
Vandermonde(k, n) ==
  [r \in 0..(n - 1) |-> [c \in Size(k) |->
     IF r = 0 THEN (IF c = 0 THEN 1 ELSE 0) ELSE GfExp[((r - 1) * c) % Q]]]

\* _invert_vdm on the elements p of the matrix. The coefficients of the
\* product of the x - p[i] leave out the constant one: p[0] is 0.
Coefficients(k, p) ==
  LET after[i \in Size(k)] ==
        IF i = 0 THEN [j \in Size(k) |-> IF j = k - 1 THEN p[0] ELSE 0]
        ELSE [j \in Size(k) |->
                IF j = k - 1 THEN after[i - 1][j] (+) p[i]
                ELSE IF j >= k - i
                THEN after[i - 1][j] (+) (p[i] (.) after[i - 1][j + 1])
                ELSE after[i - 1][j]]
  IN after[k - 1]

\* The quotient by x - xx, highest power first, and its value at xx.
InvertVdm(k, p) ==
  LET c == Coefficients(k, p)
      b(xx) == LET f[i \in Size(k)] ==
                     IF i = k - 1 THEN 1 ELSE c[i + 1] (+) (xx (.) f[i + 1])
               IN f
      t(xx) == LET f[i \in Size(k)] ==
                     IF i = k - 1 THEN 1 ELSE (xx (.) f[i + 1]) (+) b(xx)[i]
               IN f[0]
  IN [col \in Size(k) |-> [row \in Size(k) |->
        Inv[t(p[row])] (.) b(p[row])[col]]]

Unit(k, i) == [j \in Size(k) |-> IF j = i THEN 1 ELSE 0]

\* Wrong variant: the parity rows are not made systematic.
FecNewRaw(k, n) ==
  [k |-> k, n |-> n,
   enc |-> [r \in 0..(n - 1) |->
     IF r < k THEN Unit(k, r) ELSE Vandermonde(k, n)[r]]]

\* fec_new: the parity rows times the inverse of the top, which becomes the
\* identity.
FecNew(k, n) ==
  LET v == Vandermonde(k, n)
      inverse == IF k = 1 THEN [r \in {0} |-> Unit(1, 0)]
                 ELSE InvertVdm(k, [i \in Size(k) |-> v[i][1]])
      column(c) == [r \in Size(k) |-> inverse[r][c]]
  IN [k |-> k, n |-> n,
      enc |-> [r \in 0..(n - 1) |->
        IF r < k THEN Unit(k, r)
        ELSE [c \in Size(k) |-> Dot(k, v[r], column(c))]]]

Init ==
  /\ \E n \in 1..MaxN : \E k \in 1..n : code = FecNew(k, n)
  /\ have \in SUBSET (0..(code.n - 1)) /\ Cardinality(have) = code.k
  /\ index = <<>> /\ m = <<>> /\ used = {} /\ swaps = <<>>
  /\ step = "gather"

\* apply_fec: the data fragments that arrived are where they belong, and the
\* parity fragments fill the gaps in order. next is the code's j as it gets
\* to each fragment.
Arrived(j) ==
  CHOOSE a \in have : j <= a /\ \A b \in have : j <= b => a <= b

Stand ==
  LET next[i \in 0..code.k] ==
        IF i = 0 THEN code.k
        ELSE IF i - 1 \in have THEN next[i - 1]
        ELSE Arrived(next[i - 1]) + 1
  IN [i \in Size(code.k) |-> IF i \in have THEN i ELSE Arrived(next[i])]

\* Then build_decode_matrix_into_space takes the rows of these fragments.
Gather ==
  /\ step = "gather" /\ step' = "invert"
  /\ index' = Stand
  /\ m' = [i \in Size(code.k) |-> code.enc[index'[i]]]
  /\ UNCHANGED <<code, have, used, swaps>>

\* The search for a pivot: on the diagonal, else the first that is found.
Free(a, r, c) == r \notin used /\ c \notin used /\ a[r][c] # 0
Before(x, y) == x[1] < y[1] \/ (x[1] = y[1] /\ x[2] < y[2])

Pivot(a, col) ==
  IF Free(a, col, col) THEN <<col, col>>
  ELSE LET found == {x \in Size(code.k) \X Size(code.k) : Free(a, x[1], x[2])}
       IN IF found = {} THEN swaps[Len(swaps)]
          ELSE CHOOSE x \in found : \A y \in found : x = y \/ Before(x, y)

SwapRows(a, x) == [a EXCEPT ![x[1]] = a[x[2]], ![x[2]] = a[x[1]]]

\* The pivot's row is scaled, and its multiples are taken from the others;
\* in place, so that the inverse grows where the identity was.
Eliminate(a, p) ==
  LET c == Inv[a[p][p]]
      row == [j \in Size(code.k) |-> IF j = p THEN c ELSE c (.) a[p][j]]
  IN [i \in Size(code.k) |->
        IF i = p THEN row
        ELSE [j \in Size(code.k) |->
                (IF j = p THEN 0 ELSE a[i][j]) (+) (a[i][p] (.) row[j])]]

\* _invert_mat, one column.
InvertColumn ==
  /\ step = "invert" /\ Len(swaps) < code.k
  /\ LET x == Pivot(m, Len(swaps))
     IN /\ m' = Eliminate(SwapRows(m, x), x[2])
        /\ used' = used \cup {x[2]}
        /\ swaps' = Append(swaps, x)
  /\ UNCHANGED <<code, have, index, step>>

SwapColumns(a, x) ==
  [r \in DOMAIN a |-> [a[r] EXCEPT ![x[1]] = a[r][x[2]],
                                   ![x[2]] = a[r][x[1]]]]

\* Its end: the columns are put back, the last swap first.
PutBack ==
  LET put[t \in 0..code.k] ==
        IF t = code.k THEN m ELSE SwapColumns(put[t + 1], swaps[t + 1])
  IN put[0]

Unscramble ==
  /\ step = "invert" /\ Len(swaps) = code.k
  /\ m' = PutBack
  /\ step' = "done"
  /\ UNCHANGED <<code, have, index, used, swaps>>

Next == Gather \/ InvertColumn \/ Unscramble

Spec == Init /\ [][Next]_vars

-----------------------------------------------------------------------------
\* fec_decode on the fragments of the block data.
Encoded(data, i) == Dot(code.k, code.enc[i], data)
FecDecode(data, row) ==
  Dot(code.k, m[row], [c \in Size(code.k) |-> Encoded(data, index[c])])

\* Any k of the n fragments give back every data fragment that is missing,
\* whichever they are: of the blocks of one symbol, and so of all.
AnyKRebuild ==
  step = "done" =>
    \A i \in Size(code.k), row \in Size(code.k) \ have :
      FecDecode(Unit(code.k, i), row) = Unit(code.k, i)[row]

=============================================================================
