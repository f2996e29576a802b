--------------------------- MODULE AggregatorLemmas --------------------------
(* What the operators of Aggregator do to the parts of its invariant, up to *)
(* the storing of a fragment.                                               *)
EXTENDS AggregatorInvariant, Induction, FiniteSetTheorems, SequenceTheorems,
        TLAPS

-----------------------------------------------------------------------------
\* An index that wraps at most once, in terms of comparisons.
LEMMA ModIs ==
  ASSUME NEW i \in 0..(2 * RingSize - 1)
  PROVE  Mod(i) = IF i < RingSize THEN i ELSE i - RingSize
BY AggregatorAssumption DEF Mod

\* An index that wraps at most once is one of a slot.
LEMMA ModInSlots ==
  ASSUME NEW i \in 0..(2 * RingSize - 1)
  PROVE  Mod(i) \in Slots
BY ModIs, AggregatorAssumption DEF Slots

\* Wrapping in between changes nothing.
LEMMA ModAdd ==
  ASSUME NEW a \in Slots, NEW n \in Nat, NEW j \in Nat, n + j <= RingSize
  PROVE  Mod(Mod(a + n) + j) = Mod(a + n + j)
<1>1. a + n \in 0..(2 * RingSize - 1) /\ a + n + j \in 0..(2 * RingSize - 1)
  BY AggregatorAssumption DEF Slots
<1>2. Mod(a + n) + j \in 0..(2 * RingSize - 1)
  BY <1>1, ModIs, AggregatorAssumption DEF Slots
<1> QED  BY <1>1, <1>2, ModIs, AggregatorAssumption DEF Slots

\* Different positions in the ring are different slots.
LEMMA ModInjective ==
  ASSUME NEW a \in Slots, NEW i \in 0..(RingSize - 1),
         NEW j \in 0..(RingSize - 1), Mod(a + i) = Mod(a + j)
  PROVE  i = j
<1>1. a + i \in 0..(2 * RingSize - 1) /\ a + j \in 0..(2 * RingSize - 1)
  BY AggregatorAssumption DEF Slots
<1> QED  BY <1>1, ModIs, AggregatorAssumption DEF Slots

\* A code in force fits the bytes of the session packet.
LEMMA CodeType ==
  HasCode => sess.k \in 1..255 /\ sess.n \in 1..255 /\ sess.k <= sess.n
BY AggregatorAssumption DEF HasCode

-----------------------------------------------------------------------------
\* A packet handed over is one more of those sent in the call.
LEMMA AppendSent ==
  ASSUME NEW s \in Seq(Packets), NEW p \in Packets
  PROVE  /\ Append(s, p) \in Seq(Packets)
         /\ Sent(Append(s, p)) = Sent(s) \cup {p}
<1>1. /\ Append(s, p) \in Seq(Packets)
      /\ Len(Append(s, p)) = Len(s) + 1 /\ Len(s) \in Nat
      /\ \A j \in 1..Len(s) : Append(s, p)[j] = s[j]
      /\ Append(s, p)[Len(s) + 1] = p
  BY AppendProperties, LenProperties
<1>2. DOMAIN s = 1..Len(s) /\ DOMAIN Append(s, p) = 1..(Len(s) + 1)
  BY <1>1, LenProperties
<1> DEFINE t == Append(s, p)
<1>3. \A j \in DOMAIN t : (j \in DOMAIN s /\ t[j] = s[j]) \/ t[j] = p
  BY <1>1, <1>2
<1>4. \A j \in DOMAIN s : j \in DOMAIN t /\ t[j] = s[j]
  BY <1>1, <1>2
<1>5. Len(s) + 1 \in DOMAIN t /\ t[Len(s) + 1] = p
  BY <1>1, <1>2
<1> HIDE DEF t
<1>6. Sent(t) = Sent(s) \cup {p}
  BY <1>3, <1>4, <1>5 DEF Sent
<1> QED  BY <1>1, <1>6 DEF t

\* A packet behind all others keeps the order.
LEMMA AppendInOrder ==
  ASSUME NEW s \in Seq(Packets), NEW p \in Packets, InOrder(s),
         \A q \in out \cup Sent(s) : Before(q, p)
  PROVE  InOrder(Append(s, p))
<1>1. /\ Append(s, p) \in Seq(Packets)
      /\ Len(Append(s, p)) = Len(s) + 1 /\ Len(s) \in Nat
      /\ \A j \in 1..Len(s) : Append(s, p)[j] = s[j]
      /\ Append(s, p)[Len(s) + 1] = p
  BY AppendProperties, LenProperties
<1>2. DOMAIN s = 1..Len(s) /\ DOMAIN Append(s, p) = 1..(Len(s) + 1)
  BY <1>1, LenProperties
<1> DEFINE t == Append(s, p)
<1>3. ASSUME NEW i \in DOMAIN t, NEW j \in DOMAIN t, i < j
      PROVE  Before(t[i], t[j])
  <2>1. i \in DOMAIN s /\ t[i] = s[i]
    BY <1>1, <1>2, <1>3
  <2>2. CASE j \in DOMAIN s
    BY <1>1, <1>2, <1>3, <2>1, <2>2 DEF InOrder
  <2>3. CASE j = Len(s) + 1
    <3>1. t[i] \in Sent(s)
      BY <2>1 DEF Sent
    <3> QED  BY <1>1, <2>3, <3>1
  <2> QED  BY <1>2, <2>2, <2>3
<1>4. ASSUME NEW q \in out, NEW i \in DOMAIN t
      PROVE  Before(q, t[i])
  BY <1>1, <1>2, <1>4 DEF InOrder
<1> QED  BY <1>3, <1>4 DEF InOrder

\* What the local recursion of Send is to compute.
Sending(r, item, fs, s) ==
  /\ s[0] = r.sends
  /\ \A i \in 0..(sess.k - 1) :
       s[i + 1] = IF i \in fs /\ <<item.block, i>> \notin Fillers
                  THEN Append(s[i], <<item.block, i>>) ELSE s[i]
  /\ Send(r, item, fs) = [r EXCEPT !.sends = s[sess.k]]

\* The local recursion of Send has a value for each fragment of a block.
LEMMA SendUnrolled ==
  ASSUME NEW r, NEW item, NEW fs, sess.k \in Nat
  PROVE  \E s : Sending(r, item, fs, s)
<1> DEFINE body(s, i) ==
             IF i = 0 THEN r.sends
             ELSE IF i - 1 \in fs /\ <<item.block, i - 1>> \notin Fillers
                  THEN Append(s[i - 1], <<item.block, i - 1>>) ELSE s[i - 1]
           S == {n \in Nat : \E t : t = [i \in 0..n |-> body(t, i)]}
<1>1. ASSUME NEW t, NEW u, NEW n \in Nat, \A i \in 0..n : t[i] = u[i]
      PROVE  \A i \in 0..(n + 1) : body(t, i) = body(u, i)
  BY <1>1
<1>2. \A t : body(t, 0) = r.sends
  OBVIOUS
<1>3. Send(r, item, fs) =
        [r EXCEPT !.sends =
           (CHOOSE s : s = [i \in 0..sess.k |-> body(s, i)])[sess.k]]
  BY DEF Send
<1>n. \A t, i : i \in 0..(sess.k - 1) =>
       body(t, i + 1) = IF i \in fs /\ <<item.block, i>> \notin Fillers
                        THEN Append(t[i], <<item.block, i>>) ELSE t[i]
  <2> TAKE t, i
  <2> HAVE i \in 0..(sess.k - 1)
  <2>1. i + 1 # 0 /\ (i + 1) - 1 = i
    OBVIOUS
  <2> QED  BY <2>1
<1> HIDE DEF body
<1>4. 0 \in S
  <2> DEFINE z == [i \in 0..0 |-> r.sends]
  <2>1. z = [i \in 0..0 |-> body(z, i)]
    BY <1>2
  <2> HIDE DEF z
  <2> QED BY <2>1
<1>5. ASSUME NEW n \in Nat, n \in S  PROVE n + 1 \in S
  <2>1. PICK t : t = [i \in 0..n |-> body(t, i)]
    BY <1>5
  <2> DEFINE u == [i \in 0..(n + 1) |-> body(t, i)]
  <2>2. \A i \in 0..n : u[i] = t[i]
    BY <2>1
  <2>3. \A i \in 0..(n + 1) : body(u, i) = body(t, i)
    BY <2>2, <1>1
  <2>4. u = [i \in 0..(n + 1) |-> body(u, i)]
    BY <2>3
  <2> HIDE DEF u
  <2> QED BY <2>4
<1>6. sess.k \in S
  <2> HIDE DEF S
  <2> QED  BY <1>4, <1>5, Induction
<1>7. PICK s : /\ s = [i \in 0..sess.k |-> body(s, i)]
               /\ Send(r, item, fs) = [r EXCEPT !.sends = s[sess.k]]
  BY <1>3, <1>6
<1>8. s[0] = r.sends
  BY <1>2, <1>7
<1>9. \A i \in 0..(sess.k - 1) : s[i + 1] = body(s, i + 1)
  BY <1>7
<1> QED  BY <1>n, <1>7, <1>8, <1>9 DEF Sending

\* The packets of fragments fs of a block were sent too, in order.
SentMore(r, block, fs, sends) ==
  /\ InOrder(sends)
  /\ Sent(sends) =
       Sent(r.sends) \cup ({<<block, f>> : f \in fs \cap Payload} \ Fillers)

\* send_packet on the fragments in fs: what is sent then, in order.
LEMMA SendSends ==
  ASSUME HasCode, NEW r \in Rings, NEW item \in Items, NEW fs,
         item.block \in Blocks, InOrder(r.sends),
         \A p \in out \cup Sent(r.sends) : \A f \in fs \cap 0..(sess.k - 1) :
            Before(p, <<item.block, f>>)
  PROVE  \E sends \in Seq(Packets) :
           /\ Send(r, item, fs) = WithSends(r, sends)
           /\ SentMore(r, item.block, fs, sends)
<1>1. sess.k \in 1..255 /\ sess.k \in Nat
  BY CodeType
<1>2. PICK s : Sending(r, item, fs, s)
  BY <1>1, SendUnrolled
<1> DEFINE packet(i) == <<item.block, i>>
           News(i) == {packet(f) : f \in fs \cap 0..(i - 1)} \ Fillers
<1>x. \A i \in 0..254 : packet(i) \in Packets
  BY DEF Packets, Fragments
<1>y. \A i \in 0..(sess.k - 1) : \A j \in 0..(i - 1) :
        Before(packet(j), packet(i))
  BY <1>1 DEF Before, Items
<1>z. \A i \in 0..(sess.k - 1) : i \in fs =>
        \A p \in out \cup Sent(r.sends) : Before(p, packet(i))
  OBVIOUS
<1> HIDE DEF packet, Sending
<1> DEFINE Good(i) == /\ s[i] \in Seq(Packets)
                      /\ Sent(s[i]) = Sent(r.sends) \cup News(i)
                      /\ InOrder(s[i])
           S == {i \in Nat : i <= sess.k => Good(i)}
<1>5. 0 \in S
  BY <1>2 DEF Rings, Sending
<1>6. ASSUME NEW i \in Nat, i \in S  PROVE i + 1 \in S
  <2>1. SUFFICES ASSUME i + 1 <= sess.k  PROVE Good(i + 1)
    BY <1>1
  <2>2. i \in 0..(sess.k - 1) /\ i \in 0..254
    BY <1>1, <2>1
  <2>a. Good(i)
    BY <1>1, <1>6, <2>1
  <2>3. CASE i \in fs /\ packet(i) \notin Fillers
    <3>1. s[i + 1] = Append(s[i], packet(i))
      BY <1>2, <2>2, <2>3 DEF packet, Sending
    <3>3. News(i + 1) = News(i) \cup {packet(i)}
      BY <2>2, <2>3, <1>1
    <3>4. \A p \in out \cup Sent(r.sends) \cup News(i) : Before(p, packet(i))
      BY <2>2, <2>3, <1>1, <1>y, <1>z
    <3> HIDE DEF News
    <3>5. packet(i) \in Packets
      BY <2>2, <1>x
    <3> QED  BY <2>a, <3>1, <3>3, <3>4, <3>5, AppendSent, AppendInOrder
  <2>4. CASE ~(i \in fs /\ packet(i) \notin Fillers)
    <3>1. s[i + 1] = s[i]
      BY <1>2, <2>2, <2>4 DEF packet, Sending
    <3>2. News(i + 1) = News(i)
      BY <2>2, <2>4, <1>1
    <3> HIDE DEF News
    <3> QED  BY <2>a, <3>1, <3>2
  <2> QED  BY <2>3, <2>4
<1>7. Good(sess.k)
  <2>1. \A i \in Nat : i \in S
    <3> HIDE DEF S
    <3> QED  BY <1>5, <1>6, Induction
  <2> HIDE DEF Good
  <2> QED  BY <1>1, <2>1
<1> QED  BY <1>2, <1>7 DEF packet, Sending, WithSends, SentMore, Payload

-----------------------------------------------------------------------------
LetGo(r, sends) ==
  [r EXCEPT !.sends = sends, !.front = Mod(@ + 1), !.alloc = @ - 1]

\* What the ring is like once its oldest block left it.
LEMMA LetGoShape ==
  ASSUME NEW r \in Rings, NEW sends \in Seq(Packets), r.alloc > 0
  PROVE  /\ LetGo(r, sends) \in Rings
         /\ LetGo(r, sends).ring = r.ring
         /\ LetGo(r, sends).front = Mod(r.front + 1)
         /\ LetGo(r, sends).alloc = r.alloc - 1
         /\ LetGo(r, sends).last = r.last
         /\ LetGo(r, sends).sends = sends
         /\ \A j \in 0..(r.alloc - 2) : At(LetGo(r, sends), j) = At(r, j + 1)
<1>1. r.front + 1 \in 0..(2 * RingSize - 1)
  BY AggregatorAssumption DEF Rings, Slots
<1>2. Mod(r.front + 1) \in Slots
  BY <1>1, ModInSlots
<1>3. /\ LetGo(r, sends) \in Rings
      /\ LetGo(r, sends).ring = r.ring
      /\ LetGo(r, sends).front = Mod(r.front + 1)
      /\ LetGo(r, sends).alloc = r.alloc - 1
      /\ LetGo(r, sends).last = r.last
      /\ LetGo(r, sends).sends = sends
  <2>1. r.alloc - 1 \in 0..RingSize
    BY AggregatorAssumption DEF Rings
  <2> QED  BY <1>2, <2>1 DEF LetGo, Rings
<1>4. ASSUME NEW j \in 0..(r.alloc - 2)
      PROVE  At(LetGo(r, sends), j) = At(r, j + 1)
  <2>1. r.front \in Slots /\ j \in Nat /\ 1 + j <= RingSize
    BY AggregatorAssumption DEF Rings
  <2>2. Mod(Mod(r.front + 1) + j) = Mod(r.front + 1 + j)
    BY <2>1, ModAdd
  <2>3. r.front + 1 + j = r.front + (j + 1)
    BY <2>1 DEF Slots
  <2> QED  BY <1>3, <2>2, <2>3 DEF At
<1> QED  BY <1>3, <1>4

\* A position of the ring holds an item.
LEMMA AtInItems ==
  ASSUME NEW r \in Rings, NEW j \in 0..(RingSize - 1)
  PROVE  At(r, j) \in Items
<1>1. r.front + j \in 0..(2 * RingSize - 1)
  BY AggregatorAssumption DEF Rings, Slots
<1> QED  BY <1>1, ModInSlots DEF At, Rings

\* The oldest block sends the rest of what can be had of it and goes.
LEMMA LetGoProgress ==
  ASSUME HasCode, NEW r \in Rings, NEW g \in Histories, r.alloc > 0,
         Progress(r, g), NEW sends \in Seq(Packets), NEW fs,
         SentMore(r, At(r, 0).block, fs, sends),
         \A f \in Payload : (f \in fs \/ f < At(r, 0).toSend)
                               <=> f \in Avail(g, At(r, 0).block)
  PROVE  /\ Progress(LetGo(r, sends), g)
         /\ \A c \in Blocks : Held(LetGo(r, sends), c)
                                <=> Held(r, c) /\ c # At(r, 0).block
<1> DEFINE q == LetGo(r, sends)
           b == At(r, 0).block
<1>1. /\ q.alloc = r.alloc - 1 /\ q.sends = sends
      /\ \A j \in 0..(r.alloc - 2) : At(q, j) = At(r, j + 1)
  BY LetGoShape
<1>2. r.alloc \in 0..RingSize /\ RingSize \in Nat \ {0}
  BY AggregatorAssumption DEF Rings
<1>3. b \in Blocks
  BY <1>2 DEF Progress, Contents
<1>4. \A j \in 0..(r.alloc - 1) : At(r, j).block \in Nat
  BY <1>2, AtInItems DEF Items
<1> HIDE DEF q
<1>5. ASSUME NEW c \in Blocks
      PROVE  Held(q, c) <=> Held(r, c) /\ c # b
  <2>1. ASSUME Held(q, c)  PROVE Held(r, c) /\ c # b
    <3>1. PICK j \in 0..(q.alloc - 1) : At(q, j).block = c
      BY <2>1 DEF Held
    <3>2. j + 1 \in 0..(r.alloc - 1) /\ At(r, j + 1).block = c
      BY <1>1, <1>2, <3>1
    <3>3. b < c
      BY <1>2, <1>4, <3>1, <3>2 DEF Progress, Sorted
    <3> QED  BY <1>3, <3>2, <3>3 DEF Held, Blocks
  <2>2. ASSUME Held(r, c), c # b  PROVE Held(q, c)
    <3>1. PICK j \in 0..(r.alloc - 1) : At(r, j).block = c
      BY <2>2 DEF Held
    <3>2. j # 0
      BY <2>2, <3>1
    <3>3. j - 1 \in 0..(q.alloc - 1) /\ At(q, j - 1) = At(r, j)
      BY <1>1, <1>2, <3>2
    <3> QED  BY <3>1, <3>3 DEF Held
  <2> QED  BY <2>1, <2>2
<1>6. Contents(q, g)
  BY <1>1, <1>2 DEF Progress, Contents
<1>7. Sorted(q)
  BY <1>1, <1>2 DEF Progress, Sorted
<1>8. Untouched(q, g)
  <2> SUFFICES ASSUME NEW c \in Blocks, q.alloc > 0, c > At(q, 0).block,
                      ~Held(q, c)
               PROVE  g[c] = {}
    BY DEF Untouched
  <2>1. At(q, 0) = At(r, 1) /\ b < At(r, 1).block
    BY <1>1, <1>2 DEF Progress, Sorted
  <2>2. c > b /\ ~Held(r, c)
    BY <1>2, <1>3, <1>4, <1>5, <2>1, <1>1 DEF Blocks
  <2> QED  BY <2>2 DEF Progress, Untouched
<1>9. Account(q, g)
  <2>2. out \cup Sent(q.sends) \subseteq (Blocks \X Payload) \ Fillers
    BY <1>1, <1>3 DEF Progress, Account, SentMore
  <2>3. ASSUME NEW c \in Blocks, NEW i \in Payload, <<c, i>> \notin Fillers
        PROVE  <<c, i>> \in out \cup Sent(q.sends) <=> Due(q, g, c, i)
    <3>0. <<c, i>> \in out \cup Sent(q.sends)
             <=> <<c, i>> \in out \cup Sent(r.sends) \/ (c = b /\ i \in fs)
      BY <1>1, <2>3 DEF SentMore
    <3>1. <<c, i>> \in out \cup Sent(r.sends) <=> Due(r, g, c, i)
      BY <2>3 DEF Progress, Account
    <3>2. CASE c = b
      <4>1. Held(r, c) /\ ~Held(q, c)
        BY <1>2, <1>5, <3>2 DEF Held
      <4> QED  BY <3>0, <3>1, <3>2, <4>1 DEF Due
    <3>3. CASE c # b /\ Held(r, c)
      <4>1. Held(q, c)
        BY <1>5, <3>3
      <4>2. ~Due(r, g, c, i)
        BY <3>3 DEF Due
      <4>3. At(q, 0).toSend = 0
        <5>1. q.alloc > 0
          BY <4>1, <1>1, <1>2 DEF Held
        <5>2. At(q, 0) = At(r, 1) /\ 1 \in 0..(r.alloc - 1)
          BY <5>1, <1>1, <1>2
        <5> QED  BY <5>2 DEF Progress, Contents
      <4>4. ~Due(q, g, c, i)
        BY <4>1, <4>3 DEF Due, Payload
      <4> QED  BY <3>0, <3>1, <3>3, <4>2, <4>4
    <3>4. CASE c # b /\ ~Held(r, c)
      <4>1. ~Held(q, c)
        BY <1>5, <3>4
      <4> QED  BY <3>0, <3>1, <3>4, <4>1 DEF Due
    <3> QED  BY <3>2, <3>3, <3>4
  <2> QED  BY <2>2, <2>3 DEF Account
<1> QED  BY <1>1, <1>5, <1>6, <1>7, <1>8, <1>9 DEF Progress, q, SentMore

\* The fragments of a block can be counted.
LEMMA HistoriesAreFinite ==
  ASSUME NEW g \in Histories, NEW c \in Blocks
  PROVE  /\ IsFiniteSet(g[c]) /\ Cardinality(g[c]) \in Nat
         /\ Cardinality(g[c]) = 0 <=> g[c] = {}
<1>1. IsFiniteSet(Fragments)
  BY FS_Interval, 0 \in Int, 255 \in Int DEF Fragments
<1>2. g[c] \in SUBSET Fragments
  BY DEF Histories
<1> QED  BY <1>1, <1>2, FS_Subset, FS_CardinalityType, FS_EmptySet

\* Nothing can be had of a block of which nothing came.
LEMMA NothingAvailable ==
  ASSUME HasCode, NEW g \in Histories, NEW c \in Blocks, g[c] = {}
  PROVE  Avail(g, c) = {}
<1>1. Cardinality(g[c]) = 0 /\ sess.k \in 1..255
  BY HistoriesAreFinite, CodeType
<1> QED  BY <1>1 DEF Avail

\* What was sent so far comes before what is left of the oldest block.
LEMMA SentBefore ==
  ASSUME HasCode, NEW r \in Rings, NEW g \in Histories, r.alloc > 0,
         Progress(r, g), NEW p \in out \cup Sent(r.sends),
         NEW f \in Payload, f >= At(r, 0).toSend
  PROVE  Before(p, <<At(r, 0).block, f>>)
<1>1. PICK c \in Blocks, i \in Payload : p = <<c, i>> /\ p \notin Fillers
  BY DEF Progress, Account
<1>2. Due(r, g, c, i)
  BY <1>1 DEF Progress, Account
<1>3. At(r, 0).block \in Blocks /\ At(r, 0).toSend \in 0..sess.k
  BY DEF Rings, Progress, Contents
<1>4. c \in Nat /\ i \in Nat /\ f \in Nat /\ At(r, 0).block \in Nat
  BY <1>3, CodeType DEF Blocks, Payload
<1>5. CASE Held(r, c)
  BY <1>1, <1>2, <1>3, <1>4, <1>5 DEF Due, Before
<1>6. CASE ~Held(r, c)
  <2>1. g[c] # {}
    BY <1>2, <1>6, NothingAvailable DEF Due
  <2>2. c <= At(r, 0).block
    BY <1>4, <1>6, <2>1 DEF Progress, Untouched
  <2>3. c # At(r, 0).block
    BY <1>6 DEF Held, Rings
  <2> QED  BY <1>1, <1>4, <2>2, <2>3 DEF Before
<1> QED  BY <1>5, <1>6

\* What Send does, on the oldest block and from where it was.
LEMMA SendOldest ==
  ASSUME HasCode, NEW r \in Rings, NEW g \in Histories, r.alloc > 0,
         Progress(r, g), NEW item \in Items, item.block = At(r, 0).block,
         NEW fs, \A f \in fs \cap Payload : f >= At(r, 0).toSend
  PROVE  \E sends \in Seq(Packets) :
           /\ Send(r, item, fs) = WithSends(r, sends)
           /\ SentMore(r, At(r, 0).block, fs, sends)
<1>1. At(r, 0).block \in Blocks
  BY DEF Rings, Progress, Contents
<1>2. \A p \in out \cup Sent(r.sends) : \A f \in fs \cap Payload :
         Before(p, <<item.block, f>>)
  BY SentBefore
<1>3. InOrder(r.sends)
  BY DEF Progress
<1>4. \A p \in out \cup Sent(r.sends) : \A f \in fs \cap 0..(sess.k - 1) :
         Before(p, <<item.block, f>>)
  BY <1>2 DEF Payload
<1> QED  BY <1>1, <1>3, <1>4, SendSends

\* The oldest block is the one at the front.
LEMMA FrontSlot ==
  ASSUME NEW r \in Rings
  PROVE  Mod(r.front) = r.front /\ At(r, 0) = r.ring[r.front]
<1>1. /\ r.front \in 0..(2 * RingSize - 1)
      /\ r.front < RingSize /\ r.front + 0 = r.front
  BY AggregatorAssumption DEF Rings, Slots
<1> QED  BY <1>1, ModIs DEF At

\* rx_ring_push and apply_fec give the oldest block up: what was received of
\* it is sent, and all of it that can be had if it is not complete.
LEMMA FlushProgress ==
  ASSUME HasCode, NEW r \in Rings, NEW g \in Histories, r.alloc > 0,
         Progress(r, g), Cardinality(g[At(r, 0).block]) < sess.k
  PROVE  /\ \E sends \in Seq(Packets) : Flush(r) = LetGo(r, sends)
         /\ Progress(Flush(r), g)
         /\ \A c \in Blocks : Held(Flush(r), c)
                                <=> Held(r, c) /\ c # At(r, 0).block
<1> DEFINE item == r.ring[r.front]
           rest == {f \in item.frags : f >= item.toSend}
<1>1. item = At(r, 0) /\ item \in Items
  BY FrontSlot DEF Rings
<1>2. PICK sends \in Seq(Packets) :
           /\ Send(r, item, rest) = WithSends(r, sends)
           /\ SentMore(r, At(r, 0).block, rest, sends)
  <2>1. \A f \in rest \cap Payload : f >= At(r, 0).toSend
    BY <1>1
  <2> HIDE DEF rest
  <2> QED  BY <1>1, <2>1, SendOldest
<1>3. Flush(r) = LetGo(r, sends)
  BY <1>2 DEF Flush, LetGo, WithSends, Rings
<1>4. \A f \in Payload : (f \in rest \/ f < At(r, 0).toSend)
                               <=> f \in Avail(g, At(r, 0).block)
  <2>1. /\ At(r, 0).frags = g[At(r, 0).block] /\ At(r, 0).block \in Blocks
        /\ At(r, 0).toSend \in 0..sess.k
        /\ 0..(At(r, 0).toSend - 1) \subseteq At(r, 0).frags
    BY DEF Rings, Progress, Contents
  <2>2. Avail(g, At(r, 0).block) = Payload \cap At(r, 0).frags
    BY <2>1 DEF Avail
  <2> QED  BY <1>1, <2>1, <2>2, CodeType DEF Payload
<1> HIDE DEF rest
<1>5. /\ Progress(LetGo(r, sends), g)
      /\ \A c \in Blocks : Held(LetGo(r, sends), c)
                             <=> Held(r, c) /\ c # At(r, 0).block
  BY <1>2, <1>4, LetGoProgress
<1> QED  BY <1>3, <1>5

Flushing(r, n, s) ==
  /\ s[0] = r
  /\ \A i \in 0..(n - 1) : s[i + 1] = Flush(s[i])
  /\ FlushTimes(r, n) = s[n]

\* The local recursion of FlushTimes has a value for each number of flushes.
LEMMA FlushTimesUnrolled ==
  ASSUME NEW r, NEW k \in Nat
  PROVE  \E s : Flushing(r, k, s)
<1> DEFINE body(s, i) == IF i = 0 THEN r ELSE Flush(s[i - 1])
           S == {n \in Nat : \E t : t = [i \in 0..n |-> body(t, i)]}
<1>1. ASSUME NEW t, NEW u, NEW n \in Nat, \A i \in 0..n : t[i] = u[i]
      PROVE  \A i \in 0..(n + 1) : body(t, i) = body(u, i)
  BY <1>1
<1>2. \A t : body(t, 0) = r
  OBVIOUS
<1>3. FlushTimes(r, k) = (CHOOSE s : s = [i \in 0..k |-> body(s, i)])[k]
  BY DEF FlushTimes
<1>4. \A t : \A i \in 0..(k - 1) : body(t, i + 1) = Flush(t[i])
  <2> TAKE t
  <2> TAKE i \in 0..(k - 1)
  <2>1. i + 1 # 0 /\ (i + 1) - 1 = i
    OBVIOUS
  <2> QED  BY <2>1
<1> HIDE DEF body
<1>5. 0 \in S
  <2> DEFINE z == [i \in 0..0 |-> r]
  <2>1. z = [i \in 0..0 |-> body(z, i)]
    BY <1>2
  <2> HIDE DEF z
  <2> QED  BY <2>1
<1>6. ASSUME NEW n \in Nat, n \in S  PROVE n + 1 \in S
  <2>1. PICK t : t = [i \in 0..n |-> body(t, i)]
    BY <1>6
  <2> DEFINE u == [i \in 0..(n + 1) |-> body(t, i)]
  <2>2. \A i \in 0..n : u[i] = t[i]
    BY <2>1
  <2>3. \A i \in 0..(n + 1) : body(u, i) = body(t, i)
    BY <2>2, <1>1
  <2>4. u = [i \in 0..(n + 1) |-> body(u, i)]
    BY <2>3
  <2> HIDE DEF u
  <2> QED  BY <2>4
<1>7. k \in S
  <2> HIDE DEF S
  <2> QED  BY <1>5, <1>6, Induction
<1>8. PICK s : s = [i \in 0..k |-> body(s, i)] /\ FlushTimes(r, k) = s[k]
  BY <1>3, <1>7
<1>9. s[0] = r
  BY <1>2, <1>8
<1>10. \A i \in 0..(k - 1) : s[i + 1] = body(s, i + 1)
  BY <1>8
<1> QED  BY <1>4, <1>8, <1>9, <1>10 DEF Flushing

\* The n oldest blocks are gone from q, all else of the ring is as in r.
Shifted(q, r, n) ==
  /\ q \in Rings
  /\ q.ring = r.ring /\ q.last = r.last
  /\ q.front = Mod(r.front + n) /\ q.alloc = r.alloc - n

\* Where the blocks that are left are found.
LEMMA ShiftedAt ==
  ASSUME NEW r \in Rings, NEW n \in 0..r.alloc, NEW q, Shifted(q, r, n)
  PROVE  \A j \in 0..(r.alloc - n - 1) : At(q, j) = At(r, j + n)
<1> TAKE j \in 0..(r.alloc - n - 1)
<1>1. r.front \in Slots /\ j \in Nat /\ n \in Nat /\ n + j <= RingSize
  BY AggregatorAssumption DEF Rings
<1>2. Mod(Mod(r.front + n) + j) = Mod(r.front + n + j)
  BY <1>1, ModAdd
<1>3. r.front + n + j = r.front + (j + n)
  BY <1>1 DEF Slots
<1> QED  BY <1>2, <1>3 DEF At, Shifted

\* The oldest blocks are flushed one after the other.
LEMMA FlushTimesProgress ==
  ASSUME HasCode, NEW r \in Rings, NEW g \in Histories, Progress(r, g),
         NEW n \in 0..r.alloc,
         \A j \in 0..(n - 1) : Cardinality(g[At(r, j).block]) < sess.k
  PROVE  /\ Shifted(FlushTimes(r, n), r, n)
         /\ Progress(FlushTimes(r, n), g)
<1>1. r.alloc \in 0..RingSize /\ RingSize \in Nat \ {0} /\ n \in Nat
  BY AggregatorAssumption DEF Rings
<1>2. PICK s : Flushing(r, n, s)
  BY <1>1, FlushTimesUnrolled
<1> DEFINE Good(i) == Shifted(s[i], r, i) /\ Progress(s[i], g)
           S == {i \in Nat : i <= n => Good(i)}
<1>3. 0 \in S
  <2>1. Shifted(r, r, 0)
    BY <1>1, FrontSlot DEF Shifted, Rings, Slots
  <2> QED  BY <1>2, <2>1 DEF Flushing
<1>4. ASSUME NEW i \in Nat, i \in S  PROVE i + 1 \in S
  <2>1. SUFFICES ASSUME i + 1 <= n  PROVE Good(i + 1)
    BY <1>1
  <2>2. Good(i) /\ i \in 0..(n - 1)
    BY <1>1, <1>4, <2>1
  <2>3. s[i + 1] = Flush(s[i])
    BY <1>2, <2>2 DEF Flushing
  <2> DEFINE q == s[i]
  <2>4. q \in Rings /\ Progress(q, g) /\ q.alloc = r.alloc - i /\ q.alloc > 0
    BY <1>1, <2>2 DEF Shifted
  <2>5. At(q, 0) = At(r, i)
    BY <1>1, <2>2, <2>4, ShiftedAt
  <2> HIDE DEF q
  <2>6. PICK sends \in Seq(Packets) : Flush(q) = LetGo(q, sends)
    BY <2>2, <2>4, <2>5, FlushProgress
  <2>7. Progress(Flush(q), g)
    BY <2>2, <2>4, <2>5, FlushProgress
  <2>8. /\ Flush(q) \in Rings /\ Flush(q).ring = q.ring
        /\ Flush(q).front = Mod(q.front + 1)
        /\ Flush(q).alloc = q.alloc - 1 /\ Flush(q).last = q.last
    BY <2>4, <2>6, LetGoShape
  <2>9. q.front = Mod(r.front + i) /\ q.ring = r.ring /\ q.last = r.last
    BY <2>2 DEF q, Shifted
  <2>10. Mod(Mod(r.front + i) + 1) = Mod(r.front + (i + 1))
    <3>1. r.front \in Slots /\ i + 1 <= RingSize
      BY <1>1, <2>2 DEF Rings
    <3>2. r.front + i + 1 = r.front + (i + 1)
      BY <3>1 DEF Slots
    <3> QED  BY <3>1, <3>2, ModAdd
  <2>11. Shifted(Flush(q), r, i + 1)
    <3>1. Flush(q).alloc = r.alloc - (i + 1)
      BY <1>1, <2>2, <2>4, <2>8
    <3> QED  BY <2>8, <2>9, <2>10, <3>1 DEF Shifted
  <2> QED  BY <2>3, <2>7, <2>11 DEF q
<1>5. Good(n)
  <2>1. \A i \in Nat : i \in S
    <3> HIDE DEF S
    <3> QED  BY <1>3, <1>4, Induction
  <2> HIDE DEF Good
  <2> QED  BY <1>1, <2>1
<1> QED  BY <1>2, <1>5 DEF Flushing

-----------------------------------------------------------------------------
NewItem(c) == [block |-> c, toSend |-> 0, frags |-> {}]

Put(r, c) ==
  [r EXCEPT !.ring[Mod(r.front + r.alloc)] = [EmptyItem EXCEPT !.block = c],
            !.alloc = @ + 1]

\* What the ring is like once a block is put behind the others.
LEMMA PutShape ==
  ASSUME NEW r \in Rings, r.alloc < RingSize, NEW c \in Blocks
  PROVE  /\ Put(r, c) \in Rings
         /\ Put(r, c).front = r.front /\ Put(r, c).last = r.last
         /\ Put(r, c).alloc = r.alloc + 1 /\ Put(r, c).sends = r.sends
         /\ \A j \in 0..(r.alloc - 1) : At(Put(r, c), j) = At(r, j)
         /\ At(Put(r, c), r.alloc) = NewItem(c)
<1> DEFINE slot == Mod(r.front + r.alloc)
<1>1. r.front + r.alloc \in 0..(2 * RingSize - 1)
  BY AggregatorAssumption DEF Rings, Slots
<1>2. slot \in Slots
  BY <1>1, ModInSlots
<1>3. NewItem(c) = [EmptyItem EXCEPT !.block = c] /\ NewItem(c) \in Items
  BY DEF NewItem, EmptyItem, Items, Blocks
<1>4. r.alloc + 1 \in 0..RingSize
  BY AggregatorAssumption DEF Rings
<1> HIDE DEF slot
<1>5. Put(r, c) = [r EXCEPT !.ring = [r.ring EXCEPT ![slot] = NewItem(c)],
                            !.alloc = r.alloc + 1]
  BY <1>3 DEF Put, Rings, slot
<1>6. [r.ring EXCEPT ![slot] = NewItem(c)] \in [Slots -> Items]
  BY <1>2, <1>3 DEF Rings
<1>7. /\ Put(r, c) \in Rings
      /\ Put(r, c).ring = [r.ring EXCEPT ![slot] = NewItem(c)]
      /\ Put(r, c).front = r.front /\ Put(r, c).last = r.last
      /\ Put(r, c).alloc = r.alloc + 1 /\ Put(r, c).sends = r.sends
  BY <1>4, <1>5, <1>6 DEF Rings
<1>8. ASSUME NEW j \in 0..(r.alloc - 1)
      PROVE  At(Put(r, c), j) = At(r, j)
  <2>1. r.front \in Slots /\ j \in 0..(RingSize - 1)
        /\ r.alloc \in 0..(RingSize - 1) /\ j # r.alloc
    BY AggregatorAssumption DEF Rings
  <2>2. Mod(r.front + j) # slot
    BY <2>1, ModInjective DEF slot
  <2>3. Mod(r.front + j) \in Slots
    <3>1. r.front + j \in 0..(2 * RingSize - 1)
      BY <2>1, AggregatorAssumption DEF Slots
    <3> QED  BY <3>1, ModInSlots
  <2> QED  BY <1>7, <2>2, <2>3 DEF At, Rings
<1>9. At(Put(r, c), r.alloc) = NewItem(c)
  BY <1>2, <1>7 DEF At, slot, Rings
<1> QED  BY <1>7, <1>8, <1>9

\* A block newer than all that is known of enters at the end.
LEMMA PutProgress ==
  ASSUME HasCode, NEW r \in Rings, r.alloc < RingSize, NEW g \in Histories,
         Progress(r, g), NEW c \in Blocks,
         \A d \in Blocks : g[d] # {} => d < c,
         \A j \in 0..(r.alloc - 1) : At(r, j).block < c
  PROVE  /\ Progress(Put(r, c), g)
         /\ \A d \in Blocks : Held(Put(r, c), d) <=> Held(r, d) \/ d = c
<1> DEFINE q == Put(r, c)
<1>1. /\ q.alloc = r.alloc + 1 /\ q.sends = r.sends
      /\ \A j \in 0..(r.alloc - 1) : At(q, j) = At(r, j)
      /\ At(q, r.alloc) = NewItem(c)
  BY PutShape
<1>2. r.alloc \in Nat /\ c \in Nat
  BY DEF Rings, Blocks
<1>3. NewItem(c).block = c /\ NewItem(c).toSend = 0 /\ NewItem(c).frags = {}
  BY DEF NewItem
<1>4. g[c] = {}
  BY <1>2
<1>5. sess.k \in 1..255
  BY CodeType
<1> HIDE DEF q
<1>6. \A j \in 0..(q.alloc - 1) :
        \/ j \in 0..(r.alloc - 1) /\ At(q, j) = At(r, j)
        \/ j = r.alloc /\ At(q, j) = NewItem(c)
  BY <1>1, <1>2
<1>7. ASSUME NEW d \in Blocks
      PROVE  Held(q, d) <=> Held(r, d) \/ d = c
  <2>1. Held(q, d) => Held(r, d) \/ d = c
    BY <1>3, <1>6 DEF Held
  <2>2. Held(r, d) => Held(q, d)
    BY <1>1, <1>2 DEF Held
  <2>3. Held(q, c)
    BY <1>1, <1>2, <1>3 DEF Held
  <2> QED  BY <2>1, <2>2, <2>3
<1>8. Contents(q, g)
  <2> SUFFICES ASSUME NEW j \in 0..(q.alloc - 1)
               PROVE  /\ At(q, j).block \in Blocks
                      /\ At(q, j).frags = g[At(q, j).block]
                      /\ At(q, j).toSend \in 0..sess.k
                      /\ j > 0 => At(q, j).toSend = 0
                      /\ 0..(At(q, j).toSend - 1) \subseteq At(q, j).frags
    BY DEF Contents
  <2>1. CASE j \in 0..(r.alloc - 1) /\ At(q, j) = At(r, j)
    BY <2>1 DEF Progress, Contents
  <2>2. CASE j = r.alloc /\ At(q, j) = NewItem(c)
    <3>1. At(q, j).block = c /\ At(q, j).frags = {} /\ At(q, j).toSend = 0
      BY <1>3, <2>2
    <3>2. 0 \in 0..sess.k /\ 0..(0 - 1) = {}
      BY <1>5
    <3> QED  BY <1>4, <3>1, <3>2
  <2> QED  BY <1>6, <2>1, <2>2
<1>9. Sorted(q)
  <2> SUFFICES ASSUME NEW i \in 0..(q.alloc - 1), NEW j \in 0..(q.alloc - 1),
                      i < j
               PROVE  At(q, i).block < At(q, j).block
    BY DEF Sorted
  <2>1. i \in 0..(r.alloc - 1) /\ At(q, i) = At(r, i)
    BY <1>1, <1>2
  <2>2. CASE j \in 0..(r.alloc - 1) /\ At(q, j) = At(r, j)
    BY <2>1, <2>2 DEF Progress, Sorted
  <2>3. CASE j = r.alloc /\ At(q, j) = NewItem(c)
    BY <1>3, <2>1, <2>3
  <2> QED  BY <1>6, <2>2, <2>3
<1>10. \/ r.alloc = 0 /\ At(q, 0) = NewItem(c)
       \/ r.alloc > 0 /\ At(q, 0) = At(r, 0) /\ At(r, 0).block < c
  BY <1>1, <1>2
<1>11. Untouched(q, g)
  <2> SUFFICES ASSUME NEW d \in Blocks, d > At(q, 0).block, ~Held(q, d)
               PROVE  g[d] = {}
    BY DEF Untouched
  <2>1. ~Held(r, d)
    BY <1>7
  <2> QED  BY <1>2, <1>3, <1>10, <2>1 DEF Progress, Untouched, Blocks
<1>12. Account(q, g)
  <2>1. out \cup Sent(q.sends) \subseteq (Blocks \X Payload) \ Fillers
    BY <1>1 DEF Progress, Account
  <2>2. ASSUME NEW d \in Blocks, NEW i \in Payload
        PROVE  Due(q, g, d, i) <=> Due(r, g, d, i)
    <3>1. CASE d = c
      <4>1. ~Held(r, c)
        BY <1>2 DEF Held
      <4>2. ~Due(r, g, c, i)
        BY <1>4, <4>1, NothingAvailable DEF Due
      <4>3. ~Due(q, g, c, i)
        BY <1>2, <1>3, <1>5, <1>7, <1>10 DEF Due, Payload
      <4> QED  BY <3>1, <4>2, <4>3
    <3>2. CASE d # c /\ Held(r, d)
      <4>1. r.alloc > 0
        BY <1>2, <3>2 DEF Held
      <4> QED  BY <1>7, <1>10, <3>2, <4>1 DEF Due
    <3>3. CASE d # c /\ ~Held(r, d)
      BY <1>7, <3>3 DEF Due
    <3> QED  BY <3>1, <3>2, <3>3
  <2> QED  BY <1>1, <2>1, <2>2 DEF Progress, Account
<1>13. InOrder(q.sends)
  BY <1>1 DEF Progress
<1> QED  BY <1>7, <1>8, <1>9, <1>11, <1>12, <1>13 DEF Progress, q

\* Where the blocks of r are in q after a push.
Pushed(q, r, c) ==
  /\ q \in Rings /\ q.last = r.last
  /\ r.alloc < RingSize =>
       q.alloc = r.alloc + 1 /\ \A j \in 0..(r.alloc - 1) : At(q, j) = At(r, j)
  /\ r.alloc = RingSize =>
       /\ q.alloc = RingSize
       /\ \A j \in 0..(RingSize - 2) : At(q, j) = At(r, j + 1)
  /\ At(q, q.alloc - 1) = NewItem(c)

\* rx_ring_push: a new block enters, and the oldest leaves a full ring.
LEMMA PushProgress ==
  ASSUME HasCode, NEW r \in Rings, NEW g \in Histories,
         Progress(r, g), Unfinished(r, g), NEW c \in Blocks,
         \A d \in Blocks : g[d] # {} => d < c,
         \A j \in 0..(r.alloc - 1) : At(r, j).block < c
  PROVE  /\ Pushed(Push(r, c), r, c)
         /\ Progress(Push(r, c), g) /\ Unfinished(Push(r, c), g)
<1>0. RingSize \in Nat \ {0} /\ r.alloc \in 0..RingSize /\ c \in Nat
  BY AggregatorAssumption DEF Rings, Blocks
<1>1. Cardinality(g[c]) < sess.k
  <2>1. g[c] = {}
    BY <1>0
  <2>2. Cardinality(g[c]) = 0
    BY <2>1, HistoriesAreFinite
  <2>3. sess.k \in 1..255
    BY CodeType
  <2> QED  BY <2>2, <2>3
<1>2. CASE r.alloc < RingSize
  <2>1. Push(r, c) = Put(r, c)
    BY <1>2 DEF Push, Put
  <2>2. Progress(Put(r, c), g)
    BY <1>2, PutProgress
  <2>3. Unfinished(Put(r, c), g)
    <3>1. \A d \in Blocks : Held(Put(r, c), d) <=> Held(r, d) \/ d = c
      BY <1>2, PutProgress
    <3> QED  BY <1>1, <3>1 DEF Unfinished
  <2>4. Pushed(Put(r, c), r, c)
    <3>1. /\ Put(r, c) \in Rings /\ Put(r, c).last = r.last
          /\ Put(r, c).alloc = r.alloc + 1
          /\ \A j \in 0..(r.alloc - 1) : At(Put(r, c), j) = At(r, j)
          /\ At(Put(r, c), r.alloc) = NewItem(c)
      BY <1>2, PutShape
    <3>2. Put(r, c).alloc - 1 = r.alloc /\ r.alloc # RingSize
      BY <1>0, <1>2, <3>1
    <3> QED  BY <3>1, <3>2 DEF Pushed
  <2> QED  BY <2>1, <2>2, <2>3, <2>4
<1>3. CASE r.alloc = RingSize
  <2> DEFINE q == Flush(r)
  <2>1. Push(r, c) = Put(q, c)
    <3>1. ~(r.alloc < RingSize)
      BY <1>0, <1>3
    <3> QED  BY <3>1 DEF Push, Put
  <2>2. r.alloc > 0 /\ Cardinality(g[At(r, 0).block]) < sess.k
    <3>1. 0 \in 0..(r.alloc - 1) /\ r.alloc > 0
      BY <1>0, <1>3
    <3>2. At(r, 0).block \in Blocks /\ Held(r, At(r, 0).block)
      BY <3>1 DEF Progress, Contents, Held
    <3> QED  BY <3>1, <3>2 DEF Unfinished
  <2>3. PICK sends \in Seq(Packets) : q = LetGo(r, sends)
    BY <2>2, FlushProgress
  <2>4. Progress(q, g)
    BY <2>2, FlushProgress
  <2>5. \A d \in Blocks : Held(q, d) <=> Held(r, d) /\ d # At(r, 0).block
    BY <2>2, FlushProgress
  <2>6. /\ q \in Rings /\ q.alloc = RingSize - 1 /\ q.last = r.last
        /\ \A j \in 0..(RingSize - 2) : At(q, j) = At(r, j + 1)
    BY <1>3, <2>2, <2>3, LetGoShape
  <2> HIDE DEF q
  <2>7. \A j \in 0..(q.alloc - 1) : At(q, j).block < c
    BY <1>0, <1>3, <2>6
  <2>8. q.alloc < RingSize
    BY <1>0, <2>6
  <2>9. Progress(Put(q, c), g)
    BY <2>4, <2>6, <2>7, <2>8, PutProgress
  <2>10. Unfinished(Put(q, c), g)
    <3>1. \A d \in Blocks : Held(Put(q, c), d) <=> Held(q, d) \/ d = c
      BY <2>4, <2>6, <2>7, <2>8, PutProgress
    <3> QED  BY <1>1, <2>5, <3>1 DEF Unfinished
  <2>11. Pushed(Put(q, c), r, c)
    <3>1. /\ Put(q, c) \in Rings /\ Put(q, c).last = q.last
          /\ Put(q, c).alloc = q.alloc + 1
          /\ \A j \in 0..(q.alloc - 1) : At(Put(q, c), j) = At(q, j)
          /\ At(Put(q, c), q.alloc) = NewItem(c)
      BY <2>6, <2>8, PutShape
    <3>2. Put(q, c).alloc = RingSize /\ Put(q, c).alloc - 1 = q.alloc
          /\ q.alloc - 1 = RingSize - 2
      BY <1>0, <2>6, <3>1
    <3>3. ~(r.alloc < RingSize)
      BY <1>0, <1>3
    <3>4. \A j \in 0..(RingSize - 2) : At(Put(q, c), j) = At(r, j + 1)
      BY <2>6, <3>1, <3>2
    <3>5. /\ Put(q, c).last = r.last
          /\ At(Put(q, c), Put(q, c).alloc - 1) = NewItem(c)
      BY <2>6, <3>1, <3>2
    <3> QED  BY <3>1, <3>2, <3>3, <3>4, <3>5 DEF Pushed
  <2> QED  BY <2>1, <2>9, <2>10, <2>11
<1> QED  BY <1>0, <1>2, <1>3

-----------------------------------------------------------------------------
Entering(r, b, s) ==
  /\ s[0] = [r EXCEPT !.last = b]
  /\ \A i \in 0..(NewBlocks(r, b) - 1) :
       s[i + 1] = Push(s[i], b + (i + 1) - NewBlocks(r, b))
  /\ Enter(r, b) = s[NewBlocks(r, b)]

\* The local recursion of Enter has a value for each new block.
LEMMA EnterUnrolled ==
  ASSUME NEW r, NEW b, NewBlocks(r, b) \in Nat
  PROVE  \E s : Entering(r, b, s)
<1> DEFINE k == NewBlocks(r, b)
           body(s, i) == IF i = 0 THEN [r EXCEPT !.last = b]
                         ELSE Push(s[i - 1], b + i - k)
           S == {n \in Nat : \E t : t = [i \in 0..n |-> body(t, i)]}
<1>1. ASSUME NEW t, NEW u, NEW n \in Nat, \A i \in 0..n : t[i] = u[i]
      PROVE  \A i \in 0..(n + 1) : body(t, i) = body(u, i)
  <2> HIDE DEF k
  <2> QED  BY <1>1
<1>2. \A t : body(t, 0) = [r EXCEPT !.last = b]
  OBVIOUS
<1>3. Enter(r, b) = (CHOOSE s : s = [i \in 0..k |-> body(s, i)])[k]
  BY DEF Enter
<1> HIDE DEF k
<1>4. \A t : \A i \in 0..(k - 1) :
        body(t, i + 1) = Push(t[i], b + (i + 1) - k)
  <2> TAKE t
  <2> TAKE i \in 0..(k - 1)
  <2>1. i + 1 # 0 /\ (i + 1) - 1 = i
    OBVIOUS
  <2> QED  BY <2>1
<1> HIDE DEF body
<1>5. 0 \in S
  <2> DEFINE z == [i \in 0..0 |-> [r EXCEPT !.last = b]]
  <2>1. z = [i \in 0..0 |-> body(z, i)]
    BY <1>2
  <2> HIDE DEF z
  <2> QED  BY <2>1
<1>6. ASSUME NEW n \in Nat, n \in S  PROVE n + 1 \in S
  <2>1. PICK t : t = [i \in 0..n |-> body(t, i)]
    BY <1>6
  <2> DEFINE u == [i \in 0..(n + 1) |-> body(t, i)]
  <2>2. \A i \in 0..n : u[i] = t[i]
    BY <2>1
  <2>3. \A i \in 0..(n + 1) : body(u, i) = body(t, i)
    BY <2>2, <1>1
  <2>4. u = [i \in 0..(n + 1) |-> body(u, i)]
    BY <2>3
  <2> HIDE DEF u
  <2> QED  BY <2>4
<1>7. k \in S
  <2>1. k \in Nat
    BY DEF k
  <2> HIDE DEF S
  <2> QED  BY <1>5, <1>6, <2>1, Induction
<1>8. PICK s : s = [i \in 0..k |-> body(s, i)] /\ Enter(r, b) = s[k]
  BY <1>3, <1>7
<1>9. k \in Nat
  BY DEF k
<1>10. s[0] = [r EXCEPT !.last = b]
  BY <1>2, <1>8, <1>9
<1>11. \A i \in 0..(k - 1) : s[i + 1] = body(s, i + 1)
  BY <1>8, <1>9
<1> QED  BY <1>4, <1>8, <1>10, <1>11 DEF Entering, k

\* What the ring is like once a block b newer than all known ones is entered.
Entered(q, r, b) ==
  /\ q \in Rings /\ q.last = b /\ q.alloc > 0
  /\ q.alloc = IF r.alloc + NewBlocks(r, b) < RingSize
               THEN r.alloc + NewBlocks(r, b) ELSE RingSize
  /\ At(q, q.alloc - 1) = NewItem(b)
  /\ Window(q)

\* get_block_ring_idx: however far a block is ahead, it gets a slot and the
\* ring stays a window that ends with it.
LEMMA EnterProgress ==
  ASSUME HasCode, NEW r \in Rings, NEW g \in Histories,
         Progress(r, g), Unfinished(r, g), Window(r), KnownOnly(r, g),
         r.last = NoBlock => r.alloc = 0,
         NEW b \in Blocks, r.last # NoBlock => b > r.last
  PROVE  /\ NewBlocks(r, b) \in 1..RingSize
         /\ Entered(Enter(r, b), r, b)
         /\ Progress(Enter(r, b), g) /\ Unfinished(Enter(r, b), g)
<1>0. /\ RingSize \in Nat \ {0} /\ r.alloc \in 0..RingSize /\ b \in Nat
      /\ r.last # NoBlock => r.last \in Nat
  BY AggregatorAssumption DEF Rings, Blocks
<1> DEFINE new == NewBlocks(r, b)
<1>1. /\ new \in 1..RingSize
      /\ r.last # NoBlock => /\ new <= b - r.last
                             /\ new < RingSize => new = b - r.last
      /\ r.last = NoBlock => new = 1
  BY <1>0 DEF NewBlocks
<1> HIDE DEF new
<1>2. PICK s : Entering(r, b, s)
  <2>1. NewBlocks(r, b) \in Nat
    BY <1>0, <1>1 DEF new
  <2> QED  BY <2>1, EnterUnrolled
<1> DEFINE alloc(i) == IF r.alloc + i < RingSize THEN r.alloc + i ELSE RingSize
           \* The block m places from the end, after i pushes.
           run(i, m) == IF m <= i THEN b - new + i + 1 - m
                        ELSE r.last + 1 - (m - i)
           Good(i) == /\ s[i] \in Rings /\ s[i].last = b
                      /\ s[i].alloc = alloc(i)
                      /\ \A j \in 0..(alloc(i) - 1) :
                           At(s[i], j).block = run(i, alloc(i) - j)
                      /\ Progress(s[i], g) /\ Unfinished(s[i], g)
                      /\ i > 0 => At(s[i], alloc(i) - 1) = NewItem(b - new + i)
           S == {i \in Nat : i <= new => Good(i)}
<1>3. 0 \in S
  <2> DEFINE q == [r EXCEPT !.last = b]
  <2>1. /\ q \in Rings /\ q.ring = r.ring /\ q.front = r.front
        /\ q.alloc = r.alloc /\ q.last = b /\ q.sends = r.sends
    BY DEF Rings
  <2>2. s[0] = q
    BY <1>2 DEF Entering
  <2> HIDE DEF q
  <2>3. \A j : At(q, j) = At(r, j)
    BY <2>1 DEF At
  <2>4. \A c : Held(q, c) <=> Held(r, c)
    BY <2>1, <2>3 DEF Held
  <2>5. \A c, i : Due(q, g, c, i) <=> Due(r, g, c, i)
    BY <2>3, <2>4 DEF Due
  <2>6. Contents(q, g) /\ Sorted(q)
    BY <2>1, <2>3 DEF Progress, Contents, Sorted
  <2>7. Untouched(q, g) /\ Unfinished(q, g)
    BY <2>1, <2>3, <2>4 DEF Progress, Untouched, Unfinished
  <2>8. Account(q, g) /\ InOrder(q.sends)
    BY <2>1, <2>5 DEF Progress, Account
  <2>9. alloc(0) = r.alloc
    BY <1>0
  <2>10. \A j \in 0..(r.alloc - 1) : At(q, j).block = run(0, r.alloc - j)
    <3> TAKE j \in 0..(r.alloc - 1)
    <3>1. r.last # NoBlock /\ At(r, j).block + r.alloc = r.last + 1 + j
      BY DEF Window
    <3>2. At(r, j).block \in Nat
      BY DEF Progress, Contents, Blocks
    <3>3. ~(r.alloc - j <= 0)
      BY <1>0
    <3>4. At(r, j).block = r.last + 1 - ((r.alloc - j) - 0)
      BY <1>0, <3>1, <3>2
    <3> QED  BY <2>3, <3>3, <3>4
  <2> QED  BY <2>1, <2>2, <2>6, <2>7, <2>8, <2>9, <2>10 DEF Progress
<1>4. ASSUME NEW i \in Nat, i \in S  PROVE i + 1 \in S
  <2>1. SUFFICES ASSUME i + 1 <= new  PROVE Good(i + 1)
    BY <1>1
  <2>2. Good(i) /\ i \in 0..(new - 1)
    BY <1>1, <1>4, <2>1
  <2> DEFINE q == s[i]
             c == b - new + (i + 1)
             t == s[i + 1]
  <2>3. t = Push(q, c)
    <3>1. b + (i + 1) - new = c
      BY <1>0, <1>1
    <3> QED  BY <1>2, <2>2, <3>1 DEF Entering, new
  <2>4. /\ q \in Rings /\ q.last = b /\ q.alloc = alloc(i)
        /\ Progress(q, g) /\ Unfinished(q, g)
    BY <2>2
  <2>5. \A j \in 0..(alloc(i) - 1) : At(q, j).block = run(i, alloc(i) - j)
    BY <2>2
  <2> HIDE DEF q, t
  <2>6. alloc(i) \in 0..RingSize
    BY <1>0
  <2>7. /\ r.last # NoBlock => c \in Blocks /\ c > r.last
        /\ r.last = NoBlock => c = b /\ i = 0 /\ alloc(i) = 0
    BY <1>0, <1>1, <2>1, <2>2, AggregatorAssumption DEF Blocks
  <2>8. c \in Blocks /\ c \in Nat
    BY <2>7 DEF Blocks
  <2>9. \A d \in Blocks : g[d] # {} => d < c
    BY <1>0, <2>7, <2>8 DEF KnownOnly, Blocks
  <2>10. \A j \in 0..(q.alloc - 1) : At(q, j).block < c
    <3> TAKE j \in 0..(q.alloc - 1)
    <3>1. r.last # NoBlock
      BY <2>4, <2>7
    <3>2. At(q, j).block = run(i, alloc(i) - j)
      BY <2>4, <2>5
    <3>3. alloc(i) - j \in Nat \ {0}
      BY <2>4, <2>6
    <3> QED  BY <1>0, <1>1, <2>2, <2>7, <3>1, <3>2, <3>3
  <2>11. Pushed(t, q, c) /\ Progress(t, g) /\ Unfinished(t, g)
    BY <2>3, <2>4, <2>8, <2>9, <2>10, PushProgress
  <2>12. t.alloc = alloc(i + 1) /\ t \in Rings /\ t.last = b
    BY <1>0, <2>4, <2>6, <2>11 DEF Pushed
  <2>13. At(t, alloc(i + 1) - 1) = NewItem(c)
    BY <2>11, <2>12 DEF Pushed
  <2>14. ASSUME NEW j \in 0..(alloc(i + 1) - 1)
         PROVE  At(t, j).block = run(i + 1, alloc(i + 1) - j)
    <3>0. alloc(i + 1) \in 1..RingSize /\ c \in Int
      BY <1>0, <2>8
    <3>1. CASE j = alloc(i + 1) - 1
      <4>1. At(t, j).block = c
        BY <2>13, <3>1 DEF NewItem
      <4>2. alloc(i + 1) - j = 1
        BY <3>0, <3>1
      <4>3. run(i + 1, 1) = c
        BY <1>0, <1>1, <2>2
      <4> QED  BY <4>1, <4>2, <4>3
    <3>2. CASE j < alloc(i + 1) - 1 /\ q.alloc < RingSize
      <4>1. alloc(i + 1) = alloc(i) + 1
        BY <1>0, <2>4, <2>6, <3>2
      <4>2. j \in 0..(alloc(i) - 1) /\ j \in 0..(q.alloc - 1)
        BY <2>4, <2>6, <3>2, <4>1
      <4>3. At(t, j) = At(q, j)
        BY <2>11, <3>2, <4>2 DEF Pushed
      <4>4. At(t, j).block = run(i, alloc(i) - j)
        BY <2>5, <4>2, <4>3
      <4> DEFINE m == alloc(i) - j
      <4>5. m \in Nat /\ m + 1 = alloc(i + 1) - j
        BY <2>6, <4>1, <4>2
      <4>6. At(t, j).block = run(i, m)
        BY <4>4
      <4> HIDE DEF m, alloc
      <4>7. run(i + 1, m + 1) = run(i, m)
        <5>1. CASE m <= i
          <6>1. m + 1 <= i + 1 /\ i + 1 + 1 - (m + 1) = i + 1 - m
            BY <4>5, <5>1
          <6>2. b - new + (i + 1) + 1 - (m + 1) = b - new + i + 1 - m
            BY <1>0, <1>1, <4>5
          <6> QED  BY <5>1, <6>1, <6>2
        <5>2. CASE m > i
          <6>1. ~(m <= i) /\ ~(m + 1 <= i + 1) /\ (m + 1) - (i + 1) = m - i
            BY <4>5, <5>2
          <6> QED  BY <6>1
        <5> QED  BY <4>5, <5>1, <5>2
      <4> HIDE DEF run
      <4> QED  BY <4>5, <4>6, <4>7
    <3>3. CASE j < alloc(i + 1) - 1 /\ q.alloc = RingSize
      <4>1. /\ At(t, j) = At(q, j + 1) /\ j + 1 \in 0..(alloc(i) - 1)
            /\ alloc(i + 1) = RingSize /\ alloc(i) = RingSize
        BY <1>0, <2>4, <2>6, <2>11, <3>3 DEF Pushed
      <4>2. At(t, j).block = run(i, RingSize - (j + 1))
        BY <2>5, <4>1
      <4>3. run(i + 1, RingSize - j) = run(i, RingSize - (j + 1))
        BY <1>0, <1>1, <2>2, <2>6, <2>7, <4>1
      <4> QED  BY <4>1, <4>2, <4>3
    <3> QED  BY <2>4, <2>6, <3>0, <3>1, <3>2, <3>3
  <2> HIDE DEF alloc, run
  <2> QED  BY <2>11, <2>12, <2>13, <2>14 DEF t
<1>5. Good(new)
  <2>1. \A i \in Nat : i \in S
    <3> HIDE DEF S
    <3> QED  BY <1>3, <1>4, Induction
  <2>2. new \in Nat
    BY <1>0, <1>1
  <2> HIDE DEF Good
  <2> QED  BY <2>1, <2>2
<1>6. Enter(r, b) = s[new]
  BY <1>2 DEF Entering, new
<1> DEFINE q == Enter(r, b)
<1>7. /\ q \in Rings /\ q.last = b /\ q.alloc = alloc(new)
      /\ \A j \in 0..(alloc(new) - 1) :
           At(q, j).block = run(new, alloc(new) - j)
      /\ Progress(q, g) /\ Unfinished(q, g)
  BY <1>5, <1>6
<1>8. At(q, alloc(new) - 1) = NewItem(b)
  <2>1. b - new + new = b /\ new > 0
    BY <1>0, <1>1
  <2> QED  BY <1>5, <1>6, <2>1
<1> HIDE DEF q
<1>9. alloc(new) \in 1..RingSize
  BY <1>0, <1>1
<1>10. Window(q)
  <2> SUFFICES ASSUME NEW j \in 0..(q.alloc - 1)
               PROVE  /\ q.last # NoBlock
                      /\ At(q, j).block + q.alloc = q.last + 1 + j
    BY DEF Window
  <2>1. At(q, j).block = run(new, alloc(new) - j)
    BY <1>7
  <2>2. run(new, alloc(new) - j) = b + 1 - (alloc(new) - j)
    BY <1>0, <1>1, <1>7, <1>9
  <2>3. b # NoBlock
    BY <1>0, AggregatorAssumption
  <2> HIDE DEF run, alloc
  <2> QED  BY <1>0, <1>7, <1>9, <2>1, <2>2, <2>3
<1>11. Entered(q, r, b)
  BY <1>7, <1>8, <1>9, <1>10 DEF Entered, new
<1> QED  BY <1>1, <1>7, <1>11 DEF q, new

-----------------------------------------------------------------------------
\* The oldest block has sent its packets up to u.
Advanced(r, u, sends) ==
  [r EXCEPT !.sends = sends, !.ring[r.front].toSend = u]

\* Fragment u of a block is the first from its position on that is missing.
FirstGap(item, u) ==
  /\ u \in item.toSend..sess.k
  /\ u = sess.k \/ u \notin item.frags
  /\ \A f \in item.toSend..(u - 1) : f \in item.frags

\* The prefix that can be sent has an end.
LEMMA GapExists ==
  ASSUME HasCode, NEW item \in Items, item.toSend \in 0..sess.k
  PROVE  \E u \in item.toSend..sess.k : FirstGap(item, u)
<1> DEFINE S == {j \in item.toSend..sess.k : j = sess.k \/ j \notin item.frags}
<1>1. sess.k \in Nat /\ item.toSend \in Nat /\ item.toSend <= sess.k
  BY CodeType DEF Items
<1>2. S \in SUBSET Nat /\ S # {}
  BY <1>1
<1>3. PICK u \in S : \A m \in S : u <= m
  BY <1>2, LeastNatural
<1>4. \A f \in item.toSend..(u - 1) : f \in item.frags
  BY <1>1, <1>3
<1> QED  BY <1>3, <1>4 DEF FirstGap

\* What the ring is like once the oldest block sent a prefix.
LEMMA AdvancedShape ==
  ASSUME NEW r \in Rings, NEW u \in Nat, NEW sends \in Seq(Packets)
  PROVE  /\ Advanced(r, u, sends) \in Rings
         /\ Advanced(r, u, sends).front = r.front
         /\ Advanced(r, u, sends).alloc = r.alloc
         /\ Advanced(r, u, sends).last = r.last
         /\ Advanced(r, u, sends).sends = sends
         /\ \A j \in 1..(RingSize - 1) :
              At(Advanced(r, u, sends), j) = At(r, j)
         /\ At(Advanced(r, u, sends), 0) = [At(r, 0) EXCEPT !.toSend = u]
         /\ \A i \in Slots : i # r.front =>
              Advanced(r, u, sends).ring[i] = r.ring[i]
<1> DEFINE item == [r.ring[r.front] EXCEPT !.toSend = u]
           q == Advanced(r, u, sends)
<1>1. item \in Items
  BY DEF Rings, Items
<1>2. q = [r EXCEPT !.sends = sends,
                    !.ring = [r.ring EXCEPT ![r.front] = item]]
  BY DEF Advanced, Rings
<1> HIDE DEF item, q
<1>3. /\ q \in Rings /\ q.front = r.front /\ q.alloc = r.alloc
      /\ q.last = r.last /\ q.sends = sends
      /\ q.ring = [r.ring EXCEPT ![r.front] = item]
  BY <1>1, <1>2 DEF Rings
<1>4. ASSUME NEW j \in 1..(RingSize - 1)
      PROVE  At(q, j) = At(r, j)
  <2>1. r.front \in Slots /\ j \in 0..(RingSize - 1) /\ 0 \in 0..(RingSize - 1)
        /\ j # 0 /\ r.front + 0 = r.front
    BY AggregatorAssumption DEF Rings, Slots
  <2>2. Mod(r.front + j) # r.front
    BY <2>1, ModInjective, FrontSlot
  <2>3. Mod(r.front + j) \in Slots
    <3>1. r.front + j \in 0..(2 * RingSize - 1)
      BY <2>1, AggregatorAssumption DEF Slots
    <3> QED  BY <3>1, ModInSlots
  <2> QED  BY <1>3, <2>2, <2>3 DEF At, Rings
<1>5. At(q, 0) = item /\ item = [At(r, 0) EXCEPT !.toSend = u]
  <2>1. At(q, 0) = q.ring[q.front] /\ At(r, 0) = r.ring[r.front]
    BY <1>3, FrontSlot
  <2> QED  BY <1>3, <2>1 DEF item, Rings
<1>6. \A i \in Slots : i # r.front => q.ring[i] = r.ring[i]
  BY <1>3 DEF Rings
<1> QED  BY <1>3, <1>4, <1>5, <1>6 DEF q

\* Sending the prefix of the oldest block is sending what is due of it.
LEMMA AdvancedProgress ==
  ASSUME HasCode, NEW r \in Rings, NEW g \in Histories, r.alloc > 0,
         Progress(r, g), NEW u \in Nat, FirstGap(At(r, 0), u),
         NEW sends \in Seq(Packets),
         SentMore(r, At(r, 0).block, At(r, 0).toSend..(u - 1), sends)
  PROVE  /\ Progress(Advanced(r, u, sends), g)
         /\ \A c : Held(Advanced(r, u, sends), c) <=> Held(r, c)
<1> DEFINE q == Advanced(r, u, sends)
           b == At(r, 0).block
<1>0. /\ RingSize \in Nat \ {0} /\ r.alloc \in 1..RingSize
      /\ sess.k \in 1..255
  BY AggregatorAssumption, CodeType DEF Rings
<1>1. /\ q \in Rings /\ q.front = r.front /\ q.alloc = r.alloc
      /\ q.last = r.last /\ q.sends = sends
      /\ \A j \in 1..(RingSize - 1) : At(q, j) = At(r, j)
      /\ At(q, 0) = [At(r, 0) EXCEPT !.toSend = u]
  BY AdvancedShape
<1>2. At(r, 0) \in Items
  BY <1>0, AtInItems
<1>3. /\ b \in Blocks /\ At(r, 0).frags = g[b] /\ At(r, 0).toSend \in 0..sess.k
      /\ 0..(At(r, 0).toSend - 1) \subseteq At(r, 0).frags
  BY <1>0 DEF Progress, Contents
<1>4. /\ At(q, 0).block = b /\ At(q, 0).frags = At(r, 0).frags
      /\ At(q, 0).toSend = u
  BY <1>1, <1>2 DEF Items
<1> HIDE DEF q
<1>5. \A j \in 0..(r.alloc - 1) : At(q, j).block = At(r, j).block
  BY <1>0, <1>1, <1>4
<1>6. \A c : Held(q, c) <=> Held(r, c)
  BY <1>1, <1>5 DEF Held
<1>7. u \in 0..sess.k /\ u >= At(r, 0).toSend
      /\ 0..(u - 1) \subseteq At(r, 0).frags
  BY <1>0, <1>3 DEF FirstGap
<1>8. Contents(q, g)
  <2> SUFFICES ASSUME NEW j \in 0..(r.alloc - 1)
               PROVE  /\ At(q, j).block \in Blocks
                      /\ At(q, j).frags = g[At(q, j).block]
                      /\ At(q, j).toSend \in 0..sess.k
                      /\ j > 0 => At(q, j).toSend = 0
                      /\ 0..(At(q, j).toSend - 1) \subseteq At(q, j).frags
    BY <1>1 DEF Contents
  <2>1. CASE j = 0
    BY <1>3, <1>4, <1>7, <2>1
  <2>2. CASE j > 0
    <3>1. At(q, j) = At(r, j)
      BY <1>0, <1>1, <2>2
    <3> QED  BY <3>1 DEF Progress, Contents
  <2> QED  BY <1>0, <2>1, <2>2
<1>9. Sorted(q)
  BY <1>1, <1>5 DEF Progress, Sorted
<1>10. Untouched(q, g)
  BY <1>1, <1>4, <1>6 DEF Progress, Untouched
<1>11. Account(q, g)
  <2>1. out \cup Sent(q.sends) \subseteq (Blocks \X Payload) \ Fillers
    BY <1>1, <1>3 DEF Progress, Account, SentMore
  <2>2. ASSUME NEW c \in Blocks, NEW i \in Payload, <<c, i>> \notin Fillers
        PROVE  <<c, i>> \in out \cup Sent(q.sends) <=> Due(q, g, c, i)
    <3>1. <<c, i>> \in out \cup Sent(q.sends)
             <=> \/ <<c, i>> \in out \cup Sent(r.sends)
                 \/ c = b /\ i \in At(r, 0).toSend..(u - 1)
      BY <1>1, <2>2 DEF SentMore
    <3>2. <<c, i>> \in out \cup Sent(r.sends) <=> Due(r, g, c, i)
      BY <2>2 DEF Progress, Account
    <3>3. CASE c = b
      <4>1. Held(r, c)
        BY <1>0, <3>3 DEF Held
      <4>2. Due(r, g, c, i) <=> i < At(r, 0).toSend
        BY <3>3, <4>1 DEF Due
      <4>3. Due(q, g, c, i) <=> i < u
        BY <1>4, <1>6, <3>3, <4>1 DEF Due
      <4>4. i < u <=> i < At(r, 0).toSend \/ i \in At(r, 0).toSend..(u - 1)
        BY <1>0, <1>3, <1>7 DEF Payload
      <4> QED  BY <3>1, <3>2, <3>3, <4>2, <4>3, <4>4
    <3>4. CASE c # b
      BY <1>4, <1>6, <3>1, <3>2, <3>4 DEF Due
    <3> QED  BY <3>3, <3>4
  <2> QED  BY <2>1, <2>2 DEF Account
<1>12. InOrder(q.sends)
  BY <1>1 DEF SentMore
<1> QED  BY <1>6, <1>8, <1>9, <1>10, <1>11, <1>12 DEF Progress, q

\* What SendPrefix does to the oldest block.
LEMMA PrefixAdvances ==
  ASSUME HasCode, NEW r \in Rings, NEW g \in Histories, r.alloc > 0,
         Progress(r, g)
  PROVE  \E u \in Nat, sends \in Seq(Packets) :
           /\ FirstGap(At(r, 0), u)
           /\ SendPrefix(r, r.front) = Advanced(r, u, sends)
           /\ SentMore(r, At(r, 0).block, At(r, 0).toSend..(u - 1), sends)
<1> DEFINE item == r.ring[r.front]
           gap(j) == /\ j = sess.k \/ j \notin item.frags
                     /\ \A f \in item.toSend..(j - 1) : f \in item.frags
           u == CHOOSE j \in item.toSend..sess.k : gap(j)
<1>0. /\ RingSize \in Nat \ {0} /\ r.alloc \in 1..RingSize
      /\ sess.k \in 1..255
  BY AggregatorAssumption, CodeType DEF Rings
<1>1. item = At(r, 0) /\ item \in Items
  BY FrontSlot DEF Rings
<1>2. item.toSend \in 0..sess.k /\ item.toSend \in Nat
  BY <1>0, <1>1 DEF Progress, Contents, Items
<1>3. PICK v \in item.toSend..sess.k : FirstGap(item, v)
  BY <1>1, <1>2, GapExists
<1>4. gap(v)
  BY <1>3 DEF FirstGap
<1>5. SendPrefix(r, r.front) =
        [Send(r, item, item.toSend..(u - 1)) EXCEPT !.ring[r.front].toSend = u]
  BY DEF SendPrefix
<1>6. u \in item.toSend..sess.k /\ gap(u)
  <2> HIDE DEF gap, item
  <2> QED  BY <1>4
<1>7. FirstGap(item, u)
  <2> HIDE DEF u
  <2> QED  BY <1>6 DEF FirstGap
<1> HIDE DEF u
<1>8. u \in Nat
  BY <1>0, <1>2, <1>6
<1> DEFINE fs == item.toSend..(u - 1)
<1>9. \A f \in fs \cap Payload : f >= At(r, 0).toSend
  BY <1>1, <1>2, <1>8
<1> HIDE DEF fs
<1>10. PICK sends \in Seq(Packets) :
           /\ Send(r, item, fs) = WithSends(r, sends)
           /\ SentMore(r, At(r, 0).block, fs, sends)
  BY <1>1, <1>9, SendOldest
<1>11. SendPrefix(r, r.front) = Advanced(r, u, sends)
  BY <1>5, <1>10 DEF fs, WithSends, Advanced, Rings
<1> HIDE DEF item
<1> QED  BY <1>1, <1>7, <1>8, <1>10, <1>11 DEF fs

-----------------------------------------------------------------------------
\* Fragment f is put into slot i.
Kept(r, i, f) == [r EXCEPT !.ring[i].frags = @ \cup {f}]

\* Fragment f of block b arrived.
Arrived(g, b, f) == [g EXCEPT ![b] = @ \cup {f}]

\* What the ring is like with one fragment more in the slot of a block.
LEMMA KeptShape ==
  ASSUME NEW r \in Rings, NEW j0 \in 0..(RingSize - 1), NEW f \in Fragments
  PROVE  LET q == Kept(r, Mod(r.front + j0), f) IN
         /\ q \in Rings
         /\ q.front = r.front /\ q.alloc = r.alloc
         /\ q.last = r.last /\ q.sends = r.sends
         /\ \A j \in 0..(RingSize - 1) : j # j0 => At(q, j) = At(r, j)
         /\ At(q, j0) = [At(r, j0) EXCEPT !.frags = @ \cup {f}]
<1> DEFINE slot == Mod(r.front + j0)
           item == [r.ring[slot] EXCEPT !.frags = @ \cup {f}]
           q == Kept(r, slot, f)
<1>0. \A j \in 0..(RingSize - 1) : Mod(r.front + j) \in Slots
  <2> TAKE j \in 0..(RingSize - 1)
  <2>1. r.front + j \in 0..(2 * RingSize - 1)
    BY AggregatorAssumption DEF Rings, Slots
  <2> QED  BY <2>1, ModInSlots
<1>1. slot \in Slots
  BY <1>0
<1> HIDE DEF slot
<1>2. item \in Items
  BY <1>1 DEF Rings, Items
<1>3. q = [r EXCEPT !.ring = [r.ring EXCEPT ![slot] = item]]
  BY DEF Kept, Rings
<1> HIDE DEF q, item
<1>4. /\ q \in Rings /\ q.front = r.front /\ q.alloc = r.alloc
      /\ q.last = r.last /\ q.sends = r.sends
      /\ q.ring = [r.ring EXCEPT ![slot] = item]
  BY <1>2, <1>3 DEF Rings
<1>5. \A j \in 0..(RingSize - 1) : j # j0 => At(q, j) = At(r, j)
  <2> TAKE j \in 0..(RingSize - 1)
  <2> HAVE j # j0
  <2>1. Mod(r.front + j) # slot
    BY ModInjective DEF slot, Rings
  <2> QED  BY <1>0, <1>4, <2>1 DEF At, Rings
<1>6. At(q, j0) = item
  BY <1>1, <1>4 DEF At, slot, Rings
<1>7. item = [At(r, j0) EXCEPT !.frags = @ \cup {f}]
  BY DEF item, At, slot
<1> QED  BY <1>4, <1>5, <1>6, <1>7 DEF q, slot

\* One fragment more of a block makes nothing due that was not, except in
\* the prefix of the oldest one.
LEMMA KeptProgress ==
  ASSUME HasCode, NEW r \in Rings, NEW g \in Histories,
         Progress(r, g), Unfinished(r, g),
         NEW j0 \in 0..(r.alloc - 1), NEW f \in Fragments,
         f \notin g[At(r, j0).block]
  PROVE  LET q == Kept(r, Mod(r.front + j0), f)
             b == At(r, j0).block
             h == Arrived(g, b, f)
         IN /\ h \in Histories
            /\ Progress(q, h)
            /\ \A c : Held(q, c) <=> Held(r, c)
            /\ \A c \in Blocks : c # b => h[c] = g[c]
            /\ Cardinality(h[b]) <= sess.k
<1> DEFINE q == Kept(r, Mod(r.front + j0), f)
           b == At(r, j0).block
           h == Arrived(g, b, f)
<1>0. /\ RingSize \in Nat \ {0} /\ r.alloc \in 1..RingSize
      /\ j0 \in 0..(RingSize - 1) /\ j0 \in Nat /\ sess.k \in 1..255
  BY AggregatorAssumption, CodeType DEF Rings
<1>1. /\ q \in Rings /\ q.front = r.front /\ q.alloc = r.alloc
      /\ q.last = r.last /\ q.sends = r.sends
      /\ \A j \in 0..(RingSize - 1) : j # j0 => At(q, j) = At(r, j)
      /\ At(q, j0) = [At(r, j0) EXCEPT !.frags = @ \cup {f}]
  BY <1>0, KeptShape
<1>2. At(r, j0) \in Items
  BY <1>0, AtInItems
<1>3. b \in Blocks /\ At(r, j0).frags = g[b]
  BY <1>0 DEF Progress, Contents
<1>4. /\ At(q, j0).block = b /\ At(q, j0).frags = g[b] \cup {f}
      /\ At(q, j0).toSend = At(r, j0).toSend
  BY <1>1, <1>2, <1>3 DEF Items
<1>5. h \in Histories /\ h[b] = g[b] \cup {f}
      /\ \A c \in Blocks : c # b => h[c] = g[c]
  <2>1. g[b] \cup {f} \in SUBSET Fragments
    BY <1>3 DEF Histories
  <2> QED  BY <1>3, <2>1 DEF Histories, Arrived
<1> HIDE DEF q, h
<1>6. \A j \in 0..(r.alloc - 1) : At(q, j).block = At(r, j).block
                                /\ At(q, j).toSend = At(r, j).toSend
  <2> TAKE j \in 0..(r.alloc - 1)
  <2>1. CASE j = j0
    BY <1>4, <2>1
  <2>2. CASE j # j0
    <3>1. At(q, j) = At(r, j)
      BY <1>0, <1>1, <2>2
    <3> QED  BY <3>1
  <2> QED  BY <2>1, <2>2
<1>7. \A c : Held(q, c) <=> Held(r, c)
  BY <1>1, <1>6 DEF Held
<1>8. Cardinality(h[b]) <= sess.k
  <2>1. IsFiniteSet(g[b]) /\ Cardinality(g[b]) \in Nat
    BY <1>3, HistoriesAreFinite
  <2>2. Held(r, b)
    BY DEF Held
  <2>3. Cardinality(g[b]) < sess.k
    BY <1>3, <2>2 DEF Unfinished
  <2>4. Cardinality(h[b]) = Cardinality(g[b]) + 1
    BY <1>5, <2>1, FS_AddElement
  <2> QED  BY <1>0, <2>1, <2>3, <2>4
<1>9. Contents(q, h)
  <2> SUFFICES ASSUME NEW j \in 0..(r.alloc - 1)
               PROVE  /\ At(q, j).block \in Blocks
                      /\ At(q, j).frags = h[At(q, j).block]
                      /\ At(q, j).toSend \in 0..sess.k
                      /\ j > 0 => At(q, j).toSend = 0
                      /\ 0..(At(q, j).toSend - 1) \subseteq At(q, j).frags
    BY <1>1 DEF Contents
  <2>1. /\ At(r, j).block \in Blocks
        /\ At(r, j).frags = g[At(r, j).block]
        /\ At(r, j).toSend \in 0..sess.k
        /\ j > 0 => At(r, j).toSend = 0
        /\ 0..(At(r, j).toSend - 1) \subseteq At(r, j).frags
    BY DEF Progress, Contents
  <2>2. CASE j = j0
    BY <1>3, <1>4, <1>5, <2>1, <2>2
  <2>3. CASE j # j0
    <3>1. At(q, j) = At(r, j)
      BY <1>0, <1>1, <2>3
    <3>2. At(r, j).block # b
      <4>1. /\ j < j0 => At(r, j).block < b
            /\ j0 < j => b < At(r, j).block
        BY DEF Progress, Sorted
      <4>2. b \in Nat /\ j \in Nat
        BY <1>3 DEF Blocks
      <4> QED  BY <1>0, <2>3, <4>1, <4>2
    <3> QED  BY <1>5, <2>1, <3>1, <3>2
  <2> QED  BY <2>2, <2>3
<1>10. Sorted(q)
  BY <1>1, <1>6 DEF Progress, Sorted
<1>11. Untouched(q, h)
  <2> SUFFICES ASSUME NEW c \in Blocks, q.alloc > 0, c > At(q, 0).block,
                      ~Held(q, c)
               PROVE  h[c] = {}
    BY DEF Untouched
  <2>1. c # b
    BY <1>7 DEF Held
  <2>2. At(q, 0).block = At(r, 0).block
    BY <1>0, <1>6
  <2>3. g[c] = {}
    BY <1>1, <1>7, <2>2 DEF Progress, Untouched
  <2> QED  BY <1>5, <2>1, <2>3
<1>12. Account(q, h)
  <2>1. ASSUME NEW c \in Blocks, NEW i \in Payload
        PROVE  Due(q, h, c, i) <=> Due(r, g, c, i)
    <3>1. CASE Held(r, c)
      <4>1. 0 \in 0..(r.alloc - 1)
        BY <1>0
      <4> QED  BY <1>6, <1>7, <3>1, <4>1 DEF Due
    <3>2. CASE ~Held(r, c)
      <4>1. c # b
        BY <3>2 DEF Held
      <4> QED  BY <1>5, <1>7, <3>2, <4>1 DEF Due, Avail
    <3> QED  BY <3>1, <3>2
  <2> QED  BY <1>1, <2>1 DEF Progress, Account
<1>13. InOrder(q.sends)
  BY <1>1 DEF Progress
<1> QED  BY <1>5, <1>7, <1>8, <1>9, <1>10, <1>11, <1>12, <1>13
         DEF Progress, q, h

-----------------------------------------------------------------------------
\* What Store leaves of r: its m oldest blocks are gone, the last of them
\* because block b was complete.
Leaves(d, r, g, b, m) ==
  /\ d.sane = TRUE
  /\ d.ring \in Rings /\ d.ring.last = r.last /\ d.ring.alloc = r.alloc - m
  /\ \A j \in 0..(r.alloc - m - 1) : At(d.ring, j).block = At(r, j + m).block
  /\ Progress(d.ring, g) /\ Unfinished(d.ring, g)
  /\ m > 0 => Cardinality(g[b]) >= sess.k

\* Where a block is in the ring is its distance from the front.
LEMMA OlderIs ==
  ASSUME NEW a \in Slots, NEW j \in 0..(RingSize - 1)
  PROVE  Mod(Mod(a + j) + RingSize - a) = j
<1>1. RingSize \in Nat \ {0} /\ a \in 0..(RingSize - 1) /\ j \in Nat
  BY AggregatorAssumption DEF Slots
<1>2. a + j \in 0..(2 * RingSize - 1)
  BY <1>1
<1> DEFINE i == a + j
<1>3. i \in 0..(2 * RingSize - 1) /\ i = a + j
  BY <1>2
<1> HIDE DEF i
<1>4. Mod(i) = IF i < RingSize THEN i ELSE i - RingSize
  BY <1>3, ModIs
<1> DEFINE m == Mod(i) + RingSize - a
<1>5. /\ m \in 0..(2 * RingSize - 1)
      /\ m = IF j < RingSize - a THEN j + RingSize ELSE j
  BY <1>1, <1>3, <1>4
<1> HIDE DEF m
<1>6. Mod(m) = IF m < RingSize THEN m ELSE m - RingSize
  BY <1>5, ModIs
<1>7. Mod(m) = j
  BY <1>1, <1>5, <1>6
<1> QED  BY <1>7 DEF i, m

\* The parity fragments of a complete block are enough for what is missing.
LEMMA ParityIsEnough ==
  ASSUME HasCode, NEW fs \in SUBSET Fragments, Cardinality(fs) = sess.k
  PROVE  Cardinality(Payload \ fs) <= Cardinality(fs \ Payload)
<1>1. sess.k \in 1..255
  BY CodeType
<1>2. IsFiniteSet(fs)
  BY FS_Interval, FS_Subset, 0 \in Int, 255 \in Int DEF Fragments
<1>3. IsFiniteSet(Payload) /\ Cardinality(Payload) = sess.k
  <2>1. 0 \in Int /\ sess.k - 1 \in Int
    BY <1>1
  <2>2. /\ IsFiniteSet(0..(sess.k - 1))
        /\ Cardinality(0..(sess.k - 1)) =
             IF 0 > sess.k - 1 THEN 0 ELSE (sess.k - 1) - 0 + 1
    BY <2>1, FS_Interval
  <2>3. ~(0 > sess.k - 1) /\ (sess.k - 1) - 0 + 1 = sess.k
    BY <1>1
  <2> QED  BY <2>2, <2>3 DEF Payload
<1>4. /\ Cardinality(Payload \ fs) =
           Cardinality(Payload) - Cardinality(Payload \cap fs)
      /\ Cardinality(fs \ Payload) =
           Cardinality(fs) - Cardinality(fs \cap Payload)
  BY <1>2, <1>3, FS_Difference
<1>5. Payload \cap fs = fs \cap Payload /\ IsFiniteSet(fs \cap Payload)
  BY <1>2, FS_Subset
<1>6. Cardinality(fs \cap Payload) \in Nat
  BY <1>5, FS_CardinalityType
<1> DEFINE both == Cardinality(fs \cap Payload)
<1>7. /\ Cardinality(Payload \ fs) = sess.k - both
      /\ Cardinality(fs \ Payload) = sess.k - both
  BY <1>3, <1>4, <1>5
<1>8. sess.k - both \in Int
  BY <1>1, <1>6
<1> HIDE DEF both
<1> QED  BY <1>7, <1>8

-----------------------------------------------------------------------------
\* Once all the payload of a block is there, it is complete.
LEMMA WholeIsComplete ==
  ASSUME HasCode, NEW g \in Histories, NEW b \in Blocks,
         Payload \subseteq g[b]
  PROVE  Cardinality(g[b]) >= sess.k
<1>1. sess.k \in 1..255
  BY CodeType
<1>2. IsFiniteSet(g[b]) /\ Cardinality(g[b]) \in Nat
  BY HistoriesAreFinite
<1>3. Cardinality(Payload) = sess.k
  <2>1. 0 \in Int /\ sess.k - 1 \in Int
    BY <1>1
  <2>2. Cardinality(0..(sess.k - 1)) =
          IF 0 > sess.k - 1 THEN 0 ELSE (sess.k - 1) - 0 + 1
    BY <2>1, FS_Interval
  <2>3. ~(0 > sess.k - 1) /\ (sess.k - 1) - 0 + 1 = sess.k
    BY <1>1
  <2> QED  BY <2>2, <2>3 DEF Payload
<1>4. Cardinality(Payload) <= Cardinality(g[b])
  BY <1>2, FS_Subset
<1> QED  BY <1>1, <1>2, <1>3, <1>4

\* The oldest block is gone, and only it could have been complete.
LEMMA GoneIsUnfinished ==
  ASSUME NEW q, NEW r, NEW g \in Histories, NEW b,
         \A c \in Blocks : Held(r, c) /\ c # b => Cardinality(g[c]) < sess.k,
         \A c \in Blocks : Held(q, c) => Held(r, c) /\ c # b
  PROVE  Unfinished(q, g)
BY DEF Unfinished

\* The oldest block sent all its payload and gives its slot up.
LEMMA SentWholeLeaves ==
  ASSUME HasCode, NEW r \in Rings, NEW g \in Histories, r.alloc > 0,
         Progress(r, g), At(r, 0).toSend = sess.k,
         \A c \in Blocks : Held(r, c) /\ c # At(r, 0).block =>
            Cardinality(g[c]) < sess.k
  PROVE  LET d == [ring |-> [r EXCEPT !.front = Mod(@ + 1), !.alloc = @ - 1],
                   sane |-> r.alloc > 0]
         IN  Leaves(d, r, g, At(r, 0).block, 1)
<1> DEFINE q == LetGo(r, r.sends)
           b == At(r, 0).block
<1>0. sess.k \in 1..255 /\ r.alloc \in Nat /\ r.sends \in Seq(Packets)
  BY CodeType DEF Rings
<1>1. /\ b \in Blocks /\ At(r, 0).frags = g[b]
      /\ 0..(sess.k - 1) \subseteq g[b]
  BY <1>0 DEF Progress, Contents
<1>2. Cardinality(g[b]) >= sess.k
  BY <1>1, WholeIsComplete DEF Payload
<1> DEFINE none == {}
<1>3. \A f \in Payload : (f \in none \/ f < At(r, 0).toSend)
                           <=> f \in Avail(g, b)
  <2>1. Payload \cap g[b] = Payload
    BY <1>1 DEF Payload
  <2>2. Avail(g, b) = Payload
    BY <2>1 DEF Avail
  <2>3. \A f \in Payload : f < sess.k
    BY CodeType DEF Payload
  <2>4. \A f \in Payload : f < At(r, 0).toSend
    BY <2>3
  <2> QED  BY <2>2, <2>4
<1>4. SentMore(r, b, none, r.sends)
  BY DEF SentMore, Progress
<1> HIDE DEF none
<1>5. /\ Progress(q, g)
      /\ \A c \in Blocks : Held(q, c) <=> Held(r, c) /\ c # b
  BY <1>0, <1>3, <1>4, LetGoProgress
<1>6. /\ q \in Rings /\ q.alloc = r.alloc - 1 /\ q.last = r.last
      /\ \A j \in 0..(r.alloc - 2) : At(q, j) = At(r, j + 1)
  BY <1>0, LetGoShape
<1>7. q = [r EXCEPT !.front = Mod(@ + 1), !.alloc = @ - 1]
  BY DEF LetGo, Rings
<1> HIDE DEF q
<1>8. Unfinished(q, g)
  BY <1>5, GoneIsUnfinished
<1>9. r.alloc - 1 - 1 = r.alloc - 2
  BY <1>0
<1> QED  BY <1>2, <1>5, <1>6, <1>7, <1>8, <1>9 DEF Leaves

\* A complete block is rebuilt behind the older ones.
LEMMA RecoverLeaves ==
  ASSUME HasCode, NEW r \in Rings, NEW g \in Histories,
         Progress(r, g), NEW j0 \in 0..(r.alloc - 1),
         Cardinality(g[At(r, j0).block]) = sess.k,
         \A c \in Blocks : Held(r, c) /\ c # At(r, j0).block =>
            Cardinality(g[c]) < sess.k
  PROVE  LET slot == Mod(r.front + j0)
             d == [ring |-> Recover(r, slot), sane |-> RecoverIsSane(r, slot)]
         IN  Leaves(d, r, g, At(r, j0).block, j0 + 1)
<1> DEFINE slot == Mod(r.front + j0)
           b == At(r, j0).block
           item == r.ring[slot]
           fs == item.toSend..(sess.k - 1)
           q == FlushTimes(r, j0)
<1>0. /\ RingSize \in Nat \ {0} /\ r.alloc \in 1..RingSize
      /\ j0 \in 0..(RingSize - 1) /\ j0 \in Nat /\ sess.k \in 1..255
      /\ r.front \in Slots
  BY AggregatorAssumption, CodeType DEF Rings
<1>1. Mod(slot + RingSize - r.front) = j0
  BY <1>0, OlderIs
<1>2. item = At(r, j0) /\ item \in Items
  BY <1>0, AtInItems DEF At
<1>3. b \in Blocks /\ item.frags = g[b] /\ item.toSend \in 0..sess.k
  BY <1>0, <1>2 DEF Progress, Contents
<1>4. \A j \in 0..(j0 - 1) : Cardinality(g[At(r, j).block]) < sess.k
  <2> TAKE j \in 0..(j0 - 1)
  <2>1. j \in 0..(r.alloc - 1) /\ j < j0
    BY <1>0
  <2>2. At(r, j).block \in Blocks /\ At(r, j).block < b
    BY <2>1 DEF Progress, Contents, Sorted
  <2>3. At(r, j).block # b
    BY <1>3, <2>2 DEF Blocks
  <2>4. Held(r, At(r, j).block)
    BY <2>1 DEF Held
  <2> QED  BY <2>2, <2>3, <2>4
<1>5. Shifted(q, r, j0) /\ Progress(q, g)
  <2>1. j0 \in 0..r.alloc
    BY <1>0
  <2> QED  BY <1>4, <2>1, FlushTimesProgress
<1>6. /\ q \in Rings /\ q.ring = r.ring /\ q.last = r.last
      /\ q.front = slot /\ q.alloc = r.alloc - j0
  BY <1>5 DEF Shifted
<1>7. \A j \in 0..(r.alloc - j0 - 1) : At(q, j) = At(r, j + j0)
  <2>1. j0 \in 0..r.alloc
    BY <1>0
  <2> QED  BY <1>5, <2>1, ShiftedAt
<1>8. q.alloc > 0 /\ At(q, 0) = At(r, j0)
  BY <1>0, <1>6, <1>7
<1>9. Recover(r, slot) =
        [Send(q, item, fs) EXCEPT !.front = Mod(@ + 1), !.alloc = @ - 1]
  <2> HIDE DEF slot
  <2> QED  BY <1>1 DEF Recover
<1>10. RecoverIsSane(r, slot) = TRUE
  <2>1. Cardinality(Payload \ item.frags) <= Cardinality(item.frags \ Payload)
    BY <1>2, <1>3, ParityIsEnough DEF Items
  <2>2. RecoverIsSane(r, slot) =
          (/\ q.alloc > 0 /\ slot = q.front
           /\ Cardinality(Payload \ item.frags)
                <= Cardinality(item.frags \ Payload))
    <3> HIDE DEF slot
    <3> QED  BY <1>1 DEF RecoverIsSane, Payload
  <2> QED  BY <1>6, <1>8, <2>1, <2>2
<1>11. \A f \in fs \cap Payload : f >= At(q, 0).toSend
  BY <1>2, <1>3, <1>8 DEF Payload
<1>12. \A f \in Payload : (f \in fs \/ f < At(q, 0).toSend)
                            <=> f \in Avail(g, At(q, 0).block)
  <2>1. Avail(g, b) = Payload
    BY <1>0 DEF Avail
  <2>2. \A f \in Payload : f \in fs \/ f < item.toSend
    BY <1>0, <1>3 DEF Payload
  <2> QED  BY <1>2, <1>8, <2>1, <2>2
<1> HIDE DEF q, fs, item, slot
<1>13. PICK sends \in Seq(Packets) :
           /\ Send(q, item, fs) = WithSends(q, sends)
           /\ SentMore(q, At(q, 0).block, fs, sends)
  BY <1>2, <1>5, <1>6, <1>8, <1>11, SendOldest
<1>14. Recover(r, slot) = LetGo(q, sends)
  BY <1>6, <1>9, <1>13 DEF WithSends, LetGo, Rings
<1> DEFINE p == LetGo(q, sends)
<1>15. /\ Progress(p, g)
       /\ \A c \in Blocks : Held(p, c) <=> Held(q, c) /\ c # b
  BY <1>5, <1>6, <1>8, <1>12, <1>13, LetGoProgress
<1>16. /\ p \in Rings /\ p.alloc = q.alloc - 1 /\ p.last = q.last
       /\ \A j \in 0..(q.alloc - 2) : At(p, j) = At(q, j + 1)
  BY <1>6, <1>8, <1>13, LetGoShape
<1> HIDE DEF p
<1>17. \A c \in Blocks : Held(q, c) => Held(r, c)
  <2> TAKE c \in Blocks
  <2> HAVE Held(q, c)
  <2>1. PICK j \in 0..(q.alloc - 1) : At(q, j).block = c
    BY DEF Held
  <2>2. j + j0 \in 0..(r.alloc - 1) /\ At(r, j + j0).block = c
    BY <1>0, <1>6, <1>7, <2>1
  <2> QED  BY <2>2 DEF Held
<1>18. Unfinished(p, g)
  BY <1>15, <1>17, GoneIsUnfinished
<1>19. \A j \in 0..(r.alloc - (j0 + 1) - 1) :
         At(p, j).block = At(r, j + (j0 + 1)).block
  <2> TAKE j \in 0..(r.alloc - (j0 + 1) - 1)
  <2>1. j \in 0..(q.alloc - 2) /\ j + 1 \in 0..(r.alloc - j0 - 1)
        /\ (j + 1) + j0 = j + (j0 + 1)
    <3>1. j \in Nat /\ j <= r.alloc - j0 - 2
      BY <1>0
    <3>2. q.alloc - 2 = r.alloc - j0 - 2
      BY <1>0, <1>6
    <3>3. j \in 0..(q.alloc - 2)
      BY <1>0, <3>1, <3>2
    <3>4. j + 1 \in 0..(r.alloc - j0 - 1)
      BY <1>0, <3>1
    <3>5. j + 1 + j0 = j + (j0 + 1)
      BY <1>0, <3>1
    <3> QED  BY <3>3, <3>4, <3>5
  <2> QED  BY <1>7, <1>16, <2>1
<1>20. p.alloc = r.alloc - (j0 + 1)
  BY <1>0, <1>6, <1>16
<1>21. Cardinality(g[b]) >= sess.k
  <2>1. Cardinality(g[b]) = sess.k
    OBVIOUS
  <2>2. \A x \in 1..255 : x >= x
    OBVIOUS
  <2>3. sess.k >= sess.k
    BY <1>0, <2>2
  <2> HIDE DEF b
  <2> QED  BY <2>1, <2>3
<1> QED  BY <1>6, <1>10, <1>14, <1>15, <1>16, <1>18, <1>19, <1>20, <1>21
         DEF Leaves, slot, p

-----------------------------------------------------------------------------
\* A ring whose first j0 blocks differ from another's only in what they hold.
LEMMA LeavesLikewise ==
  ASSUME NEW d, NEW r \in Rings, NEW q \in Rings, NEW g, NEW b, NEW m \in Nat,
         Leaves(d, q, g, b, m), q.last = r.last, q.alloc = r.alloc,
         \A j \in 0..(r.alloc - 1) : At(q, j).block = At(r, j).block
  PROVE  Leaves(d, r, g, b, m)
<1>1. \A j \in 0..(r.alloc - m - 1) : At(d.ring, j).block = At(r, j + m).block
  <2> TAKE j \in 0..(r.alloc - m - 1)
  <2>1. j + m \in 0..(r.alloc - 1)
    BY DEF Rings
  <2>2. At(d.ring, j).block = At(q, j + m).block
    BY DEF Leaves
  <2> QED  BY <2>1, <2>2
<1> QED  BY <1>1 DEF Leaves

\* A new fragment of a block in the ring is stored, what can be sent is sent.
LEMMA StoreLeaves ==
  ASSUME HasCode, NEW r \in Rings, NEW g \in Histories,
         Progress(r, g), Unfinished(r, g),
         NEW j0 \in 0..(r.alloc - 1), NEW f \in Fragments,
         f \notin g[At(r, j0).block]
  PROVE  LET b == At(r, j0).block
             h == Arrived(g, b, f)
         IN  /\ h \in Histories
             /\ \E m \in 0..(j0 + 1) :
                  Leaves(Store(r, Mod(r.front + j0), f), r, h, b, m)
<1> DEFINE slot == Mod(r.front + j0)
           b == At(r, j0).block
           h == Arrived(g, b, f)
           stored == Kept(r, slot, f)
           sent == IF slot = r.front THEN SendPrefix(stored, slot) ELSE stored
           item == sent.ring[slot]
           d == Store(r, slot, f)
<1>0. /\ RingSize \in Nat \ {0} /\ r.alloc \in 1..RingSize
      /\ j0 \in 0..(RingSize - 1) /\ j0 \in Nat /\ sess.k \in 1..255
      /\ r.front \in Slots
  BY AggregatorAssumption, CodeType DEF Rings
<1>1. d = CASE item.toSend = sess.k ->
                 [ring |-> [sent EXCEPT !.front = Mod(@ + 1), !.alloc = @ - 1],
                  sane |-> sent.alloc > 0]
            [] item.toSend < sess.k /\ Cardinality(item.frags) = sess.k ->
                 [ring |-> Recover(sent, slot),
                  sane |-> RecoverIsSane(sent, slot)]
            [] OTHER -> [ring |-> sent, sane |-> TRUE]
  BY DEF Store, Kept
<1>2. /\ stored \in Rings /\ stored.front = r.front /\ stored.alloc = r.alloc
      /\ stored.last = r.last
      /\ \A j \in 0..(RingSize - 1) : j # j0 => At(stored, j) = At(r, j)
      /\ At(stored, j0) = [At(r, j0) EXCEPT !.frags = @ \cup {f}]
  BY <1>0, KeptShape
<1>3. /\ h \in Histories /\ Progress(stored, h)
      /\ \A c : Held(stored, c) <=> Held(r, c)
      /\ \A c \in Blocks : c # b => h[c] = g[c]
      /\ Cardinality(h[b]) <= sess.k
  BY KeptProgress
<1>4. \A j \in 0..(r.alloc - 1) : At(stored, j).block = At(r, j).block
  <2> TAKE j \in 0..(r.alloc - 1)
  <2>1. At(r, j0) \in Items
    BY <1>0, AtInItems
  <2>2. At(stored, j0).block = At(r, j0).block
    BY <1>2, <2>1 DEF Items
  <2>3. j \in 0..(RingSize - 1)
    BY <1>0
  <2> QED  BY <1>2, <2>2, <2>3
<1>5. slot = r.front <=> j0 = 0
  <2>1. Mod(r.front + 0) = r.front /\ 0 \in 0..(RingSize - 1)
    BY <1>0, FrontSlot DEF Slots
  <2>2. slot = Mod(r.front + 0) => j0 = 0
    BY <1>0, <2>1, ModInjective
  <2> QED  BY <2>1, <2>2
<1> HIDE DEF stored, h, d
\* After the oldest block sent what it can.
<1>6. /\ sent \in Rings /\ sent.front = r.front /\ sent.alloc = r.alloc
      /\ sent.last = r.last /\ Progress(sent, h)
      /\ \A c : Held(sent, c) <=> Held(r, c)
      /\ \A j \in 0..(r.alloc - 1) : At(sent, j).block = At(r, j).block
  <2>1. CASE slot = r.front
    <3>1. sent = SendPrefix(stored, stored.front)
      BY <1>2, <2>1
    <3>2. PICK u \in Nat, sends \in Seq(Packets) :
           /\ FirstGap(At(stored, 0), u)
           /\ SendPrefix(stored, stored.front) = Advanced(stored, u, sends)
           /\ SentMore(stored, At(stored, 0).block,
                       At(stored, 0).toSend..(u - 1), sends)
      BY <1>0, <1>2, <1>3, PrefixAdvances
    <3> DEFINE q == Advanced(stored, u, sends)
    <3>3. /\ q \in Rings /\ q.front = stored.front
          /\ q.alloc = stored.alloc /\ q.last = stored.last
          /\ \A j \in 1..(RingSize - 1) : At(q, j) = At(stored, j)
          /\ At(q, 0) = [At(stored, 0) EXCEPT !.toSend = u]
      BY <1>2, <3>2, AdvancedShape
    <3>4. Progress(q, h) /\ \A c : Held(q, c) <=> Held(stored, c)
      BY <1>0, <1>2, <1>3, <3>2, AdvancedProgress
    <3> HIDE DEF q
    <3>5. \A j \in 0..(r.alloc - 1) : At(q, j).block = At(stored, j).block
      <4> TAKE j \in 0..(r.alloc - 1)
      <4>1. At(stored, 0) \in Items
        BY <1>0, <1>2, AtInItems
      <4>2. At(q, 0).block = At(stored, 0).block
        BY <3>3, <4>1 DEF Items
      <4>3. j = 0 \/ j \in 1..(RingSize - 1)
        BY <1>0
      <4> QED  BY <3>3, <4>2, <4>3
    <3>6. sent = q
      BY <3>1, <3>2 DEF q
    <3> HIDE DEF sent
    <3> QED  BY <1>2, <1>3, <1>4, <3>3, <3>4, <3>5, <3>6
  <2>2. CASE slot # r.front
    <3>1. sent = stored
      BY <2>2
    <3> HIDE DEF sent
    <3> QED  BY <1>2, <1>3, <1>4, <3>1
  <2> QED  BY <2>1, <2>2
<1>7. item = At(sent, j0)
  <2> HIDE DEF sent
  <2> QED  BY <1>6 DEF At
<1> HIDE DEF sent
<1>8. /\ b \in Blocks /\ item.frags = h[b] /\ item.toSend \in 0..sess.k
      /\ j0 > 0 => item.toSend = 0
  <2>1. At(sent, j0).block = b /\ j0 \in 0..(sent.alloc - 1)
    BY <1>6
  <2> QED  BY <1>6, <1>7, <2>1 DEF Progress, Contents
<1>9. \A c \in Blocks : Held(sent, c) /\ c # b => Cardinality(h[c]) < sess.k
  <2> TAKE c \in Blocks
  <2> HAVE Held(sent, c) /\ c # b
  <2>1. h[c] = g[c] /\ Held(r, c)
    BY <1>3, <1>6
  <2>2. Cardinality(g[c]) < sess.k
    BY <2>1 DEF Unfinished
  <2> QED  BY <2>1, <2>2
<1> HIDE DEF item, slot, b
<1>10. \E m \in 0..(j0 + 1) : Leaves(d, sent, h, b, m)
  <2>1. CASE item.toSend = sess.k
    <3>1. j0 = 0
      BY <1>0, <1>8, <2>1
    <3>2. /\ At(sent, 0).toSend = sess.k /\ At(sent, 0).block = b
          /\ sent.alloc > 0
      BY <1>0, <1>6, <1>7, <2>1, <3>1 DEF b
    <3>3. d = [ring |-> [sent EXCEPT !.front = Mod(@ + 1), !.alloc = @ - 1],
               sane |-> sent.alloc > 0]
      <4>1. ~(item.toSend < sess.k)
        BY <1>0, <2>1
      <4> QED  BY <1>1, <2>1, <4>1
    <3>4. Leaves(d, sent, h, b, 1)
      BY <1>3, <1>6, <1>9, <3>2, <3>3, SentWholeLeaves
    <3> QED  BY <3>1, <3>4
  <2>2. CASE item.toSend < sess.k /\ Cardinality(item.frags) = sess.k
    <3>1. item.toSend # sess.k
      BY <1>0, <1>8, <2>2
    <3>2. d = [ring |-> Recover(sent, slot),
               sane |-> RecoverIsSane(sent, slot)]
      BY <1>1, <2>2, <3>1
    <3>3. /\ At(sent, j0).block = b /\ j0 \in 0..(sent.alloc - 1)
          /\ slot = Mod(sent.front + j0)
      BY <1>0, <1>6 DEF b, slot
    <3>4. Cardinality(h[b]) = sess.k
      BY <1>8, <2>2
    <3>5. Leaves(d, sent, h, b, j0 + 1)
      BY <1>3, <1>6, <1>9, <3>2, <3>3, <3>4, RecoverLeaves
    <3>6. j0 + 1 \in 0..(j0 + 1)
      BY <1>0
    <3> QED  BY <3>5, <3>6
  <2>3. CASE /\ item.toSend # sess.k
             /\ ~(item.toSend < sess.k /\ Cardinality(item.frags) = sess.k)
    <3>1. d = [ring |-> sent, sane |-> TRUE]
      BY <1>1, <2>3
    <3>2. item.toSend < sess.k
      BY <1>0, <1>8, <2>3
    <3>3. Cardinality(h[b]) # sess.k
      BY <1>8, <2>3, <3>2
    <3>4. Cardinality(h[b]) < sess.k
      <4>1. Cardinality(h[b]) \in Nat
        BY <1>3, <1>8, HistoriesAreFinite
      <4> QED  BY <1>0, <1>3, <3>3, <4>1
    <3>5. Unfinished(sent, h)
      BY <1>9, <3>4 DEF Unfinished
    <3>6. Leaves(d, sent, h, b, 0)
      <4>1. sent.alloc - 0 = sent.alloc /\ ~(0 > 0)
            /\ \A j \in 0..(sent.alloc - 0 - 1) : j + 0 = j
        BY <1>0, <1>6
      <4> QED  BY <1>6, <3>1, <3>5, <4>1 DEF Leaves
    <3>7. 0 \in 0..(j0 + 1)
      BY <1>0
    <3> QED  BY <3>6, <3>7
  <2> QED  BY <2>1, <2>2, <2>3
<1>11. PICK m \in 0..(j0 + 1) : Leaves(d, sent, h, b, m)
  BY <1>10
<1>12. m \in Nat
  BY <1>0
<1>13. Leaves(d, r, h, b, m)
  BY <1>6, <1>11, <1>12, LeavesLikewise
<1> QED  BY <1>3, <1>13 DEF b, h, d, slot

=============================================================================
