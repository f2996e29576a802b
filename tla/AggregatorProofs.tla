--------------------------- MODULE AggregatorProofs --------------------------
(* What the TLA+ proof system proves of Aggregator, for any ring, code and *)
(* order of arrival: the inductive invariant, the properties, and that it  *)
(* implements LossyLink, step by step.                                     *)
EXTENDS AggregatorLemmas, FunctionTheorems

\* What the last call sent is not part of the ring.
LEMMA QuietShape ==
  ASSUME NEW r \in Rings
  PROVE  /\ Quiet(r) \in Rings /\ Quiet(r).ring = r.ring
         /\ Quiet(r).front = r.front /\ Quiet(r).alloc = r.alloc
         /\ Quiet(r).last = r.last /\ Quiet(r).sends = <<>>
         /\ \A j : At(Quiet(r), j) = At(r, j)
         /\ \A c : Held(Quiet(r), c) <=> Held(r, c)
         /\ \A g, c, i : Due(Quiet(r), g, c, i) <=> Due(r, g, c, i)
<1>1. <<>> \in Seq(Packets)
  OBVIOUS
<1>2. /\ Quiet(r) \in Rings /\ Quiet(r).ring = r.ring
      /\ Quiet(r).front = r.front /\ Quiet(r).alloc = r.alloc
      /\ Quiet(r).last = r.last /\ Quiet(r).sends = <<>>
  BY <1>1 DEF Quiet, WithSends, Rings
<1>3. \A j : At(Quiet(r), j) = At(r, j)
  BY <1>2 DEF At
<1>4. \A c : Held(Quiet(r), c) <=> Held(r, c)
  BY <1>2, <1>3 DEF Held
<1>5. \A g, c, i : Due(Quiet(r), g, c, i) <=> Due(r, g, c, i)
  BY <1>3, <1>4 DEF Due
<1> QED  BY <1>2, <1>3, <1>4, <1>5

\* A call that has begun has sent nothing.
LEMMA NothingSent == Sent(<<>>) = {} /\ InOrder(<<>>)
<1>1. DOMAIN <<>> = {}
  OBVIOUS
<1> QED  BY <1>1 DEF Sent, InOrder

\* The search of get_block_ring_idx finds a block exactly if it is there.
LEMMA KnownIsHeld ==
  ASSUME NEW r \in Rings, NEW b
  PROVE  /\ Known(r, b) <=> Held(r, b)
         /\ Held(r, b) => \E j \in 0..(r.alloc - 1) :
                            /\ SlotOf(r, b) = Mod(r.front + j)
                            /\ At(r, j).block = b
<1>1. Known(r, b) <=> Held(r, b)
  BY DEF Known, Held, At, LiveSlots
<1>2. ASSUME Held(r, b)
      PROVE  SlotOf(r, b) \in LiveSlots(r) /\ r.ring[SlotOf(r, b)].block = b
  <2>1. \E i \in LiveSlots(r) : r.ring[i].block = b
    BY <1>1, <1>2 DEF Known
  <2> QED  BY <2>1 DEF SlotOf
<1> QED  BY <1>1, <1>2 DEF LiveSlots, At

\* The state after init_fec.
LEMMA FreshShape ==
  /\ FreshRing \in Rings /\ Quiet(FreshRing) = FreshRing
  /\ FreshRing.alloc = 0 /\ FreshRing.last = NoBlock
  /\ FreshRing.sends = <<>>
<1>1. 0 \in Slots /\ 0 \in 0..RingSize
  BY AggregatorAssumption DEF Slots
<1>2. EmptyItem \in Items
  BY DEF EmptyItem, Items
<1>3. <<>> \in Seq(Packets)
  OBVIOUS
<1> QED  BY <1>1, <1>2, <1>3 DEF FreshRing, Rings, Quiet, WithSends

\* The block of a data packet of the session in force has a slot, entered now
\* or before; r is the ring then.
Located(r, b) ==
  /\ r \in Rings /\ Progress(r, got) /\ Unfinished(r, got) /\ Window(r)
  /\ r.last # NoBlock /\ KnownOnly(r, got) /\ b <= r.last
  /\ \/ Held(rx, b) /\ r = Quiet(rx)
     \/ /\ ~Held(rx, b) /\ (rx.last # NoBlock => b > rx.last)
        /\ got[b] = {} /\ Entered(r, Quiet(rx), b)

\* A packet that came before changes nothing but what the call returned.
Repeats(r, b, f) ==
  /\ f \in got[b] /\ r = Quiet(rx) /\ rx' = r
  /\ UNCHANGED <<sess, got, out, sane>>

\* A new fragment of the block at position j of r.
Brings(r, b, f, j, m) ==
  /\ f \notin got[b] /\ At(r, j).block = b
  /\ got' = Arrived(got, b, f) /\ got' \in Histories
  /\ Leaves([ring |-> rx', sane |-> TRUE], r, got', b, m)
  /\ out' = out \cup Sent(rx'.sends)
  /\ UNCHANGED <<sess, sane>>

\* get_block_ring_idx: where the block of a data packet is.
LEMMA LocateBlock ==
  ASSUME AggregatorInv, NEW s \in Sessions, NEW b \in AirBlocks,
         NEW f \in AirFragments(s), Data(s, b, f)
  PROVE  LET r == IF Known(rx, b) THEN Quiet(rx) ELSE Enter(Quiet(rx), b)
         IN  /\ HasCode /\ b \in Blocks /\ f \in 0..(sess.n - 1)
             /\ f \in Fragments
             /\ Located(r, b) /\ Held(r, b)
             /\ Known(rx, b) \/ NewBlocks(rx, b) > 0
<1> DEFINE q == Quiet(rx)
           r == IF Known(rx, b) THEN q ELSE Enter(q, b)
<1>1. s = sess /\ b <= MaxBlockIdx /\ f < sess.n /\ ~Processed(rx, b)
  BY DEF Data
<1>2. Standing
  BY <1>1, AggregatorAssumption DEF AggregatorInv, Unstarted
<1>3. HasCode /\ b \in Blocks /\ f \in 0..(sess.n - 1) /\ f \in Fragments
  <2>1. HasCode /\ sess.n \in 1..255
    BY <1>2, CodeType DEF Standing
  <2>2. b \in Blocks
    BY <1>1, AggregatorAssumption DEF AirBlocks, Blocks
  <2>3. f \in 0..(sess.n - 1)
    BY <1>1, <2>1 DEF AirFragments
  <2>4. f \in Fragments
    BY <2>1, <2>3 DEF Fragments
  <2> QED  BY <2>1, <2>2, <2>3, <2>4
<1>4. rx \in Rings /\ got \in Histories
  BY DEF AggregatorInv
<1>5. /\ q \in Rings /\ q.alloc = rx.alloc /\ q.last = rx.last
      /\ \A j : At(q, j) = At(rx, j)
      /\ \A c : Held(q, c) <=> Held(rx, c)
  BY <1>4, QuietShape
<1> HIDE DEF q
<1>6. /\ Progress(q, got) /\ Unfinished(q, got) /\ Window(q)
      /\ KnownOnly(q, got) /\ (q.last = NoBlock => q.alloc = 0)
  BY <1>2, <1>5 DEF Standing, Unfinished, Window, KnownOnly, q
<1>7. Known(rx, b) <=> Held(rx, b)
  BY <1>4, KnownIsHeld
<1>8. CASE Known(rx, b)
  <2>1. r = q
    BY <1>8
  <2> HIDE DEF r
  <2>2. Held(rx, b)
    BY <1>7, <1>8
  <2>3. q.last # NoBlock /\ b <= q.last
    <3>1. PICK j \in 0..(q.alloc - 1) : At(q, j).block = b
      BY <1>5, <2>2 DEF Held
    <3>2. q.last # NoBlock /\ b + q.alloc = q.last + 1 + j
      BY <1>6, <3>1 DEF Window
    <3>3. q.last \in Nat /\ q.alloc \in Nat /\ b \in Nat
      BY <1>3, <1>5, <3>2 DEF Rings, Blocks
    <3>4. j \in Nat /\ j <= q.alloc - 1
      BY <3>3
    <3> QED  BY <3>2, <3>3, <3>4
  <2>4. Located(q, b)
    BY <1>5, <1>6, <2>2, <2>3 DEF Located, q
  <2>5. Held(q, b)
    BY <1>5, <2>2
  <2> QED  BY <1>3, <1>8, <2>1, <2>4, <2>5 DEF r, q
<1>9. CASE ~Known(rx, b)
  <2>1. r = Enter(q, b)
    BY <1>9
  <2> HIDE DEF r
  <2>2. rx.last # NoBlock => b > rx.last
    <3>1. rx.last # NoBlock => ~(b <= rx.last)
      BY <1>1, <1>9 DEF Processed
    <3>2. rx.last # NoBlock => rx.last \in Nat
      BY <1>4 DEF Rings, Blocks
    <3>3. b \in Nat
      BY <1>3 DEF Blocks
    <3> QED  BY <3>1, <3>2, <3>3
  <2>3. got[b] = {}
    <3>1. got[b] # {} => rx.last # NoBlock /\ b <= rx.last
      BY <1>2, <1>3 DEF Standing, KnownOnly
    <3>2. rx.last # NoBlock => ~(b <= rx.last)
      BY <1>1, <1>9 DEF Processed
    <3> QED  BY <3>1, <3>2
  <2>4. /\ NewBlocks(q, b) \in 1..RingSize /\ Entered(r, q, b)
        /\ Progress(r, got) /\ Unfinished(r, got)
    BY <1>3, <1>4, <1>5, <1>6, <2>1, <2>2, EnterProgress
  <2>5. r \in Rings /\ r.last = b /\ r.alloc > 0 /\ Window(r)
        /\ At(r, r.alloc - 1) = NewItem(b)
    BY <2>4 DEF Entered
  <2>6. KnownOnly(r, got) /\ b <= r.last /\ r.last # NoBlock
    <3>1. b # NoBlock /\ b \in Nat
      BY <1>3, AggregatorAssumption DEF Blocks
    <3>2. \A c \in Blocks : got[c] # {} => c <= b
      <4> TAKE c \in Blocks
      <4> HAVE got[c] # {}
      <4>1. rx.last # NoBlock /\ c <= rx.last
        BY <1>2 DEF Standing, KnownOnly
      <4>2. rx.last \in Nat /\ c \in Nat /\ b > rx.last
        BY <1>4, <2>2, <4>1 DEF Rings, Blocks
      <4> QED  BY <3>1, <4>1, <4>2
    <3> QED  BY <2>5, <3>1, <3>2 DEF KnownOnly
  <2>7. Located(r, b)
    BY <1>7, <1>9, <2>2, <2>3, <2>4, <2>5, <2>6 DEF Located, q
  <2>8. Held(r, b)
    <3>1. r.alloc - 1 \in 0..(r.alloc - 1) /\ At(r, r.alloc - 1).block = b
      BY <2>5 DEF Rings, NewItem
    <3> QED  BY <3>1 DEF Held
  <2>9. NewBlocks(rx, b) > 0
    <3>1. NewBlocks(rx, b) = NewBlocks(q, b)
      BY <1>5 DEF NewBlocks
    <3> QED  BY <2>4, <3>1, AggregatorAssumption
  <2> QED  BY <1>3, <2>7, <2>8, <2>9 DEF r, q
<1> QED  BY <1>8, <1>9

\* What a data packet does.
LEMMA DataStep ==
  ASSUME AggregatorInv, NEW s \in Sessions, NEW b \in AirBlocks,
         NEW f \in AirFragments(s), Data(s, b, f)
  PROVE  /\ HasCode /\ b \in Blocks /\ f \in 0..(sess.n - 1)
         /\ \E r : /\ Located(r, b)
                   /\ \/ Repeats(r, b, f)
                      \/ \E j \in 0..(r.alloc - 1) : \E m \in 0..(j + 1) :
                            Brings(r, b, f, j, m)
<1> DEFINE q == Quiet(rx)
           r == IF Known(rx, b) THEN q ELSE Enter(q, b)
           slot == SlotOf(r, b)
           done == Store(r, slot, f)
<1>1. /\ HasCode /\ b \in Blocks /\ f \in 0..(sess.n - 1)
      /\ f \in Fragments /\ Located(r, b) /\ Held(r, b)
      /\ Known(rx, b) \/ NewBlocks(rx, b) > 0
  BY LocateBlock
<1>2. q = [rx EXCEPT !.sends = <<>>]
  BY DEF Quiet, WithSends
<1>3. /\ UNCHANGED sess
      /\ IF f \in r.ring[slot].frags
         THEN rx' = r /\ sane' = sane /\ UNCHANGED <<got, out>>
         ELSE /\ rx' = done.ring /\ sane' = (sane /\ done.sane)
              /\ got' = Arrived(got, b, f)
              /\ out' = out \cup Sent(rx'.sends)
  <2>1. (sane /\ (Known(rx, b) \/ NewBlocks(rx, b) > 0)) = sane
        /\ (sane /\ (Known(rx, b) \/ NewBlocks(rx, b) > 0) /\ done.sane)
             = (sane /\ done.sane)
    BY <1>1 DEF AggregatorInv
  <2> HIDE DEF q
  <2> QED  BY <1>2, <2>1 DEF Data, Sent, Arrived
<1> HIDE DEF r, done
<1>4. r \in Rings /\ Progress(r, got) /\ Unfinished(r, got)
  BY <1>1 DEF Located
<1>5. PICK j \in 0..(r.alloc - 1) :
         slot = Mod(r.front + j) /\ At(r, j).block = b
  BY <1>1, <1>4, KnownIsHeld
<1>6. r.ring[slot].frags = got[b]
  BY <1>4, <1>5 DEF At, Progress, Contents
<1>7. CASE f \in got[b]
  <2>1. r = Quiet(rx)
    BY <1>1, <1>7 DEF Located
  <2>2. Repeats(r, b, f)
    BY <1>3, <1>6, <1>7, <2>1 DEF Repeats
  <2> QED  BY <1>1, <2>2
<1>8. CASE f \notin got[b]
  <2>1. got \in Histories /\ sane = TRUE
    BY DEF AggregatorInv
  <2>2. /\ Arrived(got, b, f) \in Histories
        /\ \E m \in 0..(j + 1) :
             Leaves(Store(r, Mod(r.front + j), f), r, Arrived(got, b, f), b, m)
    BY <1>1, <1>4, <1>5, <1>8, <2>1, StoreLeaves
  <2>3. PICK m \in 0..(j + 1) : Leaves(done, r, Arrived(got, b, f), b, m)
    BY <1>5, <2>2 DEF done
  <2>4. rx' = done.ring /\ sane' = sane /\ UNCHANGED sess
        /\ got' = Arrived(got, b, f) /\ out' = out \cup Sent(rx'.sends)
    BY <1>3, <1>6, <1>8, <2>1, <2>3 DEF Leaves
  <2>5. Leaves([ring |-> rx', sane |-> TRUE], r, got', b, m)
    BY <2>3, <2>4 DEF Leaves
  <2>6. Brings(r, b, f, j, m)
    BY <1>5, <1>8, <2>2, <2>4, <2>5 DEF Brings
  <2> QED  BY <1>1, <2>6
<1> QED  BY <1>7, <1>8

-----------------------------------------------------------------------------
\* The constructor establishes the invariant.
LEMMA InitInv == Init => AggregatorInv
<1> SUFFICES ASSUME Init PROVE AggregatorInv
  OBVIOUS
<1>1. rx \in Rings
  BY FreshShape DEF Init
<1>2. got \in Histories
  BY DEF Init, Histories
<1> QED  BY <1>1, <1>2 DEF Init, AggregatorInv, Unstarted

\* What was sent in a call is out between two calls.
LEMMA OutOfTheCall ==
  ASSUME rx' \in Rings, sess' = sess, out' = out \cup Sent(rx'.sends),
         Progress(rx', got')
  PROVE  Progress(Quiet(rx), got)'
<1> DEFINE q == Quiet(rx)
<1>1. /\ q'.alloc = rx'.alloc /\ q'.last = rx'.last /\ q'.sends = <<>>
      /\ \A j : At(q', j) = At(rx', j)
      /\ \A c : Held(q', c) <=> Held(rx', c)
  <2>1. Quiet(rx)' = Quiet(rx')
    BY DEF Quiet, WithSends
  <2> QED  BY <2>1, QuietShape
<1> HIDE DEF q
<1>2. Contents(q, got)'
  BY <1>1 DEF Progress, Contents, At
<1>3. Sorted(q)'
  BY <1>1 DEF Progress, Sorted
<1>4. Untouched(q, got)'
  BY <1>1 DEF Progress, Untouched
<1>5. Account(q, got)'
  <2>1. (out \cup Sent(q.sends))' = out \cup Sent(rx'.sends)
    BY <1>1, NothingSent DEF Sent
  <2>2. Payload' = Payload
    BY DEF Payload
  <2>3. \A c, i : Due(q, got, c, i)' <=> Due(rx', got', c, i)
    <3>1. \A c : Avail(got, c)' = Avail(got', c)
      BY <2>2 DEF Avail
    <3> QED  BY <1>1, <3>1 DEF Due
  <2> QED  BY <2>1, <2>2, <2>3 DEF Progress, Account
<1>6. InOrder(q.sends)'
  <2>1. DOMAIN (q.sends)' = {}
    BY <1>1
  <2> QED  BY <2>1 DEF InOrder
<1> QED  BY <1>2, <1>3, <1>4, <1>5, <1>6 DEF Progress, q

\* A data packet keeps the invariant.
LEMMA DataKeepsInv ==
  ASSUME AggregatorInv, NEW s \in Sessions, NEW b \in AirBlocks,
         NEW f \in AirFragments(s), Data(s, b, f)
  PROVE  AggregatorInv'
<1>1. PICK r : /\ Located(r, b)
               /\ \/ Repeats(r, b, f)
                  \/ \E j \in 0..(r.alloc - 1) : \E m \in 0..(j + 1) :
                        Brings(r, b, f, j, m)
  BY DataStep
<1>2. HasCode /\ b \in Blocks
  BY DataStep
<1>3. /\ r \in Rings /\ Progress(r, got) /\ Unfinished(r, got)
      /\ Window(r) /\ KnownOnly(r, got)
      /\ r.last # NoBlock /\ b <= r.last /\ r.last \in Nat
  BY <1>1 DEF Located, Rings, Blocks
<1>4. CASE Repeats(r, b, f)
  <2>1. rx' = Quiet(rx) /\ UNCHANGED <<sess, got, out, sane>>
    BY <1>4 DEF Repeats
  <2>2. rx' = r
    BY <1>4 DEF Repeats
  <2>3. rx'.sends = <<>>
    BY <2>1, QuietShape DEF AggregatorInv
  <2>4. Progress(Quiet(rx), got)'
    BY <1>3, <2>1, <2>2, <2>3, NothingSent, OutOfTheCall
  <2>5. (Unfinished(rx, got) /\ HasCode)'
    BY <1>2, <1>3, <2>1, <2>2 DEF Unfinished, HasCode
  <2>6. (Window(rx) /\ KnownOnly(rx, got) /\ rx.last # NoBlock)'
    BY <1>3, <2>1, <2>2 DEF Window, KnownOnly
  <2> QED  BY <1>3, <2>1, <2>2, <2>4, <2>5, <2>6 DEF AggregatorInv, Standing
<1>5. CASE \E j \in 0..(r.alloc - 1) : \E m \in 0..(j + 1) :
              Brings(r, b, f, j, m)
  <2>1. PICK j \in 0..(r.alloc - 1) :
          \E m \in 0..(j + 1) : Brings(r, b, f, j, m)
    BY <1>5
  <2>m. PICK m \in 0..(j + 1) : Brings(r, b, f, j, m)
    BY <2>1
  <2>2. /\ rx' \in Rings /\ rx'.last = r.last /\ rx'.alloc = r.alloc - m
        /\ \A i \in 0..(r.alloc - m - 1) :
             At(rx', i).block = At(r, i + m).block
        /\ Progress(rx', got') /\ Unfinished(rx', got')
        /\ out' = out \cup Sent(rx'.sends) /\ UNCHANGED <<sess, sane>>
        /\ got' = Arrived(got, b, f) /\ got' \in Histories
    BY <2>m DEF Brings, Leaves
  <2>3. Progress(Quiet(rx), got)'
    BY <2>2, OutOfTheCall
  <2>4. (Unfinished(rx, got) /\ HasCode)'
    BY <1>2, <2>2 DEF Unfinished, HasCode
  <2>5. Window(rx)'
    <3> SUFFICES ASSUME NEW i \in 0..(rx'.alloc - 1)
                 PROVE  /\ rx'.last # NoBlock
                        /\ At(rx', i).block + rx'.alloc = rx'.last + 1 + i
      BY DEF Window
    <3>1. r.alloc \in Nat /\ m \in Nat /\ j \in Nat
      BY <1>3 DEF Rings
    <3>2. i + m \in 0..(r.alloc - 1) /\ i \in 0..(r.alloc - m - 1)
      BY <2>2, <3>1
    <3>3. At(r, i + m).block + r.alloc = r.last + 1 + (i + m)
      BY <1>3, <3>2 DEF Window
    <3>4. At(r, i + m).block \in Nat
      BY <1>3, <3>2 DEF Progress, Contents, Blocks
    <3> QED  BY <1>3, <2>2, <3>1, <3>2, <3>3, <3>4
  <2>6. KnownOnly(rx, got)'
    <3>1. \A c \in Blocks : got'[c] # {} => got[c] # {} \/ c = b
      BY <2>2 DEF Arrived, AggregatorInv, Histories
    <3> QED  BY <1>3, <2>2, <3>1 DEF KnownOnly
  <2>7. rx'.last # NoBlock /\ sane' = TRUE
    BY <1>3, <2>2 DEF AggregatorInv
  <2> QED  BY <2>2, <2>3, <2>4, <2>5, <2>6, <2>7 DEF AggregatorInv, Standing
<1> QED  BY <1>1, <1>4, <1>5

\* A ring with no slot in use, and no fragment of anything.
LEMMA NothingStands ==
  HasCode /\ rx = FreshRing /\ got = [b \in Blocks |-> {}] /\ out = {}
    => Standing
<1> SUFFICES ASSUME HasCode, rx = FreshRing, got = [b \in Blocks |-> {}],
                    out = {}
             PROVE  Standing
  OBVIOUS
<1>1. /\ rx \in Rings /\ Quiet(rx) = rx /\ rx.alloc = 0
      /\ rx.last = NoBlock /\ rx.sends = <<>>
  BY FreshShape
<1>2. got \in Histories /\ \A c \in Blocks : got[c] = {}
  BY DEF Histories
<1>3. 0..(rx.alloc - 1) = {} /\ \A c : ~Held(rx, c)
  BY <1>1 DEF Held
<1>4. Contents(rx, got) /\ Sorted(rx) /\ Untouched(rx, got)
  BY <1>1, <1>2, <1>3 DEF Contents, Sorted, Untouched
<1>5. Account(rx, got)
  <2>1. out \cup Sent(rx.sends) = {}
    BY <1>1, NothingSent
  <2>2. \A c \in Blocks, i \in Payload : ~Due(rx, got, c, i)
    BY <1>2, <1>3, NothingAvailable DEF Due
  <2> QED  BY <2>1, <2>2 DEF Account
<1>6. InOrder(rx.sends)
  BY <1>1, NothingSent
<1>7. Window(rx) /\ KnownOnly(rx, got) /\ Unfinished(rx, got)
  BY <1>2, <1>3 DEF Window, KnownOnly, Unfinished
<1> QED  BY <1>1, <1>4, <1>5, <1>6, <1>7 DEF Progress, Standing

\* A session packet keeps the invariant: nothing of the old ring is left.
LEMMA SessionKeepsInv ==
  ASSUME AggregatorInv, NEW s \in Sessions, Session(s)
  PROVE  AggregatorInv'
<1>1. /\ sess' = s /\ rx' = FreshRing /\ got' = [b \in Blocks |-> {}]
      /\ out' = {} /\ sane' = sane /\ s.k >= 1 /\ s.k <= s.n
  BY DEF Session, Accepts
<1>2. HasCode'
  <2>1. s # NoSession /\ s.k \in 0..255 /\ s.n \in 0..255
    BY AggregatorAssumption
  <2>2. s.k \in 1..s.n
    BY <1>1, <2>1
  <2> QED  BY <1>1, <2>1, <2>2 DEF HasCode
<1>3. Standing'
  <2>1. (/\ HasCode /\ rx = FreshRing /\ got = [b \in Blocks |-> {}]
         /\ out = {})'
    BY <1>1, <1>2
  <2> QED  BY <2>1, NothingStands, PTL
<1>4. rx' \in Rings /\ got' \in Histories
  BY <1>1, FreshShape DEF Histories
<1> QED  BY <1>1, <1>3, <1>4 DEF AggregatorInv

\* Every call keeps the invariant.
LEMMA NextInv == AggregatorInv /\ [Next]_vars => AggregatorInv'
<1> SUFFICES ASSUME AggregatorInv, [Next]_vars PROVE AggregatorInv'
  OBVIOUS
<1>1. CASE \E s \in Sessions : Session(s)
  BY <1>1, SessionKeepsInv
<1>2. CASE \E s \in Sessions, b \in AirBlocks : \E f \in AirFragments(s) :
             Data(s, b, f)
  BY <1>2, DataKeepsInv
<1>3. CASE UNCHANGED vars
  BY <1>3 DEF vars, AggregatorInv, Unstarted, Standing, HasCode, Progress,
              Contents,
     Sorted, Untouched, Account, Due, Avail, Payload, InOrder, Unfinished,
     Window, KnownOnly, Quiet, WithSends
<1> QED  BY <1>1, <1>2, <1>3 DEF Next

\* The inductive invariant holds in every state: between two calls the ring is
\* a window of unfinished blocks, and exactly what was due has been sent.
THEOREM Invariant == Spec => []AggregatorInv
BY InitInv, NextInv, PTL DEF Spec

-----------------------------------------------------------------------------
\* Every variable keeps its type: the front is a slot, the number of slots in
\* use is at most RX_RING_SIZE, and all that is sent is a packet of a block.
THEOREM TypeCorrect == Spec => []TypeOK
<1>1. AggregatorInv => TypeOK
  <2> SUFFICES ASSUME AggregatorInv PROVE TypeOK
    OBVIOUS
  <2>1. rx.ring \in [Slots -> Items] /\ rx.front \in Slots
        /\ rx.alloc \in 0..RingSize /\ rx.last \in Blocks \cup {NoBlock}
        /\ rx.sends \in Seq(Packets)
    BY DEF AggregatorInv, Rings
  <2>2. sess \in Sessions \cup {NoSession} /\ out \subseteq Packets
    <3>1. CASE Unstarted
      BY <3>1 DEF Unstarted
    <3>2. CASE Standing
      <4>1. out \subseteq Blocks \X Payload /\ sess.k \in 1..255
            /\ sess \in Sessions
        BY <3>2, CodeType DEF Standing, HasCode, Progress, Account
      <4>2. Payload \subseteq Fragments
        BY <4>1 DEF Payload, Fragments
      <4> QED  BY <4>1, <4>2 DEF Packets
    <3> QED  BY <3>1, <3>2 DEF AggregatorInv
  <2> QED  BY <2>1, <2>2 DEF TypeOK, AggregatorInv, Histories, Items
<1> QED  BY <1>1, Invariant, PTL

\* No assert of WFBProcessor.cpp fails, whatever the air does: the asserts of
\* get_block_ring_idx and process_packet, and the silent one of apply_fec, that
\* a missing fragment finds a parity fragment.
THEOREM AssertsAlwaysHold == Spec => []AssertsHold
<1>1. AggregatorInv => AssertsHold
  BY DEF AggregatorInv, AssertsHold
<1> QED  BY <1>1, Invariant, PTL

\* Before the first session packet there is nothing.
LEMMA StandsOrIsFresh ==
  ASSUME AggregatorInv
  PROVE  \/ Standing
         \/ rx.alloc = 0 /\ rx.last = NoBlock /\ out = {} /\ sess = NoSession
            /\ \A c \in Blocks : got[c] = {}
BY FreshShape DEF AggregatorInv, Unstarted

\* What the invariant says of the ring itself, between two calls.
LEMMA StandingRing ==
  ASSUME AggregatorInv, Standing
  PROVE  /\ HasCode /\ Contents(rx, got) /\ Unfinished(rx, got)
         /\ out \subseteq (Blocks \X Payload) \ Fillers
         /\ \A c \in Blocks, i \in Payload :
              <<c, i>> \notin Fillers =>
                (<<c, i>> \in out <=> Due(rx, got, c, i))
         /\ \A c : Known(rx, c) <=> Held(rx, c)
<1> DEFINE q == Quiet(rx)
<1>1. rx \in Rings /\ Progress(q, got)
  BY DEF AggregatorInv, Standing
<1>2. /\ q.alloc = rx.alloc /\ q.sends = <<>>
      /\ \A j : At(q, j) = At(rx, j)
      /\ \A g, c, i : Due(q, g, c, i) <=> Due(rx, g, c, i)
  BY <1>1, QuietShape
<1> HIDE DEF q
<1>3. Contents(rx, got)
  BY <1>1, <1>2 DEF Progress, Contents
<1>4. out \cup Sent(q.sends) = out
  BY <1>2, NothingSent
<1>5. /\ out \subseteq (Blocks \X Payload) \ Fillers
      /\ \A c \in Blocks, i \in Payload :
              <<c, i>> \notin Fillers =>
                (<<c, i>> \in out <=> Due(rx, got, c, i))
  BY <1>1, <1>2, <1>4 DEF Progress, Account
<1> QED  BY <1>1, <1>3, <1>5, KnownIsHeld DEF Standing

\* The ring holds a run of blocks that ends at the last known one, however the
\* block numbers of get_block_ring_idx jump.
THEOREM RingAlwaysWindow == Spec => []RingIsWindow
<1>1. AggregatorInv => RingIsWindow
  <2> SUFFICES ASSUME AggregatorInv PROVE RingIsWindow
    OBVIOUS
  <2>1. CASE Standing
    BY <2>1 DEF Standing, Window, At, RingIsWindow
  <2>2. CASE rx.alloc = 0
    BY <2>2 DEF RingIsWindow
  <2> QED  BY <2>1, <2>2, StandsOrIsFresh
<1> QED  BY <1>1, Invariant, PTL

\* No block waits in the ring that could be rebuilt: each has the fragments
\* accepted of it, fewer than k, and only the oldest has sent anything, all of
\* it received.
THEOREM WaitingAlwaysNecessary == Spec => []WaitingIsNecessary
<1>1. AggregatorInv => WaitingIsNecessary
  <2> SUFFICES ASSUME AggregatorInv, NEW i \in LiveSlots(rx)
               PROVE  /\ rx.ring[i].frags = got[rx.ring[i].block]
                      /\ Cardinality(rx.ring[i].frags) < sess.k
                      /\ i # rx.front => rx.ring[i].toSend = 0
                      /\ 0..(rx.ring[i].toSend - 1) \subseteq rx.ring[i].frags
    BY DEF WaitingIsNecessary
  <2>1. PICK j \in 0..(rx.alloc - 1) : i = Mod(rx.front + j)
    BY DEF LiveSlots
  <2>2. rx.ring[i] = At(rx, j)
    BY <2>1 DEF At
  <2>3. rx.alloc # 0 /\ rx \in Rings
    BY DEF AggregatorInv, Rings
  <2>4. Standing
    BY <2>3, StandsOrIsFresh
  <2>5. /\ At(rx, j).block \in Blocks
        /\ At(rx, j).frags = got[At(rx, j).block]
        /\ j > 0 => At(rx, j).toSend = 0
        /\ 0..(At(rx, j).toSend - 1) \subseteq At(rx, j).frags
    BY <2>4, StandingRing DEF Contents
  <2>6. Cardinality(got[At(rx, j).block]) < sess.k
    <3>1. Held(rx, At(rx, j).block) /\ Unfinished(rx, got)
      BY <2>4 DEF Held, Standing
    <3> QED  BY <2>5, <3>1 DEF Unfinished
  <2>7. i # rx.front => j > 0
    <3>1. j = 0 => i = rx.front
      BY <2>1, <2>3, FrontSlot DEF Rings, Slots
    <3>2. j \in Nat
      BY <2>3 DEF Rings
    <3> QED  BY <3>1, <3>2
  <2> QED  BY <2>2, <2>5, <2>6, <2>7
<1> QED  BY <1>1, Invariant, PTL

\* Of a block with k fragments all payload was due.
LEMMA InvDecodes == AggregatorInv => DecodableIsForwarded
<1> SUFFICES ASSUME AggregatorInv, NEW b \in Blocks, sess # NoSession,
                    Cardinality(got[b]) >= sess.k,
                    NEW i \in 0..(sess.k - 1), <<b, i>> \notin Fillers
             PROVE  <<b, i>> \in out
  BY DEF DecodableIsForwarded, PacketsOf
<1>1. Standing
  BY StandsOrIsFresh
<1>2. sess.k \in 1..255
  BY <1>1, CodeType DEF Standing
<1>3. got \in Histories
  BY DEF AggregatorInv
<1>4. Cardinality(got[b]) \in Nat
  BY <1>3, HistoriesAreFinite
<1>5. ~(Cardinality(got[b]) < sess.k)
  BY <1>2, <1>4
<1>6. ~Held(rx, b)
  BY <1>1, <1>5 DEF Standing, Unfinished
<1>7. i \in Payload /\ Due(rx, got, b, i)
  BY <1>5, <1>6 DEF Due, Avail, Payload
<1> QED  BY <1>1, <1>7, StandingRing

\* Whenever k fragments of a block are accepted, all its packets are
\* forwarded: nothing that can be decoded is given up undecoded.
THEOREM DecodableAlwaysForwarded == Spec => []DecodableIsForwarded
BY InvDecodes, Invariant, PTL

\* Of a block that left the ring all that was received was due.
LEMMA InvReceived == AggregatorInv => ReceivedIsForwarded
<1> SUFFICES ASSUME AggregatorInv, NEW b \in Blocks, NEW i \in got[b],
                    ~Known(rx, b), i \in 0..(sess.k - 1),
                    <<b, i>> \notin Fillers
             PROVE  <<b, i>> \in out
  BY DEF ReceivedIsForwarded, PacketsOf
<1>1. Standing
  BY StandsOrIsFresh
<1>2. ~Held(rx, b) /\ i \in Payload
  BY <1>1, StandingRing DEF Payload
<1>3. Due(rx, got, b, i)
  BY <1>2 DEF Due, Avail
<1> QED  BY <1>1, <1>2, <1>3, StandingRing

\* A fragment that was accepted is forwarded at the latest when its block
\* leaves the ring, on every way out of it.
THEOREM ReceivedAlwaysForwarded == Spec => []ReceivedIsForwarded
BY InvReceived, Invariant, PTL

\* Nothing is due that was not received and cannot be rebuilt.
LEMMA InvHonest == AggregatorInv => ForwardedIsReceived
<1> SUFFICES ASSUME AggregatorInv, NEW p \in out, p[2] \notin got[p[1]]
             PROVE  Cardinality(got[p[1]]) >= sess.k
  BY DEF ForwardedIsReceived
<1>1. Standing
  BY StandsOrIsFresh
<1>2. PICK c \in Blocks, i \in Payload : p = <<c, i>> /\ p \notin Fillers
  BY <1>1, StandingRing
<1>3. p[1] = c /\ p[2] = i
  BY <1>2
<1>4. Due(rx, got, c, i)
  BY <1>1, <1>2, StandingRing
<1>5. ~Held(rx, c)
  <2>1. SUFFICES ASSUME Held(rx, c) PROVE FALSE
    OBVIOUS
  <2>2. c = At(rx, 0).block /\ i < At(rx, 0).toSend
    BY <1>4, <2>1 DEF Due
  <2>3. rx.alloc \in 0..RingSize /\ 0 \in 0..(rx.alloc - 1)
    BY <2>1 DEF Held, AggregatorInv, Rings
  <2>4. /\ At(rx, 0).frags = got[c] /\ At(rx, 0).toSend \in 0..sess.k
        /\ 0..(At(rx, 0).toSend - 1) \subseteq At(rx, 0).frags
    BY <1>1, <2>2, <2>3, StandingRing DEF Contents
  <2>5. i \in 0..(At(rx, 0).toSend - 1)
    <3>1. sess.k \in 1..255
      BY <1>1, CodeType DEF Standing
    <3> QED  BY <2>2, <2>4, <3>1 DEF Payload
  <2> QED  BY <1>3, <2>4, <2>5
<1>6. ~(Cardinality(got[c]) < sess.k)
  BY <1>3, <1>4, <1>5 DEF Due, Avail
<1>7. Cardinality(got[c]) \in Nat /\ sess.k \in 1..255
  BY <1>1, CodeType, HistoriesAreFinite DEF AggregatorInv, Standing
<1> QED  BY <1>3, <1>6, <1>7

\* Nothing is forwarded that was not received and cannot be rebuilt.
THEOREM ForwardedAlwaysReceived == Spec => []ForwardedIsReceived
BY InvHonest, Invariant, PTL

\* No call sends a packet out of order or for the second time in a session.
THEOREM AlwaysInOrderOnce == Spec => InOrderOnce
<1> DEFINE A == sess' = sess /\ got' # got =>
                  \A i \in DOMAIN rx'.sends :
                    /\ \A p \in out : Before(p, rx'.sends[i])
                    /\ \A j \in 1..(i - 1) : Before(rx'.sends[j], rx'.sends[i])
<1>1. AggregatorInv /\ [Next]_vars => [A]_vars
  <2> SUFFICES ASSUME AggregatorInv, Next, sess' = sess, got' # got,
                      NEW i \in DOMAIN rx'.sends
               PROVE  /\ \A p \in out : Before(p, rx'.sends[i])
                      /\ \A j \in 1..(i - 1) :
                           Before(rx'.sends[j], rx'.sends[i])
    OBVIOUS
  <2>1. ASSUME NEW s \in Sessions, Session(s)  PROVE FALSE
    BY <2>1, AggregatorAssumption DEF Session
  <2>2. PICK s \in Sessions, b \in AirBlocks :
           \E f \in AirFragments(s) : Data(s, b, f)
    BY <2>1 DEF Next
  <2>3. PICK f \in AirFragments(s) : Data(s, b, f)
    BY <2>2
  <2>4. PICK r : \/ Repeats(r, b, f)
                 \/ \E j \in 0..(r.alloc - 1) : \E m \in 0..(j + 1) :
                      Brings(r, b, f, j, m)
    BY <2>3, DataStep
  <2>5. \E j, m : Brings(r, b, f, j, m)
    BY <2>4 DEF Repeats
  <2>6. InOrder(rx'.sends) /\ rx' \in Rings
    BY <2>5 DEF Brings, Leaves, Progress
  <2>7. DOMAIN rx'.sends = 1..Len(rx'.sends) /\ Len(rx'.sends) \in Nat
    BY <2>6, LenProperties DEF Rings
  <2>8. \A j \in 1..(i - 1) : j \in DOMAIN rx'.sends /\ j < i
    BY <2>7
  <2> QED  BY <2>6, <2>8 DEF InOrder
<1> QED  BY <1>1, Invariant, PTL DEF Spec, InOrderOnce

-----------------------------------------------------------------------------
\* The oldest block not given up when the ring is r.
First(r) == IF r.last = NoBlock THEN 0 ELSE r.last + 1 - r.alloc

\* A ring that is a window holds exactly the blocks of the window.
LEMMA WindowPlaces ==
  ASSUME NEW r \in Rings, Window(r), r.last # NoBlock,
         \A j \in 0..(r.alloc - 1) : At(r, j).block \in Blocks
  PROVE  /\ First(r) \in Nat /\ r.last \in Blocks
         /\ First(r) + r.alloc = r.last + 1
         /\ \A j \in 0..(r.alloc - 1) : At(r, j).block = First(r) + j
         /\ \A c \in Blocks : Held(r, c) <=> c >= First(r) /\ c <= r.last
<1>1. r.last \in Blocks /\ r.last \in Nat /\ r.alloc \in Nat
  BY DEF Rings, Blocks
<1>2. First(r) = r.last + 1 - r.alloc
  BY DEF First
<1>3. \A j \in 0..(r.alloc - 1) : At(r, j).block = First(r) + j
  <2> TAKE j \in 0..(r.alloc - 1)
  <2>1. At(r, j).block + r.alloc = r.last + 1 + j
    BY DEF Window
  <2>2. At(r, j).block \in Nat
    BY DEF Blocks
  <2> QED  BY <1>1, <1>2, <2>1, <2>2
<1>4. First(r) \in Nat
  <2>1. CASE r.alloc = 0
    BY <1>1, <1>2, <2>1
  <2>2. CASE r.alloc > 0
    <3>1. 0 \in 0..(r.alloc - 1)
      BY <1>1, <2>2
    <3>2. At(r, 0).block = First(r) + 0 /\ At(r, 0).block \in Nat
      BY <1>3, <3>1 DEF Blocks
    <3>3. First(r) \in Int
      BY <1>1, <1>2
    <3> QED  BY <3>2, <3>3
  <2> QED  BY <1>1, <2>1, <2>2
<1>5. ASSUME NEW c \in Blocks
      PROVE  Held(r, c) <=> c >= First(r) /\ c <= r.last
  <2>1. ASSUME Held(r, c)  PROVE c >= First(r) /\ c <= r.last
    <3>1. PICK j \in 0..(r.alloc - 1) : At(r, j).block = c
      BY <2>1 DEF Held
    <3>2. c = First(r) + j
      BY <1>3, <3>1
    <3> QED  BY <1>1, <1>2, <1>4, <3>2
  <2>2. ASSUME c >= First(r), c <= r.last  PROVE Held(r, c)
    <3>1. c \in Nat
      BY DEF Blocks
    <3>2. c - First(r) \in 0..(r.alloc - 1)
          /\ First(r) + (c - First(r)) = c
      BY <1>1, <1>2, <1>4, <2>2, <3>1
    <3>3. At(r, c - First(r)).block = c
      BY <1>3, <3>2
    <3> QED  BY <3>2, <3>3 DEF Held
  <2> QED  BY <2>1, <2>2
<1> QED  BY <1>1, <1>2, <1>3, <1>4, <1>5

\* Where the block of a packet is, and what was given up to make room for it.
LEMMA LocatedPlaces ==
  ASSUME AggregatorInv, HasCode, NEW b \in Blocks, NEW r, Located(r, b)
  PROVE  /\ First(r) \in Nat /\ r.last \in Blocks
         /\ First(r) + r.alloc = r.last + 1
         /\ \A j \in 0..(r.alloc - 1) : At(r, j).block = First(r) + j
         /\ First(rx) \in Nat /\ First(rx) <= First(r) /\ First(rx) <= b
         /\ \A c \in Blocks : c < First(rx) => ~Held(rx, c)
         /\ \A c \in Blocks : c >= First(rx) /\ c < First(r) =>
              c # b /\ (got[c] = {} \/ b >= c + RingSize)
<1>0. RingSize \in Nat \ {0} /\ b \in Nat /\ rx \in Rings /\ got \in Histories
  BY AggregatorAssumption DEF Blocks, AggregatorInv
<1>1. /\ r \in Rings /\ Progress(r, got) /\ Window(r) /\ r.last # NoBlock
      /\ b <= r.last
  BY DEF Located
<1>2. \A j \in 0..(r.alloc - 1) : At(r, j).block \in Blocks
  BY <1>1 DEF Progress, Contents
<1>3. /\ First(r) \in Nat /\ r.last \in Blocks
      /\ First(r) + r.alloc = r.last + 1
      /\ \A j \in 0..(r.alloc - 1) : At(r, j).block = First(r) + j
  BY <1>1, <1>2, WindowPlaces
<1>4. Standing
  BY AggregatorAssumption DEF HasCode, AggregatorInv, Unstarted
<1>5. /\ Window(rx) /\ KnownOnly(rx, got)
      /\ rx.last = NoBlock => rx.alloc = 0
      /\ \A j \in 0..(rx.alloc - 1) : At(rx, j).block \in Blocks
  BY <1>4, StandingRing DEF Standing, Contents
<1>6. rx.last # NoBlock =>
        /\ First(rx) \in Nat /\ rx.last \in Blocks
        /\ First(rx) + rx.alloc = rx.last + 1
        /\ \A c \in Blocks : Held(rx, c) <=> c >= First(rx) /\ c <= rx.last
  BY <1>0, <1>5, WindowPlaces
<1>7. rx.last = NoBlock => First(rx) = 0
  BY DEF First
<1>8. \A c \in Blocks : c < First(rx) => ~Held(rx, c)
  <2> TAKE c \in Blocks
  <2> HAVE c < First(rx)
  <2>1. CASE rx.last = NoBlock
    BY <1>7, <2>1 DEF Blocks
  <2>2. CASE rx.last # NoBlock
    <3>1. ~(c >= First(rx))
      BY <1>6, <2>2 DEF Blocks
    <3> QED  BY <1>6, <2>2, <3>1
  <2> QED  BY <2>1, <2>2
<1>9. CASE Held(rx, b) /\ r = Quiet(rx)
  <2>1. r.last = rx.last /\ r.alloc = rx.alloc
    BY <1>0, <1>9, QuietShape
  <2>2. First(r) = First(rx)
    BY <2>1 DEF First
  <2>3. First(rx) <= b
    BY <1>1, <1>6, <1>9, <2>1
  <2>4. \A c \in Blocks : ~(c >= First(rx) /\ c < First(r))
    BY <1>3, <2>2 DEF Blocks
  <2>5. First(rx) <= First(r)
    BY <1>3, <2>2
  <2> QED  BY <1>3, <1>8, <2>2, <2>3, <2>4, <2>5
<1>10. CASE /\ ~Held(rx, b) /\ (rx.last # NoBlock => b > rx.last)
            /\ got[b] = {} /\ Entered(r, Quiet(rx), b)
  <2> DEFINE new == NewBlocks(Quiet(rx), b)
  <2>1. /\ r.last = b
        /\ r.alloc = IF rx.alloc + new < RingSize
                     THEN rx.alloc + new ELSE RingSize
    BY <1>0, <1>10, QuietShape DEF Entered
  <2>2. First(r) = b + 1 - r.alloc
    BY <1>1, <2>1 DEF First
  <2>3. rx.alloc \in 0..RingSize /\ r.alloc > 0
    BY <1>0, <1>10 DEF Rings, Entered
  <2>4. CASE rx.last = NoBlock
    <3>1. new = IF 1 < RingSize THEN 1 ELSE RingSize
      BY <1>0, <2>4, QuietShape DEF NewBlocks
    <3> HIDE DEF new
    <3>2. rx.alloc = 0 /\ First(rx) = 0
      BY <1>5, <1>7, <2>4
    <3>3. First(r) = b
      BY <1>0, <2>1, <2>2, <3>1, <3>2
    <3>4. \A c \in Blocks : got[c] = {}
      BY <1>5, <2>4 DEF KnownOnly
    <3>5. \A c \in Blocks : c >= First(rx) /\ c < First(r) => c # b
      BY <1>0, <3>3 DEF Blocks
    <3> QED  BY <1>0, <1>3, <1>8, <3>2, <3>3, <3>4, <3>5
  <2>5. CASE rx.last # NoBlock
    <3>1. new = IF b - rx.last < RingSize THEN b - rx.last ELSE RingSize
      BY <1>0, <2>5, QuietShape DEF NewBlocks
    <3> HIDE DEF new
    <3>2. /\ rx.last \in Nat /\ b > rx.last
          /\ First(rx) = rx.last + 1 - rx.alloc /\ First(rx) \in Nat
      BY <1>6, <1>10, <2>5 DEF First, Blocks
    <3>3. First(rx) <= First(r) /\ First(rx) <= b
      BY <1>0, <2>1, <2>2, <2>3, <3>1, <3>2
    <3>4. \A c \in Blocks : c >= First(rx) /\ c < First(r) =>
             c # b /\ (got[c] = {} \/ b >= c + RingSize)
      <4> TAKE c \in Blocks
      <4> HAVE c >= First(rx) /\ c < First(r)
      <4>1. c \in Nat
        BY DEF Blocks
      <4>2. c # b
        <5>1. r.alloc \in Nat \ {0}
          BY <1>0, <1>1, <2>3 DEF Rings
        <5> QED  BY <1>0, <2>2, <4>1, <5>1
      <4>3. CASE c > rx.last
        <5>1. ~(c <= rx.last)
          BY <3>2, <4>1, <4>3
        <5>2. got[c] = {}
          BY <1>5, <5>1 DEF KnownOnly
        <5> QED  BY <4>2, <5>2
      <4>4. CASE c <= rx.last
        <5>1. CASE r.alloc = RingSize
          <6>1. b >= c + RingSize
            BY <1>0, <2>2, <4>1, <5>1
          <6> QED  BY <4>2, <6>1
        <5>2. CASE r.alloc # RingSize
          <6>1. r.alloc = rx.alloc + new /\ r.alloc < RingSize
            BY <1>0, <2>1, <2>3, <5>2
          <6>2. new = b - rx.last
            BY <1>0, <2>3, <3>1, <3>2, <6>1
          <6>3. First(r) = First(rx)
            BY <1>0, <2>2, <2>3, <3>2, <6>1, <6>2
          <6> QED  BY <3>2, <4>1, <6>3
        <5> QED  BY <5>1, <5>2
      <4> QED  BY <3>2, <4>1, <4>3, <4>4
    <3> QED  BY <1>3, <1>8, <3>2, <3>3, <3>4
  <2> QED  BY <2>4, <2>5
<1> QED  BY <1>9, <1>10 DEF Located

\* What is sent in order is sent once.
LEMMA OrderedAreCounted ==
  ASSUME NEW s \in Seq(Packets), InOrder(s)
  PROVE  /\ Len(s) = Cardinality(Sent(s)) /\ Sent(s) \cap out = {}
<1>1. DOMAIN s = 1..Len(s) /\ Len(s) \in Nat
  BY LenProperties
<1>2. \A i \in DOMAIN s : s[i] \in Packets
  BY <1>1, ElementOfSeq
<1>3. \A p \in Packets : ~Before(p, p)
  <2> TAKE p \in Packets
  <2>1. p[1] \in Nat /\ p[2] \in Nat
    <3>1. p[1] \in Blocks /\ p[2] \in Fragments
      BY DEF Packets
    <3>2. Blocks \subseteq Nat /\ Fragments \subseteq Nat
      BY DEF Blocks, Fragments
    <3> QED  BY <3>1, <3>2
  <2>2. ~(p[1] < p[1]) /\ ~(p[2] < p[2])
    BY <2>1
  <2> QED  BY <2>2 DEF Before
<1>4. Sent(s) \cap out = {}
  <2>1. \A i \in DOMAIN s : s[i] \notin out
    BY <1>2, <1>3 DEF InOrder
  <2> QED  BY <2>1 DEF Sent
<1>5. \A i, j \in DOMAIN s : s[i] = s[j] => i = j
  <2> TAKE i, j \in DOMAIN s
  <2> HAVE s[i] = s[j]
  <2>1. ~(i < j) /\ ~(j < i)
    BY <1>2, <1>3 DEF InOrder
  <2> QED  BY <1>1, <2>1
<1>6. ExistsBijection(1..Len(s), Sent(s))
  <2> DEFINE F == [i \in 1..Len(s) |-> s[i]]
  <2>1. F \in [1..Len(s) -> Sent(s)]
    BY <1>1 DEF Sent
  <2>2. \A i, j \in 1..Len(s) : F[i] = F[j] => i = j
    BY <1>1, <1>5
  <2>3. \A t \in Sent(s) : \E i \in 1..Len(s) : F[i] = t
    BY <1>1 DEF Sent
  <2> HIDE DEF F
  <2>4. F \in Bijection(1..Len(s), Sent(s))
    BY <2>1, <2>2, <2>3, Fun_IsBij
  <2> QED  BY <2>4 DEF ExistsBijection
<1>7. Cardinality(Sent(s)) = Len(s)
  BY <1>1, <1>6, FS_CountingElements
<1> QED  BY <1>4, <1>7

-----------------------------------------------------------------------------
\* The packets that can be had of block c when the ring and the fragments are
\* as after the call.
Had(g, c) == {<<c, i>> : i \in Avail(g, c)} \ Fillers

\* The base of the link is the oldest block that has not been given up.
LEMMA BaseIsFirst == Base = First(rx)
BY DEF Base, First

\* The ring after a new fragment, as a place in the run of blocks.
LEMMA BringsPlaces ==
  ASSUME AggregatorInv, AggregatorInv', HasCode,
         NEW b \in Blocks, NEW f \in Fragments,
         NEW r, Located(r, b), NEW j \in 0..(r.alloc - 1),
         NEW m \in 0..(j + 1), Brings(r, b, f, j, m)
  PROVE  /\ First(rx') \in Nat /\ First(rx') = First(r) + m
         /\ First(rx) <= First(rx') /\ First(rx') <= b + 1
         /\ \A c \in Blocks :
              Held(rx', c) <=> c >= First(rx') /\ c <= rx'.last
         /\ \A c \in Blocks : c > rx'.last => got'[c] = {}
         /\ rx'.alloc > 0 => At(rx', 0).block = First(rx')
         /\ rx'.alloc = 0 => First(rx') > rx'.last
         /\ rx'.last \in Blocks
<1>1. /\ rx' \in Rings /\ rx'.last = r.last /\ rx'.alloc = r.alloc - m
      /\ Progress(rx', got') /\ At(r, j).block = b
  BY DEF Brings, Leaves
<1>2. /\ First(r) \in Nat /\ r.last \in Blocks
      /\ First(r) + r.alloc = r.last + 1
      /\ \A i \in 0..(r.alloc - 1) : At(r, i).block = First(r) + i
      /\ First(rx) \in Nat /\ First(rx) <= First(r)
  BY LocatedPlaces
<1>3. rx'.last # NoBlock /\ r.last \in Nat /\ b \in Nat
  BY <1>1, <1>2, AggregatorAssumption DEF Blocks
<1>4. r.alloc \in Nat /\ j \in Nat /\ m \in Nat
  BY DEF Located, Rings
<1>5. b = First(r) + j
  BY <1>1, <1>2
<1>6. Standing'
  BY <1>3, FreshShape DEF AggregatorInv, Unstarted
<1>7. Window(rx') /\ KnownOnly(rx', got')
  BY <1>6 DEF Standing, Window, KnownOnly
<1>8. \A i \in 0..(rx'.alloc - 1) : At(rx', i).block \in Blocks
  BY <1>1 DEF Progress, Contents
<1>9. /\ First(rx') \in Nat /\ rx'.last \in Blocks
      /\ First(rx') + rx'.alloc = rx'.last + 1
      /\ \A i \in 0..(rx'.alloc - 1) : At(rx', i).block = First(rx') + i
      /\ \A c \in Blocks :
           Held(rx', c) <=> c >= First(rx') /\ c <= rx'.last
  BY <1>1, <1>3, <1>7, <1>8, WindowPlaces
<1>10. First(rx') = First(r) + m
  BY <1>1, <1>2, <1>3, <1>4, <1>9
<1>11. First(rx) <= First(rx') /\ First(rx') <= b + 1
  BY <1>2, <1>4, <1>5, <1>10
<1>12. \A c \in Blocks : c > rx'.last => got'[c] = {}
  <2> TAKE c \in Blocks
  <2> HAVE c > rx'.last
  <2>1. ~(c <= rx'.last)
    BY <1>1, <1>3 DEF Blocks
  <2> QED  BY <1>7, <2>1 DEF KnownOnly
<1>13. rx'.alloc > 0 => At(rx', 0).block = First(rx')
  <2> SUFFICES ASSUME rx'.alloc > 0 PROVE At(rx', 0).block = First(rx')
    OBVIOUS
  <2>1. 0 \in 0..(rx'.alloc - 1)
    BY <1>1 DEF Rings
  <2> QED  BY <1>9, <2>1
<1>14. rx'.alloc = 0 => First(rx') > rx'.last
  BY <1>1, <1>3, <1>9
<1> QED  BY <1>9, <1>10, <1>11, <1>12, <1>13, <1>14

\* What a call sends is what its step of the link lets go.
LEMMA BringsHandsOver ==
  ASSUME AggregatorInv, AggregatorInv', HasCode,
         NEW b \in Blocks, NEW f \in Fragments,
         NEW r, Located(r, b), NEW j \in 0..(r.alloc - 1),
         NEW m \in 0..(j + 1), Brings(r, b, f, j, m)
  PROVE  \E u \in 0..sess.k :
           /\ First(rx') > MaxBlockIdx => u = 0
           /\ u > 0 => 0..(u - 1) \subseteq got'[First(rx')]
           /\ LET given == UNION {Had(got', c) :
                                    c \in First(rx)..(First(rx') - 1)}
                  lead == {<<First(rx'), i>> : i \in 0..(u - 1)} \ Fillers
              IN  Sent(rx'.sends) = (given \cup lead) \ out
<1> DEFINE base == First(rx)
           base1 == First(rx')
           u == IF rx'.alloc > 0 THEN At(rx', 0).toSend ELSE 0
           given == UNION {Had(got', c) : c \in base..(base1 - 1)}
           lead == {<<base1, i>> : i \in 0..(u - 1)} \ Fillers
<1>0. sess.k \in 1..255
  BY CodeType
<1>1. /\ rx' \in Rings /\ Progress(rx', got') /\ got' = Arrived(got, b, f)
      /\ got \in Histories
  BY DEF Brings, Leaves, AggregatorInv
<1>2. /\ base1 \in Nat /\ base <= base1
      /\ \A c \in Blocks : Held(rx', c) <=> c >= base1 /\ c <= rx'.last
      /\ \A c \in Blocks : c > rx'.last => got'[c] = {}
      /\ rx'.alloc > 0 => At(rx', 0).block = base1
      /\ rx'.last \in Blocks
  BY BringsPlaces
<1>3. /\ base \in Nat /\ base <= b
      /\ \A c \in Blocks : c < base => ~Held(rx, c)
  BY LocatedPlaces
<1> HIDE DEF base, base1
<1>4. u \in 0..sess.k /\ (u > 0 => rx'.alloc > 0 /\ u = At(rx', 0).toSend)
  <2>1. CASE rx'.alloc > 0
    <3>1. 0 \in 0..(rx'.alloc - 1)
      BY <1>1, <2>1 DEF Rings
    <3>2. At(rx', 0).toSend \in 0..sess.k
      BY <1>1, <3>1 DEF Progress, Contents
    <3> QED  BY <2>1, <3>2
  <2>2. CASE ~(rx'.alloc > 0)
    BY <1>0, <2>2
  <2> QED  BY <2>1, <2>2
<1>5. u > 0 => base1 \in Blocks /\ 0..(u - 1) \subseteq got'[base1]
  <2> SUFFICES ASSUME u > 0
               PROVE  base1 \in Blocks /\ 0..(u - 1) \subseteq got'[base1]
    OBVIOUS
  <2>1. rx'.alloc > 0 /\ u = At(rx', 0).toSend /\ At(rx', 0).block = base1
    BY <1>2, <1>4
  <2> HIDE DEF u
  <2>2. 0 \in 0..(rx'.alloc - 1)
    BY <1>1, <2>1 DEF Rings
  <2>3. /\ At(rx', 0).block \in Blocks
        /\ At(rx', 0).frags = got'[At(rx', 0).block]
        /\ 0..(At(rx', 0).toSend - 1) \subseteq At(rx', 0).frags
    BY <1>1, <2>2 DEF Progress, Contents
  <2> QED  BY <2>1, <2>3
<1>6. base1 > MaxBlockIdx => u = 0
  <2> SUFFICES ASSUME base1 > MaxBlockIdx, u # 0 PROVE FALSE
    OBVIOUS
  <2>1. base1 \in Blocks
    BY <1>0, <1>4, <1>5
  <2> QED  BY <1>2, <2>1, AggregatorAssumption DEF Blocks
<1>7. \A c \in Blocks, i \in Payload : <<c, i>> \notin Fillers =>
        (<<c, i>> \in out \cup Sent(rx'.sends) <=> Due(rx', got', c, i))
  BY <1>1 DEF Progress, Account
<1>8. /\ \A c \in Blocks, i \in Payload : <<c, i>> \notin Fillers =>
           (<<c, i>> \in out <=> Due(rx, got, c, i))
      /\ out \subseteq (Blocks \X Payload) \ Fillers
  <2>1. Standing
    BY AggregatorAssumption DEF HasCode, AggregatorInv, Unstarted
  <2> QED  BY <2>1, StandingRing
<1>9. Sent(rx'.sends) \cap out = {}
  BY <1>1, OrderedAreCounted DEF Progress, Rings
<1>10. Sent(rx'.sends) \subseteq (Blocks \X Payload) \ Fillers
  BY <1>1 DEF Progress, Account
<1>11. \A c \in Blocks : c < base => got'[c] = got[c]
  <2> TAKE c \in Blocks
  <2> HAVE c < base
  <2>1. c # b
    BY <1>3 DEF Blocks
  <2> QED  BY <1>1, <2>1 DEF Arrived, Histories
\* All of it is let go now.
<1>12. ASSUME NEW p \in Sent(rx'.sends)  PROVE p \in given \cup lead
  <2>1. PICK c \in Blocks, i \in Payload : p = <<c, i>> /\ p \notin Fillers
    BY <1>10
  <2>2. Due(rx', got', c, i)
    BY <1>7, <2>1
  <2>3. p \notin out
    BY <1>9
  <2>4. CASE Held(rx', c)
    <3>1. c = At(rx', 0).block /\ i < At(rx', 0).toSend
      BY <2>2, <2>4 DEF Due
    <3>2. rx'.alloc > 0
      BY <1>1, <2>4 DEF Held, Rings
    <3>3. c = base1 /\ i < u
      BY <1>2, <3>1, <3>2
    <3>4. i \in 0..(u - 1)
      BY <1>0, <1>4, <3>3 DEF Payload
    <3> QED  BY <2>1, <3>3, <3>4
  <2>5. CASE ~Held(rx', c)
    <3>1. i \in Avail(got', c)
      BY <2>2, <2>5 DEF Due
    <3>2. c < base1
      <4>1. c <= rx'.last
        <5>1. SUFFICES ASSUME c > rx'.last PROVE FALSE
          BY <1>2 DEF Blocks
        <5>2. got'[c] = {}
          BY <1>2, <5>1
        <5>3. got' \in Histories
          BY DEF AggregatorInv, Histories
        <5> QED  BY <3>1, <5>2, <5>3, NothingAvailable
      <4> QED  BY <1>2, <2>5, <4>1 DEF Blocks
    <3>3. c >= base
      <4>1. SUFFICES ASSUME c < base PROVE FALSE
        BY <1>3 DEF Blocks
      <4>2. got'[c] = got[c] /\ ~Held(rx, c)
        BY <1>3, <1>11, <4>1
      <4>3. Due(rx, got, c, i)
        BY <3>1, <4>2 DEF Due, Avail
      <4> QED  BY <1>8, <2>1, <2>3, <4>3
    <3>4. c \in base..(base1 - 1)
      BY <1>2, <1>3, <3>2, <3>3 DEF Blocks
    <3>5. p \in Had(got', c)
      BY <2>1, <3>1 DEF Had
    <3> QED  BY <3>4, <3>5
  <2> QED  BY <2>4, <2>5
\* Nothing of that is held back.
<1>13. ASSUME NEW p \in given, p \notin out  PROVE p \in Sent(rx'.sends)
  <2>1. PICK c \in base..(base1 - 1) : p \in Had(got', c)
    OBVIOUS
  <2>2. PICK i \in Avail(got', c) : p = <<c, i>> /\ p \notin Fillers
    BY <2>1 DEF Had
  <2>3. i \in Payload
    BY <2>2 DEF Avail
  <2>4. c \in Blocks /\ c < base1
    <3>1. c \in Nat /\ c < base1 /\ base1 <= b + 1
      BY <1>2, <1>3, BringsPlaces DEF base1
    <3> QED  BY <1>2, <3>1, AggregatorAssumption DEF Blocks
  <2>5. ~Held(rx', c)
    BY <1>2, <2>4 DEF Blocks
  <2>6. Due(rx', got', c, i)
    BY <2>2, <2>5 DEF Due
  <2> QED  BY <1>7, <1>13, <2>2, <2>3, <2>4, <2>6
<1>14. ASSUME NEW p \in lead, p \notin out  PROVE p \in Sent(rx'.sends)
  <2>1. PICK i \in 0..(u - 1) : p = <<base1, i>> /\ p \notin Fillers
    OBVIOUS
  <2>2. u > 0
    BY <1>0, <1>4, <2>1
  <2>3. rx'.alloc > 0 /\ u = At(rx', 0).toSend /\ base1 \in Blocks
        /\ At(rx', 0).block = base1
    BY <1>2, <1>4, <1>5, <2>2
  <2>4. i \in Payload /\ i < At(rx', 0).toSend
    <3>1. u \in 0..sess.k /\ i \in 0..(u - 1) /\ u = At(rx', 0).toSend
      BY <1>4, <2>3
    <3> QED  BY <1>0, <3>1 DEF Payload
  <2>5. Held(rx', base1)
    <3>1. 0 \in 0..(rx'.alloc - 1)
      BY <1>1, <2>3 DEF Rings
    <3> QED  BY <2>3, <3>1 DEF Held
  <2>6. Due(rx', got', base1, i)
    BY <2>3, <2>4, <2>5 DEF Due
  <2> QED  BY <1>7, <1>14, <2>1, <2>3, <2>4, <2>6
<1> HIDE DEF given, lead
<1>15. Sent(rx'.sends) = (given \cup lead) \ out
  BY <1>9, <1>12, <1>13, <1>14
<1> HIDE DEF u
<1> QED  BY <1>4, <1>5, <1>6, <1>15 DEF given, lead, base, base1

-----------------------------------------------------------------------------
\* In the ring after a call no block that is left is complete.
LEMMA NoneLeftComplete ==
  ASSUME AggregatorInv, AggregatorInv', HasCode,
         NEW b \in Blocks, NEW f \in Fragments,
         NEW r, Located(r, b), NEW j \in 0..(r.alloc - 1),
         NEW m \in 0..(j + 1), Brings(r, b, f, j, m)
  PROVE  \A c \in Blocks : c >= First(rx') => Cardinality(got'[c]) < sess.k
<1> TAKE c \in Blocks
<1> HAVE c >= First(rx')
<1>1. /\ Held(rx', c) <=> c >= First(rx') /\ c <= rx'.last
      /\ c > rx'.last => got'[c] = {}
      /\ rx'.last \in Blocks
  BY BringsPlaces
<1>2. CASE c <= rx'.last
  BY <1>1, <1>2 DEF Brings, Leaves, Unfinished
<1>3. CASE c > rx'.last
  <2>1. got'[c] = {} /\ got' \in Histories
    BY <1>1, <1>3 DEF Brings
  <2>2. Cardinality(got'[c]) = 0 /\ sess.k \in 1..255
    BY <2>1, HistoriesAreFinite, CodeType
  <2> QED  BY <2>2
<1> QED  BY <1>1, <1>2, <1>3 DEF Blocks

\* The link counts as the aggregator does.
LEMMA SameCount == \A S : Link!Cardinality(S) = Cardinality(S)
BY DEF Link!Cardinality, Cardinality

\* A new fragment is an arrival of the link: the base moves for a reason, and
\* what it passes is handed over, in order and once.
LEMMA BringsArrives ==
  ASSUME AggregatorInv, AggregatorInv', HasCode, NEW b \in Blocks,
         NEW f \in 0..(sess.n - 1), f \in Fragments,
         NEW r, Located(r, b), NEW j \in 0..(r.alloc - 1),
         NEW m \in 0..(j + 1), Brings(r, b, f, j, m)
  PROVE  Link!Arrive(b, f)
<1>1. /\ First(rx) \in Nat /\ First(rx) <= b /\ First(r) \in Nat
      /\ \A c \in Blocks : c >= First(rx) /\ c < First(r) =>
           c # b /\ (got[c] = {} \/ b >= c + RingSize)
  BY LocatedPlaces
<1>2. /\ First(rx') \in Nat /\ First(rx') = First(r) + m
      /\ First(rx) <= First(rx') /\ First(rx') <= b + 1
  BY BringsPlaces
<1>3. /\ f \notin got[b] /\ got' = Arrived(got, b, f) /\ UNCHANGED sess
      /\ out' = out \cup Sent(rx'.sends) /\ got \in Histories
      /\ got' \in Histories /\ rx' \in Rings /\ InOrder(rx'.sends)
      /\ m > 0 => Cardinality(got'[b]) >= sess.k
  BY DEF Brings, Leaves, Progress, AggregatorInv
<1>4. /\ Base = First(rx) /\ Base' = First(rx')
  BY DEF Base, First
<1>5. sess.k \in 1..255 /\ b \in Nat /\ m \in Nat
  <2>1. j \in Nat
    BY DEF Located, Rings
  <2> QED  BY <2>1, CodeType DEF Blocks
<1>6. \A c \in Blocks : Link!Available(c)' = Had(got', c)
  <2> TAKE c \in Blocks
  <2>1. Cardinality(got'[c]) \in Nat
    BY <1>3, HistoriesAreFinite
  <2>2. Link!Finished(c)' <=> ~(Cardinality(got'[c]) < sess.k)
    BY <1>3, <1>5, <2>1, SameCount DEF Link!Finished
  <2>3. Link!Available(c)' = {<<c, i>> :
           i \in IF Link!Finished(c)' THEN Payload ELSE Payload \cap got'[c]}
             \ Fillers
    BY <1>3 DEF Link!Available, Payload
  <2>4. (IF Link!Finished(c)' THEN Payload ELSE Payload \cap got'[c])
           = Avail(got', c)
    BY <2>2 DEF Avail
  <2> QED  BY <2>3, <2>4 DEF Had
<1>7. ASSUME NEW c \in First(rx)..(First(rx') - 1)
      PROVE  Link!GivenUpForCause(c, b)'
  <2>1. c \in Nat /\ c <= b /\ c \in Blocks
    BY <1>1, <1>2, <1>5, AggregatorAssumption DEF Blocks
  <2>2. CASE c < First(r)
    <3>1. c # b /\ (got[c] = {} \/ b >= c + RingSize)
      BY <1>1, <2>1, <2>2
    <3>2. got'[c] = got[c]
      BY <1>3, <2>1, <3>1 DEF Arrived, Histories
    <3> QED  BY <3>1, <3>2 DEF Link!GivenUpForCause
  <2>3. CASE c >= First(r)
    <3>1. m > 0
      BY <1>1, <1>2, <1>5, <2>1, <2>3
    <3>2. Link!Finished(b)'
      BY <1>3, <3>1, SameCount DEF Link!Finished
    <3>3. b \in c..b
      BY <1>5, <2>1
    <3> QED  BY <3>2, <3>3 DEF Link!GivenUpForCause
  <2> QED  BY <1>1, <2>1, <2>2, <2>3
<1>8. \A c \in Link!Numbers : c >= First(rx') => ~Link!Finished(c)'
  <2> TAKE c \in Link!Numbers
  <2> HAVE c >= First(rx')
  <2>1. c \in Blocks
    BY DEF Link!Numbers, Blocks
  <2>2. Cardinality(got'[c]) < sess.k
    BY <2>1, NoneLeftComplete
  <2>3. Cardinality(got'[c]) \in Nat
    BY <1>3, <2>1, HistoriesAreFinite
  <2>4. ~(Cardinality(got'[c]) >= sess.k)
    BY <1>5, <2>2, <2>3
  <2> QED  BY <1>3, <2>4, SameCount DEF Link!Finished
<1>9. PICK w \in 0..sess.k :
           /\ First(rx') > MaxBlockIdx => w = 0
           /\ w > 0 => 0..(w - 1) \subseteq got'[First(rx')]
           /\ LET given == UNION {Had(got', c) :
                                    c \in First(rx)..(First(rx') - 1)}
                  lead == {<<First(rx'), i>> : i \in 0..(w - 1)} \ Fillers
              IN  Sent(rx'.sends) = (given \cup lead) \ out
  BY BringsHandsOver
<1>10. UNION {Link!Available(c)' : c \in First(rx)..(First(rx') - 1)}
         = UNION {Had(got', c) : c \in First(rx)..(First(rx') - 1)}
  <2>1. \A c \in First(rx)..(First(rx') - 1) : c \in Blocks
    BY <1>1, <1>2, <1>5, AggregatorAssumption DEF Blocks
  <2> QED  BY <1>6, <2>1
<1>11. Link!HandsOver(Sent(rx'.sends))
  <2>1. Len(rx'.sends) = Cardinality(Sent(rx'.sends))
    BY <1>3, OrderedAreCounted DEF Rings
  <2>2. /\ \A i, k \in DOMAIN rx'.sends :
             i < k => Before(rx'.sends[i], rx'.sends[k])
        /\ \A p \in out, q \in Sent(rx'.sends) : Before(p, q)
    BY <1>3 DEF InOrder, Sent
  <2>3. \A p, q : Link!Earlier(p, q) <=> Before(p, q)
    BY DEF Link!Earlier, Before
  <2> QED  BY <1>3, <2>1, <2>2, <2>3, SameCount DEF Link!HandsOver, Sent
<1>12. sess # NoSession
  BY DEF HasCode
<1>13. Base' \in Base..(b + 1)
  BY <1>1, <1>2, <1>4, <1>5
<1>14. \E u \in 0..sess.k :
         /\ Base' > MaxBlockIdx => u = 0
         /\ u > 0 => 0..(u - 1) \subseteq got'[Base']
         /\ LET given == UNION {Link!Available(c)' : c \in Base..(Base' - 1)}
            IN  Link!HandsOver((given \cup Link!Leading(Base', u)) \ out)
  <2> DEFINE given == UNION {Had(got', c) :
                               c \in First(rx)..(First(rx') - 1)}
             lead == {<<First(rx'), i>> : i \in 0..(w - 1)} \ Fillers
  <2>1. Sent(rx'.sends) = (given \cup lead) \ out
    BY <1>9
  <2>2. UNION {Link!Available(c)' : c \in Base..(Base' - 1)} = given
    BY <1>4, <1>10
  <2>3. Link!Leading(Base', w) = lead
    BY <1>4 DEF Link!Leading
  <2> HIDE DEF given, lead
  <2>4. Link!HandsOver((given \cup Link!Leading(Base', w)) \ out)
    BY <1>11, <2>1, <2>3
  <2> QED  BY <1>4, <1>9, <2>2, <2>4
<1> QED  BY <1>1, <1>3, <1>4, <1>7, <1>8, <1>12, <1>13, <1>14
         DEF Link!Arrive, Arrived

\* An aggregator without a session is a link without one.
LEMMA LinkInit == Init => Link!Init
BY DEF Init, FreshRing, Base, Link!Init, Link!Numbers, Blocks

\* A session packet is an announcement.
LEMMA SessionAnnounces ==
  ASSUME NEW s \in Sessions, Session(s)
  PROVE  Link!Announce(s)
<1>1. /\ sess' = s /\ rx' = FreshRing /\ got' = [b \in Blocks |-> {}]
      /\ out' = {} /\ s.k >= 1 /\ s.k <= s.n
      /\ sess # NoSession => s.key # sess.key /\ s.epoch >= sess.epoch
  BY DEF Session, Accepts
<1>2. s.k \in 1..s.n
  BY <1>1, AggregatorAssumption
<1>3. Base' = 0 /\ rx'.sends = <<>>
  BY <1>1 DEF Base, FreshRing
<1> QED  BY <1>1, <1>2, <1>3 DEF Link!Announce, Link!Numbers, Blocks

\* Every call is a step of the link or changes nothing it can see.
LEMMA LinkNext ==
  AggregatorInv /\ AggregatorInv' /\ [Next]_vars
    => [Link!Next]_(Link!linkVars)
<1> SUFFICES ASSUME AggregatorInv, AggregatorInv', [Next]_vars
             PROVE  [Link!Next]_(Link!linkVars)
  OBVIOUS
<1>1. ASSUME NEW s \in Sessions, Session(s)  PROVE Link!Next
  BY <1>1, SessionAnnounces DEF Link!Next
<1>2. ASSUME NEW s \in Sessions, NEW b \in AirBlocks,
             NEW f \in AirFragments(s), Data(s, b, f)
      PROVE  Link!Next
  <2>1. HasCode /\ b \in Blocks /\ f \in 0..(sess.n - 1)
    BY <1>2, DataStep
  <2>2. f \in Fragments
    BY <2>1, CodeType DEF Fragments
  <2>3. PICK r : /\ Located(r, b)
                 /\ \/ Repeats(r, b, f)
                    \/ \E j \in 0..(r.alloc - 1) : \E m \in 0..(j + 1) :
                         Brings(r, b, f, j, m)
    BY <1>2, DataStep
  <2>4. CASE Repeats(r, b, f)
    <3>1. rx' = Quiet(rx) /\ UNCHANGED <<sess, got, out>>
      BY <2>4 DEF Repeats
    <3>2. /\ rx'.sends = <<>> /\ rx'.last = rx.last /\ rx'.alloc = rx.alloc
      BY <3>1, QuietShape DEF AggregatorInv
    <3> QED  BY <3>1, <3>2 DEF Link!Next, Link!Ignore, Base
  <2>5. CASE \E j \in 0..(r.alloc - 1) : \E m \in 0..(j + 1) :
                Brings(r, b, f, j, m)
    <3>1. PICK j \in 0..(r.alloc - 1) : \E m \in 0..(j + 1) :
                Brings(r, b, f, j, m)
      BY <2>5
    <3>2. PICK m \in 0..(j + 1) : Brings(r, b, f, j, m)
      BY <3>1
    <3>3. Link!Arrive(b, f)
      BY <2>1, <2>2, <2>3, <3>2, BringsArrives
    <3>4. b \in Link!Numbers /\ f \in 0..255
      BY <2>1, <2>2 DEF Link!Numbers, Blocks, Fragments
    <3> QED  BY <3>3, <3>4 DEF Link!Next
  <2> QED  BY <2>3, <2>4, <2>5
<1>3. CASE UNCHANGED vars
  BY <1>3 DEF vars, Link!linkVars, Base
<1> QED  BY <1>1, <1>2, <1>3 DEF Next

\* The aggregator implements the lossy link: for every ring size, code and
\* order of arrival its ring of slots is one position that only moves on, and
\* what each call sends is what the link lets go at that step.
THEOREM ImplementsLink == Spec => LinkSpec
BY LinkInit, LinkNext, Invariant, PTL DEF Spec, LinkSpec, Link!Spec

=============================================================================
