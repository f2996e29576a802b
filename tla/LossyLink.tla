----------------------------- MODULE LossyLink ------------------------------
(***************************************************************************)
(* What the receive side of wfb promises its consumer, without the ring of *)
(* unfinished blocks, its indices and its loops. The air loses, repeats    *)
(* and reorders fragments. The receiver works on one block after the       *)
(* other: base is the oldest it has not given up. Fragments of given-up    *)
(* blocks are ignored; the others are gathered, and now and then base      *)
(* moves on. The packets of a block are handed over when it is given up,   *)
(* those of the block in hand as far as they came without a gap.           *)
(***************************************************************************)
EXTENDS Integers, Sequences, FiniteSets

CONSTANTS
  Offers,     \* what a sender may announce: [key, epoch, k, n]
  Silent,     \* the packets that only fill a block up
  MaxBlock,   \* bound of the block numbers
  Patience,   \* how many newer blocks it takes to give an unfinished one up
  None        \* before the first announcement

VARIABLES
  session,   \* the announcement in force
  base,      \* the oldest block that has not been given up
  brought,   \* the fragments of each block that arrived in time
  sent,      \* the packets handed over in this session
  call       \* the packets handed over by the last step, in order

linkVars == <<session, base, brought, sent, call>>

Numbers == 0..MaxBlock

Init ==
  /\ session = None /\ base = 0 /\ brought = [b \in Numbers |-> {}]
  /\ sent = {} /\ call = <<>>

Announce(s) ==
  /\ session # None => s.key # session.key /\ s.epoch >= session.epoch
  /\ s.k \in 1..s.n
  /\ session' = s
  /\ base' = 0 /\ brought' = [b \in Numbers |-> {}]
  /\ sent' = {} /\ call' = <<>>

Finished(b) == Cardinality(brought[b]) >= session.k

\* The packets that can be had of block b.
Available(b) ==
  LET data == 0..(session.k - 1) IN
  {<<b, i>> : i \in IF Finished(b) THEN data ELSE data \cap brought[b]}
    \ Silent

\* The first j packets of block b.
Leading(b, j) == {<<b, i>> : i \in 0..(j - 1)} \ Silent

Earlier(p, q) == p[1] < q[1] \/ (p[1] = q[1] /\ p[2] < q[2])

\* call' hands exactly the packets in new over, all later than those before.
HandsOver(new) ==
  /\ Len(call') = Cardinality(new)
  /\ new = {call'[i] : i \in DOMAIN call'}
  /\ \A i, j \in DOMAIN call' : i < j => Earlier(call'[i], call'[j])
  /\ \A p \in sent, q \in new : Earlier(p, q)
  /\ sent' = sent \cup new

\* An unfinished block with fragments is given up for a newer one only: one
\* that is finished, or the one Patience blocks on.
GivenUpForCause(c, b) ==
  \/ brought[c] = {}
  \/ \E d \in c..b : Finished(d)
  \/ b >= c + Patience

\* Fragment f of block b arrives.
Arrive(b, f) ==
  /\ session # None /\ f \in 0..(session.n - 1)
  /\ b >= base /\ f \notin brought[b]
  /\ brought' = [brought EXCEPT ![b] = @ \cup {f}]
  /\ base' \in base..(b + 1)
  /\ \A c \in base..(base' - 1) : GivenUpForCause(c, b)'
  /\ \A c \in Numbers : c >= base' => ~Finished(c)'
  /\ \E j \in 0..session.k :
       /\ base' > MaxBlock => j = 0
       /\ j > 0 => 0..(j - 1) \subseteq brought'[base']
       /\ LET given == UNION {Available(c)' : c \in base..(base' - 1)}
          IN HandsOver((given \cup Leading(base', j)) \ sent)
  /\ UNCHANGED session

\* One that came before, or of a block given up.
Ignore == call' = <<>> /\ UNCHANGED <<session, base, brought, sent>>

Next ==
  \/ \E s \in Offers : Announce(s)
  \/ \E b \in Numbers : \E f \in 0..255 : Arrive(b, f)
  \/ Ignore

Spec == Init /\ [][Next]_linkVars

=============================================================================
