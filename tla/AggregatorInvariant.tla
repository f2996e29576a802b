------------------------- MODULE AggregatorInvariant -------------------------
(* The inductive invariant of Aggregator: what the ring holds and what has *)
(* been sent, between two calls of process_packet and inside one.          *)
EXTENDS Aggregator

Items == [block : Nat, toSend : Nat, frags : SUBSET Fragments]
Rings == [ring : [Slots -> Items], front : Slots, alloc : 0..RingSize,
          last : Blocks \cup {NoBlock}, sends : Seq(Packets)]
Histories == [Blocks -> SUBSET Fragments]

\* The code of the session in force, and the payload fragments of a block.
HasCode == sess # NoSession /\ sess \in Sessions /\ sess.k \in 1..sess.n
Payload == 0..(sess.k - 1)

\* Position j of the ring, the oldest block first; block c has a slot.
At(r, j) == r.ring[Mod(r.front + j)]
Held(r, c) == \E j \in 0..(r.alloc - 1) : At(r, j).block = c

\* The ring at the start of a call, which has sent nothing yet.
WithSends(r, sends) == [r EXCEPT !.sends = sends]
Quiet(r) == WithSends(r, <<>>)

-----------------------------------------------------------------------------
(* Inside a call: r is the ring so far, g the fragments that came.          *)

\* A slot in use holds what came of its block, and only the oldest block has
\* sent anything, up to a fragment behind which there may be a gap.
Contents(r, g) ==
  \A j \in 0..(r.alloc - 1) :
    /\ At(r, j).block \in Blocks
    /\ At(r, j).frags = g[At(r, j).block]
    /\ At(r, j).toSend \in 0..sess.k
    /\ j > 0 => At(r, j).toSend = 0
    /\ 0..(At(r, j).toSend - 1) \subseteq At(r, j).frags

Sorted(r) ==
  \A i, j \in 0..(r.alloc - 1) : i < j => At(r, i).block < At(r, j).block

\* Of a block ahead of the oldest one that has no slot nothing came.
Untouched(r, g) ==
  \A c \in Blocks :
    r.alloc > 0 /\ c > At(r, 0).block /\ ~Held(r, c) => g[c] = {}

\* The payload of block c that can be had: what came, or all of it.
Avail(g, c) ==
  IF Cardinality(g[c]) < sess.k THEN Payload \cap g[c] ELSE Payload

\* Packet i of block c is due: the block left the ring and it could be had, or
\* the block is the oldest and it belongs to the prefix sent so far.
Due(r, g, c, i) ==
  IF Held(r, c) THEN c = At(r, 0).block /\ i < At(r, 0).toSend
                ELSE i \in Avail(g, c)

\* What was sent, in this call and before, is exactly what is due.
Sent(s) == {s[i] : i \in DOMAIN s}

Account(r, g) ==
  /\ out \cup Sent(r.sends) \subseteq (Blocks \X Payload) \ Fillers
  /\ \A c \in Blocks, i \in Payload :
       <<c, i>> \notin Fillers =>
         (<<c, i>> \in out \cup Sent(r.sends) <=> Due(r, g, c, i))

\* The packets of this call are in order, behind those of the calls before.
InOrder(s) ==
  /\ \A i, j \in DOMAIN s : i < j => Before(s[i], s[j])
  /\ \A p \in out, i \in DOMAIN s : Before(p, s[i])

Progress(r, g) ==
  /\ Contents(r, g) /\ Sorted(r) /\ Untouched(r, g)
  /\ Account(r, g) /\ InOrder(r.sends)

\* No block in the ring could be rebuilt.
Unfinished(r, g) ==
  \A c \in Blocks : Held(r, c) => Cardinality(g[c]) < sess.k

-----------------------------------------------------------------------------
(* Between two calls. *)

\* The blocks in the ring are a run that ends at the last known one.
Window(r) ==
  \A j \in 0..(r.alloc - 1) :
    r.last # NoBlock /\ At(r, j).block + r.alloc = r.last + 1 + j

\* What came, came for blocks that are known.
KnownOnly(r, g) ==
  \A c \in Blocks : g[c] # {} => r.last # NoBlock /\ c <= r.last

Standing ==
  /\ HasCode
  /\ Progress(Quiet(rx), got) /\ Unfinished(rx, got)
  /\ Window(rx) /\ KnownOnly(rx, got)
  /\ rx.last = NoBlock => rx.alloc = 0

Unstarted ==
  sess = NoSession /\ rx = FreshRing /\ got = [b \in Blocks |-> {}] /\ out = {}

\* Before the first session nothing is there; from then on the ring is a window
\* of blocks that cannot be finished, and all that was due and nothing else has
\* been handed to the callback.
AggregatorInv ==
  /\ rx \in Rings /\ got \in Histories /\ sane = TRUE
  /\ Unstarted \/ Standing

=============================================================================
