----------------------------- MODULE Aggregator -----------------------------
(***************************************************************************)
(* The receive side of wfb: Aggregator (src/src/wifi/WFBProcessor.cpp).     *)
(* A session packet announces a session key and a code (k data fragments   *)
(* of n); a data packet carries one fragment of one block. The aggregator  *)
(* keeps the blocks it cannot finish yet in a ring and sends the packets   *)
(* of each block in order, rebuilding what the air lost.                   *)
(*                                                                         *)
(* One action is one call of process_packet: the capture thread alone      *)
(* calls it. The air loses, repeats and reorders packets at will, so every *)
(* packet of every session may come at any time. Packets refused before    *)
(* they change anything but a counter (size, type, decryption) are         *)
(* stuttering steps. The counters count_p_*, and seq, which only they use,  *)
(* are read by nothing in the program and are left out. What fec_decode    *)
(* computes is left out too: a block with k fragments is rebuilt.          *)
(***************************************************************************)
EXTENDS Integers, Sequences, FiniteSets

CONSTANTS
  RingSize,      \* RX_RING_SIZE
  MaxBlockIdx,   \* MAX_BLOCK_IDX
  Sessions,      \* what session packets announce: [key, epoch, k, n]
  Fillers,       \* the <<block, fragment>> sent with WFB_PACKET_FEC_ONLY
  NoSession,     \* before the first session packet
  NoBlock        \* last_known_block = (uint64_t)-1

ASSUME AggregatorAssumption ==
  /\ RingSize \in Nat \ {0}
  /\ MaxBlockIdx \in Nat
  /\ \A s \in Sessions : /\ s.epoch \in Nat
                         /\ s.n \in 0..255 /\ s.k \in 0..255
  /\ NoSession \notin Sessions
  /\ NoBlock \notin Nat

VARIABLES
  sess,   \* fec_k, fec_n, session_key, epoch: the session in force
  rx,     \* rx_ring, rx_ring_front, rx_ring_alloc, last_known_block, and the
          \* packets the last call handed to the data callback, in order
  got,    \* history: the fragments of each block accepted in this session
  out,    \* history: the packets forwarded in this session
  sane    \* history: every assert the code states has held

vars == <<sess, rx, got, out, sane>>

Slots == 0..(RingSize - 1)
Blocks == 0..MaxBlockIdx

\* A data packet carries a block index of 56 bits and a fragment index of 8:
\* one more than the largest accepted stands for all that are too large.
AirBlocks == 0..(MaxBlockIdx + 1)
AirFragments(s) == 0..s.n

EmptyItem == [block |-> 0, toSend |-> 0, frags |-> {}]

\* init_fec
FreshRing == [ring |-> [i \in Slots |-> EmptyItem], front |-> 0, alloc |-> 0,
              last |-> NoBlock, sends |-> <<>>]

Init ==
  /\ sess = NoSession
  /\ rx = FreshRing
  /\ got = [b \in Blocks |-> {}] /\ out = {} /\ sane = TRUE

-----------------------------------------------------------------------------
(* The ring. *)

Mod(i) == i % RingSize

\* The slots in use, oldest first.
LiveSlots(r) == {Mod(r.front + j) : j \in 0..(r.alloc - 1)}

\* send_packet on each fragment in fs, in order: fillers are not forwarded.
Send(r, item, fs) ==
  LET sent[i \in 0..sess.k] ==
        IF i = 0 THEN r.sends
        ELSE LET packet == <<item.block, i - 1>>
             IN IF i - 1 \in fs /\ packet \notin Fillers
                THEN Append(sent[i - 1], packet) ELSE sent[i - 1]
  IN [r EXCEPT !.sends = sent[sess.k]]

\* Variants: a block is given up unsent; from its first fragment again; with
\* the fragments that never came.
GiveUp(r, fs) == [Send(r, r.ring[r.front], fs)
                    EXCEPT !.front = Mod(@ + 1), !.alloc = @ - 1]
FlushSilently(r) == GiveUp(r, {})
FlushFromStart(r) == GiveUp(r, r.ring[r.front].frags)
FlushUnreceived(r) == GiveUp(r, r.ring[r.front].toSend..sess.k)

\* Send what the oldest block still holds and give its slot up.
Flush(r) ==
  LET item == r.ring[r.front]
      rest == {f \in item.frags : f >= item.toSend}
  IN [Send(r, item, rest) EXCEPT !.front = Mod(@ + 1), !.alloc = @ - 1]

\* Variant: one block short.
FlushTimesShort(r, n) ==
  LET flushed[i \in 0..n] == IF i <= 1 THEN r ELSE Flush(flushed[i - 1])
  IN flushed[n]

FlushTimes(r, n) ==
  LET flushed[i \in 0..n] == IF i = 0 THEN r ELSE Flush(flushed[i - 1])
  IN flushed[n]

\* Variant: the oldest block is overridden one block too early.
PushEarly(r, b) ==
  LET room == IF r.alloc < RingSize - 1 THEN r ELSE Flush(r)
  IN [room EXCEPT !.ring[Mod(room.front + room.alloc)] =
                      [EmptyItem EXCEPT !.block = b],
                  !.alloc = @ + 1]

\* Variant: a slot used before keeps the position of its old block.
PushStale(r, b) ==
  LET room == IF r.alloc < RingSize THEN r ELSE Flush(r)
      slot == Mod(room.front + room.alloc)
  IN [room EXCEPT !.ring[slot].block = b, !.ring[slot].frags = {},
                  !.alloc = @ + 1]

\* rx_ring_push for block b: a full ring overrides its oldest block.
Push(r, b) ==
  LET room == IF r.alloc < RingSize THEN r ELSE Flush(r)
  IN [room EXCEPT !.ring[Mod(room.front + room.alloc)] =
                      [EmptyItem EXCEPT !.block = b],
                  !.alloc = @ + 1]

\* Variant: a jump of the block number enters one block only.
NewBlocksOne(r, b) == 1

\* get_block_ring_idx: every block up to b is entered, RingSize at most.
NewBlocks(r, b) ==
  LET ahead == IF r.last = NoBlock THEN 1 ELSE b - r.last
  IN IF ahead < RingSize THEN ahead ELSE RingSize

Enter(r, b) ==
  LET new == NewBlocks(r, b)
      entered[i \in 0..new] ==
        IF i = 0 THEN [r EXCEPT !.last = b]
                 ELSE Push(entered[i - 1], b + i - new)
  IN entered[new]

Known(r, b) == \E i \in LiveSlots(r) : r.ring[i].block = b
Processed(r, b) == ~Known(r, b) /\ r.last # NoBlock /\ b <= r.last
SlotOf(r, b) == CHOOSE i \in LiveSlots(r) : r.ring[i].block = b

-----------------------------------------------------------------------------
(* process_packet. *)

\* The oldest block sends its fragments up to the first gap.
SendPrefix(r, slot) ==
  LET item == r.ring[slot]
      upTo == CHOOSE j \in item.toSend..sess.k :
                /\ j = sess.k \/ j \notin item.frags
                /\ \A f \in item.toSend..(j - 1) : f \in item.frags
  IN [Send(r, item, item.toSend..(upTo - 1))
        EXCEPT !.ring[slot].toSend = upTo]

\* Variant: what the air lost is not rebuilt.
RecoverReceived(r, slot) ==
  LET older == Mod(slot + RingSize - r.front)
      item == r.ring[slot]
      rest == {f \in item.frags : f >= item.toSend}
  IN [Send(FlushTimes(r, older), item, rest)
        EXCEPT !.front = Mod(@ + 1), !.alloc = @ - 1]

\* A block with k fragments: the older ones are flushed, it is rebuilt, sent
\* and given up.
Recover(r, slot) ==
  LET older == Mod(slot + RingSize - r.front)
      flushed == FlushTimes(r, older)
      item == r.ring[slot]
  IN [Send(flushed, item, item.toSend..(sess.k - 1))
        EXCEPT !.front = Mod(@ + 1), !.alloc = @ - 1]

\* The asserts after the older blocks are flushed, and apply_fec's silent
\* one: each missing data fragment is replaced by a parity fragment.
RecoverIsSane(r, slot) ==
  LET flushed == FlushTimes(r, Mod(slot + RingSize - r.front))
      item == r.ring[slot]
      data == 0..(sess.k - 1)
  IN /\ flushed.alloc > 0 /\ slot = flushed.front
     /\ Cardinality(data \ item.frags) <= Cardinality(item.frags \ data)

\* Variant: only the oldest block is rebuilt.
StoreOldest(r, slot, f) ==
  LET stored == [r EXCEPT !.ring[slot].frags = @ \cup {f}]
      sent == IF slot = r.front THEN SendPrefix(stored, slot) ELSE stored
      item == sent.ring[slot]
  IN CASE item.toSend = sess.k ->
            [ring |-> [sent EXCEPT !.front = Mod(@ + 1), !.alloc = @ - 1],
             sane |-> sent.alloc > 0]
       [] /\ item.toSend < sess.k /\ Cardinality(item.frags) = sess.k
          /\ slot = r.front ->
            [ring |-> Recover(sent, slot), sane |-> RecoverIsSane(sent, slot)]
       [] OTHER -> [ring |-> sent, sane |-> TRUE]

\* Fragment f of block b is new and in its slot.
Store(r, slot, f) ==
  LET stored == [r EXCEPT !.ring[slot].frags = @ \cup {f}]
      sent == IF slot = r.front THEN SendPrefix(stored, slot) ELSE stored
      item == sent.ring[slot]
  IN CASE item.toSend = sess.k ->
            [ring |-> [sent EXCEPT !.front = Mod(@ + 1), !.alloc = @ - 1],
             sane |-> sent.alloc > 0]
       [] item.toSend < sess.k /\ Cardinality(item.frags) = sess.k ->
            [ring |-> Recover(sent, slot), sane |-> RecoverIsSane(sent, slot)]
       [] OTHER -> [ring |-> sent, sane |-> TRUE]

\* A data packet of session s.
Data(s, b, f) ==
  /\ s = sess               \* else it does not decrypt
  /\ b <= MaxBlockIdx /\ f < sess.n
  /\ ~Processed(rx, b)
  /\ LET quiet == [rx EXCEPT !.sends = <<>>]
         r == IF Known(rx, b) THEN quiet ELSE Enter(quiet, b)
         slot == SlotOf(r, b)
         entry == Known(rx, b) \/ NewBlocks(rx, b) > 0   \* assert
     IN IF f \in r.ring[slot].frags
        THEN rx' = r /\ sane' = (sane /\ entry) /\ UNCHANGED <<got, out>>
        ELSE LET done == Store(r, slot, f) IN
             /\ rx' = done.ring
             /\ sane' = (sane /\ entry /\ done.sane)
             /\ got' = [got EXCEPT ![b] = @ \cup {f}]
             /\ out' = out \cup {done.ring.sends[i] :
                                   i \in DOMAIN done.ring.sends}
  /\ UNCHANGED sess

\* A session packet that announces s. The same key again changes nothing.
Accepts(s) ==
  /\ sess # NoSession => s.epoch >= sess.epoch
  /\ s.n >= 1 /\ s.k >= 1 /\ s.k <= s.n

Session(s) ==
  /\ Accepts(s)
  /\ sess # NoSession => s.key # sess.key
  /\ sess' = s
  /\ rx' = FreshRing
  /\ got' = [b \in Blocks |-> {}] /\ out' = {}
  /\ UNCHANGED sane

Next ==
  \/ \E s \in Sessions : Session(s)
  \/ \E s \in Sessions, b \in AirBlocks : \E f \in AirFragments(s) :
        Data(s, b, f)

Spec == Init /\ [][Next]_vars

-----------------------------------------------------------------------------
(* Properties. *)

Fragments == 0..255
Packets == Blocks \X Fragments

TypeOK ==
  /\ sess \in Sessions \cup {NoSession}
  /\ rx.ring \in [Slots -> [block : Nat, toSend : Nat,
                            frags : SUBSET Fragments]]
  /\ rx.front \in Slots /\ rx.alloc \in 0..RingSize
  /\ rx.last \in Blocks \cup {NoBlock}
  /\ rx.sends \in Seq(Packets)
  /\ got \in [Blocks -> SUBSET Fragments] /\ out \subseteq Packets
  /\ sane \in BOOLEAN

\* The asserts of get_block_ring_idx and process_packet hold, and apply_fec
\* never leaves an index unset.
AssertsHold == sane

\* The ring holds a contiguous run of blocks that ends at the last known one,
\* oldest first, whatever jumps the block numbers made.
RingIsWindow ==
  \A j \in 0..(rx.alloc - 1) :
    /\ rx.last # NoBlock
    /\ rx.ring[Mod(rx.front + j)].block + rx.alloc = rx.last + 1 + j

\* No block waits that could be rebuilt: each one in the ring has exactly
\* the fragments the air brought and fewer than k of them, and only the
\* oldest has sent anything, all of it received. (Its next packet may be there
\* and still wait: nothing looks at a block when it becomes the oldest.)
WaitingIsNecessary ==
  \A i \in LiveSlots(rx) :
    LET item == rx.ring[i] IN
    /\ item.frags = got[item.block]
    /\ Cardinality(item.frags) < sess.k
    /\ i # rx.front => item.toSend = 0
    /\ 0..(item.toSend - 1) \subseteq item.frags

PacketsOf(b) == {<<b, i>> : i \in 0..(sess.k - 1)} \ Fillers

\* Forward error correction works: once any k fragments of a block arrived
\* before it was given up, every packet of it has been forwarded.
DecodableIsForwarded ==
  \A b \in Blocks :
    sess # NoSession /\ Cardinality(got[b]) >= sess.k
      => PacketsOf(b) \subseteq out

\* Giving a block up loses nothing that was received: a data fragment of a
\* block that left the ring has been forwarded, on every way out of it.
ReceivedIsForwarded ==
  \A b \in Blocks : \A i \in got[b] :
    ~Known(rx, b) /\ <<b, i>> \in PacketsOf(b) => <<b, i>> \in out

\* Nothing is made up: what was forwarded was received or can be rebuilt.
ForwardedIsReceived ==
  \A p \in out : p[2] \in got[p[1]] \/ Cardinality(got[p[1]]) >= sess.k

Before(p, q) == p[1] < q[1] \/ (p[1] = q[1] /\ p[2] < q[2])

\* The player sees the packets of a session in the order they were sent and
\* each one at most once, however the air reorders and repeats fragments.
InOrderOnce ==
  [][ sess' = sess /\ got' # got =>
        \A i \in DOMAIN rx'.sends :
          /\ \A p \in out : Before(p, rx'.sends[i])
          /\ \A j \in 1..(i - 1) : Before(rx'.sends[j], rx'.sends[i]) ]_vars

\* The oldest block that has not been given up.
Base == IF rx.last = NoBlock THEN 0 ELSE rx.last + 1 - rx.alloc

Link == INSTANCE LossyLink
          WITH Offers <- Sessions, Silent <- Fillers, MaxBlock <- MaxBlockIdx,
               Patience <- RingSize, None <- NoSession,
               session <- sess, base <- Base, brought <- got, sent <- out,
               call <- rx.sends

\* The ring implements the link: one position that only moves on, each step
\* of it for a reason, and at each step exactly the packets it lets go, in
\* order, whatever the ring does to get there.
LinkSpec == Link!Spec

=============================================================================
