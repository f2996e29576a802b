------------------------------- MODULE RxPath -------------------------------
(***************************************************************************)
(* From a USB bulk transfer to the aggregator: infinite_read, FrameParser, *)
(* RxFrame and handle80211Frame. The adapter packs packets into a transfer *)
(* at multiples of eight bytes: a descriptor, its own driver information,  *)
(* a shift and the packet. The parser finds the next descriptor from the   *)
(* lengths in the one before; the bytes of a packet are their position.    *)
(*                                                                         *)
(* Pure. A unit of a transfer is [kind, drv, shift, len]. Kinds: "video"   *)
(* is a frame of the video channel; "fragment" is such a frame with more   *)
(* fragments to come, which the parser keeps in spite of its message, and  *)
(* IsValidWfbFrame refuses: the bit makes its frame control another one;   *)
(* "link" is a wfb frame of another channel; "other" is any other frame;   *)
(* "report" is from the firmware; "damaged" has a CRC or ICV error.        *)
(***************************************************************************)
EXTENDS Integers, Sequences, SequencesExt

DescSize == 24       \* RXDESC_SIZE
LeastTransfer == 1000
HeaderSize == 24     \* sizeof(ieee80211_header)
TrailerSize == 4

\* What the adapter packs: a packet is not empty.
Kinds80211 == {"video", "fragment", "link", "other", "report", "damaged"}
Units == [kind : Kinds80211, drv : Nat, shift : Nat, len : Nat \ {0}]

Whole(u) == DescSize + u.drv + u.shift + u.len

\* Wrong variant: packets follow one another without alignment.
Unaligned(n) == n

\* _RND8
Rnd8(n) == 8 * ((n + 7) \div 8)

\* Where the adapter put the units: at multiples of eight.
Places(units) ==
  LET upTo[n \in 0..Len(units)] ==
        IF n = 0 THEN <<0>>
        ELSE Append(upTo[n - 1],
                    8 * ((upTo[n - 1][n] + Whole(units[n]) + 7) \div 8))
  IN upTo[Len(units)]

\* The descriptor read at position p: past the data the buffer is zero.
Zero == [kind |-> "other", drv |-> 0, shift |-> 0, len |-> 0]

QueryRxDesc(t, p) ==
  LET at == {i \in DOMAIN t.units : Places(t.units)[i] = p}
  IN IF at = {} THEN Zero ELSE t.units[CHOOSE i \in at : TRUE]

\* recvbuf2recvframe: the packets as <<position, length>>. A damaged unit,
\* or one that the transfer does not hold, ends the parse. A fragment is
\* logged as skipped, and kept: it does not end the parse.
RecvBuf2RecvFrame(t) ==
  LET from[p \in 0..t.size] ==
        LET u == QueryRxDesc(t, p)
            offset == Whole(u)
        IN IF u.kind = "damaged" \/ u.len <= 0 \/ offset > t.size - p
           THEN <<>>
           ELSE (IF u.kind = "report" THEN <<>>
                 ELSE <<[at |-> p + DescSize + u.drv + u.shift,
                         len |-> u.len, kind |-> u.kind]>>)
                \o IF Rnd8(offset) >= t.size - p THEN <<>>
                   ELSE from[p + Rnd8(offset)]
  IN from[0]

\* infinite_read drops what comes in short transfers.
InfiniteRead(t) ==
  IF t.size > LeastTransfer THEN RecvBuf2RecvFrame(t) ELSE <<>>

\* IsValidWfbFrame, MatchesChannelID: the frame control of a data frame to the
\* distribution system and no other bit of it, a payload, the channel.
IsVideo(p) == p.kind = "video" /\ p.len > HeaderSize + TrailerSize

\* handle80211Frame on each packet: what process_packet is called with.
Frames(p) ==
  IF IsVideo(p)
  THEN << <<p.at + HeaderSize, p.len - HeaderSize - TrailerSize>> >>
  ELSE <<>>

Handed(t) ==
  LET packets == InfiniteRead(t)
  IN FlattenSeq([i \in DOMAIN packets |-> Frames(packets[i])])

-----------------------------------------------------------------------------
\* What should be handed on: of the units the transfer holds before the
\* first damaged one, the payload of the video frames, in order.
Intact(t, i) ==
  \A j \in 1..i : /\ t.units[j].kind # "damaged"
                  /\ Places(t.units)[j] + Whole(t.units[j]) <= t.size

Payload(t, i) ==
  LET u == t.units[i]
  IN IF Intact(t, i) /\ u.kind = "video" /\ u.len > 28
     THEN << <<Places(t.units)[i] + Whole(u) - u.len + 24, u.len - 28>> >>
     ELSE <<>>

Payloads(t) == FlattenSeq([i \in DOMAIN t.units |-> Payload(t, i)])

=============================================================================
