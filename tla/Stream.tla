------------------------------- MODULE Stream -------------------------------
(***************************************************************************)
(* The description of the forwarded stream (codec, payload type, SDP       *)
(* parameter sets) and the packet counter, in OpenPrlxContext:             *)
(*                                                                         *)
(*   capture     handleRtp on each packet the aggregator forwards;         *)
(*               resetDetection after a retune or a reseed                 *)
(*   supervisor  Start resets everything, Stop clears `described'          *)
(*   server      GET /sdp and GET /health read it                          *)
(*                                                                         *)
(* A step is one access to an atomic or one critical section of sdpMutex.  *)
(* Start runs only while there is no capture thread: theorem Exclusive of  *)
(* SessionProofs. A packet is abstracted to the stream it belongs to, its  *)
(* size, and the first byte of its payload; the payload is one NAL unit.   *)
(***************************************************************************)
EXTENDS Integers

CONSTANTS
  Streams,     \* RTP streams on the air: [codec, pt]
  Channels,    \* for each channel, the set of the streams heard on it
  Packets,     \* [stream, size, byte] of the RTP packets they send
  Hints,       \* values of --codec
  Requests,    \* the endpoints that are asked
  MaxPackets   \* bound on the packets of one session

ASSUME StreamAssumption ==
  /\ Streams \subseteq [codec : {"H264", "H265"}, pt : 0..127]
  /\ Packets \subseteq [stream : Streams, size : {"short", "header", "full"},
                        byte : 0..255]
  /\ Hints \subseteq {"Auto", "H264", "H265"}
  /\ Channels \subseteq SUBSET Streams
  /\ Requests \subseteq {"sdp", "health"}
  /\ MaxPackets \in Nat

VARIABLES
  \* OpenPrlxContext: stream description, counter, stop intent
  codecHint, codec, described, rtpPayloadType, haveParamSets, sets,
  rtpPktCount, shouldStop,
  \* the streams on the channel the adapter is tuned to
  air,
  \* program counters: supervisor, capture thread, resetDetection
  supPc, capPc, resetPc,
  \* capture thread: the packet handleRtp works on
  pkt,
  \* server: the GET /sdp request in hand; lastPkts_
  sdp, lastPkts,
  \* history: what passed since the last reset, and since the last poll
  since, poll

latches == <<codec, described, rtpPayloadType, haveParamSets, sets>>
ctx == <<codecHint, latches, rtpPktCount, shouldStop>>
pcs == <<supPc, capPc, resetPc>>
server == <<sdp, lastPkts, poll>>
vars == <<ctx, air, pcs, pkt, server, since>>

-----------------------------------------------------------------------------
(* NAL units, parameter sets. *)

NoPt == -1
DefaultPt == 96   \* sdpBuild's, for NoPt
NoByte == -1
Sets == {"vps", "sps", "pps"}
NoSet == [codec |-> "Auto", pt |-> NoPt]   \* an empty string
Cleared == [n \in Sets |-> NoSet]

\* sniffCodec.
Sniff(byte) == IF byte % 32 \in {1, 5, 7, 24, 28} THEN "H264" ELSE "H265"

\* storeIfParamSet on a single NAL unit: the sets it is, under codec c.
ParamSet(c, byte) ==
  {n \in Sets :
     \/ c = "H264" /\ n = "sps" /\ byte % 32 = 7
     \/ c = "H264" /\ n = "pps" /\ byte % 32 = 8
     \/ c = "H265" /\ n = "vps" /\ (byte \div 2) % 64 = 32
     \/ c = "H265" /\ n = "sps" /\ (byte \div 2) % 64 = 33
     \/ c = "H265" /\ n = "pps" /\ (byte \div 2) % 64 = 34}

\* sdpParamsComplete.
Needed(c) == IF c = "H264" THEN {"sps", "pps"} ELSE Sets
Complete(c, ss) == c # "Auto" /\ \A n \in Needed(c) : ss[n] # NoSet

\* What the packets since the last reset said: the first payload type, the
\* first payload byte, the parameter sets carried.
Nothing == [pt |-> NoPt, byte |-> NoByte, carried |-> {}]

\* What happened since /health was last asked.
Quiet == [packets |-> FALSE, restart |-> FALSE]

NoRequest == [pc |-> "idle", codec |-> "Auto", pt |-> NoPt, sets |-> Cleared,
              torn |-> FALSE]

NoPacket == [stream |-> NoSet, size |-> "short", byte |-> 0]

Init ==
  /\ codecHint \in Hints /\ codec = codecHint
  /\ described = FALSE /\ rtpPayloadType = NoPt
  /\ haveParamSets = FALSE /\ sets = Cleared
  /\ rtpPktCount = 0 /\ shouldStop = FALSE
  /\ air \in Channels
  /\ supPc = "idle" /\ capPc = "none" /\ resetPc = "none"
  /\ pkt = NoPacket
  /\ sdp = NoRequest /\ lastPkts = 0
  /\ since = Nothing
  /\ poll = Quiet

-----------------------------------------------------------------------------
(* resetDetection, on the thread that called it. *)

\* Variant: a reset that leaves the latch of the parameter sets.
ResetStepKeepingHave ==
  /\ resetPc # "none"
  /\ sdp' = [sdp EXCEPT !.torn = sdp.pc # "idle"]
  /\ \/ /\ resetPc = "described" /\ resetPc' = "pt"
        /\ described' = FALSE
        /\ UNCHANGED <<rtpPayloadType, codec, sets, since>>
     \/ /\ resetPc = "pt" /\ resetPc' = "codec"
        /\ rtpPayloadType' = NoPt
        /\ UNCHANGED <<described, codec, sets, since>>
     \/ /\ resetPc = "codec" /\ resetPc' = "sets"
        /\ codec' = codecHint
        /\ UNCHANGED <<described, rtpPayloadType, sets, since>>
     \/ /\ resetPc = "sets" /\ resetPc' = "none"
        /\ sets' = Cleared /\ since' = Nothing
        /\ UNCHANGED <<described, rtpPayloadType, codec>>
  /\ UNCHANGED <<codecHint, haveParamSets, rtpPktCount, shouldStop, air, supPc,
                 capPc, pkt, lastPkts, poll>>

\* Variant: a reset that leaves the parameter sets.
ResetStepKeepingSets ==
  /\ resetPc # "none"
  /\ sdp' = [sdp EXCEPT !.torn = sdp.pc # "idle"]
  /\ \/ /\ resetPc = "described" /\ resetPc' = "pt"
        /\ described' = FALSE
        /\ UNCHANGED <<rtpPayloadType, codec, haveParamSets, since>>
     \/ /\ resetPc = "pt" /\ resetPc' = "codec"
        /\ rtpPayloadType' = NoPt
        /\ UNCHANGED <<described, codec, haveParamSets, since>>
     \/ /\ resetPc = "codec" /\ resetPc' = "have"
        /\ codec' = codecHint
        /\ UNCHANGED <<described, rtpPayloadType, haveParamSets, since>>
     \/ /\ resetPc = "have" /\ resetPc' = "none"
        /\ haveParamSets' = FALSE /\ since' = Nothing
        /\ UNCHANGED <<described, rtpPayloadType, codec>>
  /\ UNCHANGED <<codecHint, sets, rtpPktCount, shouldStop, air, supPc,
                 capPc, pkt, lastPkts, poll>>

\* A request in hand when this happens is torn.
ResetStep ==
  /\ resetPc # "none"
  /\ sdp' = [sdp EXCEPT !.torn = sdp.pc # "idle"]
  /\ \/ /\ resetPc = "described" /\ resetPc' = "pt"
        /\ described' = FALSE
        /\ UNCHANGED <<rtpPayloadType, codec, haveParamSets, sets, since>>
     \/ /\ resetPc = "pt" /\ resetPc' = "codec"
        /\ rtpPayloadType' = NoPt
        /\ UNCHANGED <<described, codec, haveParamSets, sets, since>>
     \/ /\ resetPc = "codec" /\ resetPc' = "have"
        /\ codec' = codecHint
        /\ UNCHANGED <<described, rtpPayloadType, haveParamSets, sets, since>>
     \/ /\ resetPc = "have" /\ resetPc' = "sets"
        /\ haveParamSets' = FALSE
        /\ UNCHANGED <<described, rtpPayloadType, codec, sets, since>>
     \/ /\ resetPc = "sets" /\ resetPc' = "none"
        /\ sets' = Cleared /\ since' = Nothing
        /\ UNCHANGED <<described, rtpPayloadType, codec, haveParamSets>>
  /\ UNCHANGED <<codecHint, rtpPktCount, shouldStop, air, supPc, capPc, pkt,
                 lastPkts, poll>>

-----------------------------------------------------------------------------
(* The supervisor. *)

Start ==
  /\ supPc = "idle" /\ capPc = "none"
  /\ supPc' = "start"
  /\ rtpPktCount' = 0
  /\ resetPc' = "described"
  /\ poll' = [poll EXCEPT !.restart = TRUE]
  /\ UNCHANGED <<codecHint, latches, shouldStop, air, capPc, pkt, sdp,
                 lastPkts, since>>

\* resetDetection has returned.
Arm ==
  /\ supPc = "start" /\ resetPc = "none"
  /\ supPc' = "spawn"
  /\ shouldStop' = FALSE
  /\ UNCHANGED <<codecHint, latches, rtpPktCount, air, capPc, resetPc, pkt,
                 server, since>>

\* Start fails, or the capture thread brings the adapter up on a channel.
Spawn ==
  /\ supPc = "spawn"
  /\ supPc' = "idle"
  /\ \/ capPc' = "top" /\ air' \in Channels
     \/ UNCHANGED <<capPc, air>>
  /\ UNCHANGED <<ctx, resetPc, pkt, server, since>>

Stop ==
  /\ supPc = "idle"
  /\ supPc' = "stop"
  /\ shouldStop' = TRUE
  /\ UNCHANGED <<codecHint, latches, rtpPktCount, air, capPc, resetPc, pkt,
                 server, since>>

\* Stop clears the latch while handleRtp may be at work.
Undescribe ==
  /\ supPc = "stop"
  /\ supPc' = "idle"
  /\ described' = FALSE
  /\ UNCHANGED <<codecHint, codec, rtpPayloadType, haveParamSets, sets,
                 rtpPktCount, shouldStop, air, capPc, resetPc, pkt, server,
                 since>>

-----------------------------------------------------------------------------
(* The capture thread. *)

\* A step that only moves to pc.
Move(pc) ==
  /\ capPc' = pc
  /\ UNCHANGED <<ctx, air, supPc, resetPc, pkt, server, since>>

\* The loop condition; an error of ReadOnce ends the loop as well.
LoopTop ==
  \/ capPc = "top" /\ Move(IF shouldStop THEN "none" ELSE "tune")
  \/ capPc = "read" /\ Move("none")

\* A staged tune reprograms the channel and resets the description.
Tune ==
  \/ capPc = "tune" /\ Move("key")
  \/ /\ capPc = "tune"
     /\ air' \in Channels
     /\ resetPc' = "described"
     /\ capPc' = "tuneReset"
     /\ UNCHANGED <<ctx, supPc, pkt, server, since>>
  \/ capPc = "tuneReset" /\ resetPc = "none" /\ Move("key")

\* A staged key rebuilds the aggregator and resets the description.
Reseed ==
  \/ capPc = "key" /\ Move("read")
  \/ /\ capPc = "key"
     /\ resetPc' = "described"
     /\ capPc' = "keyReset"
     /\ UNCHANGED <<ctx, air, supPc, pkt, server, since>>
  \/ capPc = "keyReset" /\ resetPc = "none" /\ Move("read")

\* ReadOnce has no more packets.
ReadDone == capPc = "read" /\ Move("top")

\* handleRtp(p): a stopping session forwards nothing.
Receive(p) ==
  /\ capPc = "read"
  /\ p.stream \in air
  /\ ~shouldStop /\ rtpPktCount < MaxPackets
  /\ capPc' = "count" /\ pkt' = p
  /\ UNCHANGED <<ctx, air, supPc, resetPc, server, since>>

Count ==
  /\ capPc = "count"
  /\ rtpPktCount' = rtpPktCount + 1
  /\ poll' = [poll EXCEPT !.packets = TRUE]
  /\ IF pkt.size = "short"
     THEN capPc' = "read" /\ pkt' = NoPacket
     ELSE capPc' = "codec" /\ UNCHANGED pkt
  /\ UNCHANGED <<codecHint, latches, shouldStop, air, supPc, resetPc, sdp,
                 lastPkts, since>>

\* Variant: the codec is sniffed only with the first packet's description.
DetectOnDescribe ==
  /\ capPc = "codec"
  /\ codec' = IF codec = "Auto" /\ pkt.size = "full" /\ ~described
              THEN Sniff(pkt.byte) ELSE codec
  /\ capPc' = "describe"
  /\ UNCHANGED <<codecHint, described, rtpPayloadType, haveParamSets, sets,
                 rtpPktCount, shouldStop, air, supPc, resetPc, pkt, server,
                 since>>

\* Only this thread stores codec while it runs.
Detect ==
  /\ capPc = "codec"
  /\ codec' = IF codec = "Auto" /\ pkt.size = "full"
              THEN Sniff(pkt.byte) ELSE codec
  /\ capPc' = "describe"
  /\ UNCHANGED <<codecHint, described, rtpPayloadType, haveParamSets, sets,
                 rtpPktCount, shouldStop, air, supPc, resetPc, pkt, server,
                 since>>

\* Variant: the payload type of every packet is taken.
DescribeAlways ==
  /\ capPc = "describe"
  /\ described' = TRUE
  /\ capPc' = "pt"
  /\ UNCHANGED <<codecHint, codec, rtpPayloadType, haveParamSets, sets,
                 rtpPktCount, shouldStop, air, supPc, resetPc, pkt, server,
                 since>>

\* described.exchange(true), then the payload type.
Describe ==
  /\ capPc = "describe"
  /\ described' = TRUE
  /\ capPc' = IF described THEN "params" ELSE "pt"
  /\ UNCHANGED <<codecHint, codec, rtpPayloadType, haveParamSets, sets,
                 rtpPktCount, shouldStop, air, supPc, resetPc, pkt, server,
                 since>>

\* Variant: the marker bit beside the payload type is not masked.
StorePtUnmasked ==
  /\ capPc = "pt"
  /\ rtpPayloadType' = 128 + pkt.stream.pt
  /\ capPc' = "params"
  /\ UNCHANGED <<codecHint, codec, described, haveParamSets, sets,
                 rtpPktCount, shouldStop, air, supPc, resetPc, pkt, server,
                 since>>

StorePt ==
  /\ capPc = "pt"
  /\ rtpPayloadType' = pkt.stream.pt
  /\ capPc' = "params"
  /\ UNCHANGED <<codecHint, codec, described, haveParamSets, sets,
                 rtpPktCount, shouldStop, air, supPc, resetPc, pkt, server,
                 since>>

\* Variant: parameter sets are taken even when they are complete.
ExtractForEver ==
  /\ capPc = "params"
  /\ LET found == IF pkt.size = "full" THEN ParamSet(codec, pkt.byte) ELSE {}
     IN /\ sets' = [n \in Sets |-> IF n \in found THEN pkt.stream ELSE sets[n]]
        /\ haveParamSets' = (haveParamSets \/ Complete(codec, sets'))
        /\ since' =
             [pt |-> IF since.pt = NoPt THEN pkt.stream.pt ELSE since.pt,
              byte |-> IF since.byte = NoByte /\ pkt.size = "full"
                       THEN pkt.byte ELSE since.byte,
              carried |-> since.carried \cup {<<n, pkt.stream>> : n \in found}]
  /\ capPc' = "read" /\ pkt' = NoPacket
  /\ UNCHANGED <<codecHint, codec, described, rtpPayloadType, rtpPktCount,
                 shouldStop, air, supPc, resetPc, server>>

\* Until the required sets are complete each one carried is stored; then the
\* packet is sent and handleRtp returns.
ExtractParamSets ==
  /\ capPc = "params"
  /\ LET found == IF pkt.size = "full" THEN ParamSet(codec, pkt.byte) ELSE {}
     IN /\ sets' = IF haveParamSets THEN sets
                   ELSE [n \in Sets |-> IF n \in found THEN pkt.stream
                                                       ELSE sets[n]]
        /\ haveParamSets' = (haveParamSets \/ Complete(codec, sets'))
        /\ since' =
             [pt |-> IF since.pt = NoPt THEN pkt.stream.pt ELSE since.pt,
              byte |-> IF since.byte = NoByte /\ pkt.size = "full"
                       THEN pkt.byte ELSE since.byte,
              carried |-> since.carried \cup {<<n, pkt.stream>> : n \in found}]
  /\ capPc' = "read" /\ pkt' = NoPacket
  /\ UNCHANGED <<codecHint, codec, described, rtpPayloadType, rtpPktCount,
                 shouldStop, air, supPc, resetPc, server>>

-----------------------------------------------------------------------------
(* The control server. *)

\* handleSdp: 503 while the codec is unknown.
SdpCodec ==
  /\ "sdp" \in Requests
  /\ sdp.pc = "idle" /\ codec # "Auto"
  /\ sdp' = [NoRequest EXCEPT !.pc = "pt", !.codec = codec,
                              !.torn = (resetPc # "none")]
  /\ UNCHANGED <<ctx, air, pcs, pkt, lastPkts, since, poll>>

SdpPt ==
  /\ sdp.pc = "pt"
  /\ sdp' = [sdp EXCEPT !.pc = "sets",
                          !.pt = IF rtpPayloadType = NoPt THEN DefaultPt
                                                          ELSE rtpPayloadType]
  /\ UNCHANGED <<ctx, air, pcs, pkt, lastPkts, since, poll>>

\* sdpBuild writes the sets only if they are complete.
SdpBuild(c, ss) == IF Complete(c, ss) THEN ss ELSE Cleared

\* The sets are copied under their mutex, and the SDP is made from the copy.
SdpSets ==
  /\ sdp.pc = "sets"
  /\ sdp' = [sdp EXCEPT !.pc = "answered",
                        !.sets = SdpBuild(sdp.codec, sets)]
  /\ UNCHANGED <<ctx, air, pcs, pkt, lastPkts, since, poll>>

SdpDone ==
  /\ sdp.pc = "answered"
  /\ sdp' = NoRequest
  /\ UNCHANGED <<ctx, air, pcs, pkt, lastPkts, since, poll>>

\* Variant: the count of the last poll is not kept.
HealthForgetting ==
  /\ "health" \in Requests
  /\ poll' = Quiet
  /\ UNCHANGED <<ctx, air, pcs, pkt, sdp, lastPkts, since>>

\* GET /health says `streaming' and keeps the count for the next poll.
Streaming == rtpPktCount > lastPkts
Health ==
  /\ "health" \in Requests
  /\ lastPkts' = rtpPktCount
  /\ poll' = Quiet
  /\ UNCHANGED <<ctx, air, pcs, pkt, sdp, since>>

-----------------------------------------------------------------------------
Supervisor == Start \/ Arm \/ Spawn \/ Stop \/ Undescribe
Capture ==
  \/ LoopTop \/ Tune \/ Reseed \/ ReadDone \/ (\E p \in Packets : Receive(p))
  \/ Count \/ Detect \/ Describe \/ StorePt \/ ExtractParamSets
Server == SdpCodec \/ SdpPt \/ SdpSets \/ SdpDone \/ Health

Next == ResetStep \/ Supervisor \/ Capture \/ Server

Spec == Init /\ [][Next]_vars

-----------------------------------------------------------------------------
(* Properties. *)

SetValues == Streams \cup {NoSet}
TypeCtx ==
  /\ codecHint \in Hints /\ codec \in {"Auto", "H264", "H265"}
  /\ described \in BOOLEAN /\ rtpPayloadType \in -1..127
  /\ haveParamSets \in BOOLEAN /\ sets \in [Sets -> SetValues]
  /\ rtpPktCount \in 0..MaxPackets /\ shouldStop \in BOOLEAN
TypeThreads ==
  /\ air \in Channels
  /\ supPc \in {"idle", "start", "spawn", "stop"}
  /\ capPc \in {"none", "top", "tune", "tuneReset", "key", "keyReset", "read",
                "count", "codec", "describe", "pt", "params"}
  /\ resetPc \in {"none", "described", "pt", "codec", "have", "sets"}
  /\ pkt \in Packets \cup {NoPacket}
TypeServer ==
  /\ sdp \in [pc : {"idle", "pt", "sets", "answered"},
              codec : {"Auto", "H264", "H265"}, pt : -1..127,
              sets : [Sets -> SetValues], torn : BOOLEAN]
  /\ lastPkts \in 0..MaxPackets
TypeHistory ==
  /\ since \in [pt : -1..127, byte : -1..255,
                carried : SUBSET (Sets \X Streams)]
  /\ poll \in [packets : BOOLEAN, restart : BOOLEAN]

TypeOK == TypeCtx /\ TypeThreads /\ TypeServer /\ TypeHistory

\* The capture thread is neither in handleRtp nor in resetDetection.
AtRest == capPc \in {"top", "tune", "key", "read"}

\* What --codec and the first payload byte say of the codec.
Decided(byte) == IF codecHint # "Auto" THEN codecHint
                 ELSE IF byte = NoByte THEN "Auto" ELSE Sniff(byte)

\* --codec pins the codec; else the first payload since the last reset decides
\* it, whatever packets without a payload came before and however often the
\* session was retuned, reseeded, stopped and started.
FirstPayloadDecides ==
  AtRest => codec = Decided(since.byte)

\* The first RTP packet since the last reset describes a running session, once:
\* neither a reset nor the `described' that Stop clears under handleRtp's hands
\* leaves the payload type of an earlier session or of a later packet.
FirstPacketDescribes ==
  AtRest /\ ~shouldStop =>
    /\ described <=> since.pt # NoPt
    /\ rtpPayloadType = since.pt

\* The parameter sets are those carried since the last reset, each under the
\* codec in force, and haveParamSets says exactly that they are complete: the
\* sprop line always comes once the air sent them, and never before.
SetsOfThisDescription ==
  AtRest =>
    /\ haveParamSets <=> Complete(codec, sets)
    /\ \A n \in Sets :
         IF sets[n] # NoSet THEN <<n, sets[n]>> \in since.carried
         ELSE \A s \in Streams : <<n, s>> \notin since.carried

\* An SDP answered with no reset in between stays true until the next one: its
\* codec is the one in force, its payload type the one first received or the
\* default, its parameter sets the ones kept, though packets with other sets
\* and payload types went on coming.
UntornSdpIsConsistent ==
  sdp.pc = "answered" /\ ~sdp.torn =>
    /\ sdp.codec = codec
    /\ shouldStop \/ sdp.pt \in {DefaultPt, rtpPayloadType}
    /\ sdp.sets \in {Cleared, sets}

\* Whenever /health is asked it says "streaming" exactly if a packet was
\* counted since the previous poll, if no session was started in between.
StreamingWithinSession == poll.restart \/ (Streaming <=> poll.packets)

-----------------------------------------------------------------------------
(* Why these hold: an inductive invariant. *)

Handling == {"count", "codec", "describe", "pt", "params"}

\* Who is where: Start meets no capture thread, only the thread that called
\* resetDetection is in it, Stop raises shouldStop before it clears the latch.
Threads ==
  /\ supPc \in {"start", "spawn"} => capPc = "none"
  /\ resetPc # "none" => supPc = "start" \/ capPc \in {"tuneReset", "keyReset"}
  /\ supPc = "stop" => shouldStop
  /\ capPc \in Handling => pkt \in Packets
  /\ capPc = "count" => rtpPktCount < MaxPackets

\* What resetDetection has done so far stays done while it runs.
Resetting ==
  /\ resetPc \in {"pt", "codec", "have", "sets"} => ~described
  /\ resetPc \in {"codec", "have", "sets"} => rtpPayloadType = NoPt
  /\ resetPc \in {"have", "sets"} => codec = codecHint
  /\ resetPc = "sets" => ~haveParamSets

\* Start has reset the description: it is empty, whatever shouldStop was.
Emptied == supPc = "spawn" \/ (supPc = "start" /\ resetPc = "none")
Fresh ==
  Emptied => ~described /\ rtpPayloadType = NoPt /\ since = Nothing

\* The first payload byte, that of the packet in hand included once the codec
\* was looked at.
FirstByte ==
  IF /\ since.byte = NoByte /\ pkt.size = "full"
     /\ capPc \in {"describe", "pt", "params"}
  THEN pkt.byte ELSE since.byte

CodecInForce == resetPc = "none" => codec = Decided(FirstByte)

\* In a running session the latch, the payload type and the place in handleRtp
\* agree.
LatchInForce ==
  resetPc = "none" /\ ~shouldStop =>
    /\ described <=> since.pt # NoPt \/ capPc \in {"pt", "params"}
    /\ capPc = "pt" => since.pt = NoPt
    /\ rtpPayloadType = IF since.pt = NoPt /\ capPc = "params"
                        THEN pkt.stream.pt ELSE since.pt

\* Sets come from packets, and none before the codec is known.
SetsInForce ==
  resetPc \in {"none", "described"} =>
    /\ haveParamSets <=> Complete(codec, sets)
    /\ codec = "Auto" => sets = Cleared
    /\ \A n \in Sets :
         IF sets[n] # NoSet THEN <<n, sets[n]>> \in since.carried
         ELSE \A s \in Streams : <<n, s>> \notin since.carried

\* A request that no reset overtook: what it read is in force or was not
\* known yet.
SdpInForce ==
  sdp.pc # "idle" /\ ~sdp.torn =>
    /\ resetPc \in {"none", "described"}
    /\ sdp.codec = codec /\ codec # "Auto"
    /\ sdp.pc \in {"sets", "answered"} =>
         \/ sdp.pt = DefaultPt
         \/ sdp.pt = rtpPayloadType /\ rtpPayloadType # NoPt
         \/ shouldStop /\ ~Emptied
    /\ sdp.pc = "answered" =>
         sdp.sets = Cleared \/ (sdp.sets = sets /\ Complete(codec, sets))

PollInForce ==
  poll.restart \/ (lastPkts <= rtpPktCount /\ (Streaming <=> poll.packets))

StreamInv ==
  /\ TypeOK /\ Threads /\ Resetting /\ Fresh
  /\ CodecInForce /\ LatchInForce /\ SetsInForce
  /\ SdpInForce /\ PollInForce

-----------------------------------------------------------------------------
(* What a comment says and some interleaving breaks. *)

\* "Serve an SDP for the forwarded RTP stream" (ControlServer.h:442): codec,
\* payload type and parameter sets come from one stream.
SdpOfOneStream ==
  sdp.pc = "answered" /\ sdp.pt # DefaultPt =>
    \A n \in Sets : sdp.sets[n] # NoSet => sdp.sets[n].pt = sdp.pt

=============================================================================
