---------------------------- MODULE StreamProofs ----------------------------
(* What the TLA+ proof system proves of Stream, for any streams, packets,   *)
(* channels, requests and bound on the packets of a session.                *)
EXTENDS Stream, TLAPS

-----------------------------------------------------------------------------
(* Packets, codecs and parameter sets. *)

\* What a packet of the air carries: a stream of it, seven bits of payload
\* type, a byte.
LEMMA PacketType ==
  \A p \in Packets : /\ p.stream \in Streams /\ p.stream # NoSet
                     /\ p.stream.pt \in 0..127 /\ p.byte \in 0..255
  BY StreamAssumption DEF StreamAssumption, NoSet

\* sniffCodec always decides.
LEMMA SniffType == \A b : Sniff(b) \in {"H264", "H265"}
  BY DEF Sniff

\* The sets resetDetection leaves.
LEMMA ClearedType == Cleared \in [Sets -> SetValues]
  BY DEF Cleared, SetValues

\* No codec is complete without sets.
LEMMA NoneComplete == \A c : ~Complete(c, Cleared)
  BY DEF Complete, Needed, Cleared, Sets

\* sdpParamsComplete says yes or no.
LEMMA CompleteType == \A c, ss : Complete(c, ss) \in BOOLEAN
  BY DEF Complete

\* What a NAL unit can be is what its codec needs.
LEMMA ParamSetNeeded ==
  \A c, b : /\ ParamSet(c, b) \subseteq Sets
            /\ c = "Auto" => ParamSet(c, b) = {}
            /\ c # "Auto" => ParamSet(c, b) \subseteq Needed(c)
<1> SUFFICES ASSUME NEW c, NEW b
             PROVE  /\ ParamSet(c, b) \subseteq Sets
                    /\ c = "Auto" => ParamSet(c, b) = {}
                    /\ c # "Auto" => ParamSet(c, b) \subseteq Needed(c)
  OBVIOUS
<1>1. CASE c = "H264"
  BY <1>1, Zenon DEF ParamSet, Needed
<1>2. CASE c # "H264"
  <2>1. ParamSet(c, b) \subseteq Sets /\ Needed(c) = Sets
    BY <1>2, Zenon DEF ParamSet, Needed
  <2>2. c = "Auto" => \A n \in Sets : n \notin ParamSet(c, b)
    BY <1>2, Zenon DEF ParamSet
  <2> QED
    BY <2>1, <2>2
<1> QED
  BY <1>1, <1>2

-----------------------------------------------------------------------------
(* One lemma for each part of the invariant. *)

\* The server reads and changes nothing the other threads read.
LEMMA ServerFrame ==
  Server => UNCHANGED <<codecHint, codec, described, rtpPayloadType,
                        haveParamSets, sets, rtpPktCount, shouldStop, air,
                        supPc, capPc, resetPc, pkt, since>>
  BY DEF Server, SdpCodec, SdpPt, SdpSets, SdpDone, Health, latches, ctx, pcs

\* The stream description keeps its type.
LEMMA TypeCtxStep ==
  ASSUME TypeCtx, TypeThreads, Threads, Next
  PROVE  TypeCtx'
<1>1. CASE ResetStep
  <2> USE DEF TypeCtx, TypeThreads, Threads
  <2>1. codec' \in {"Auto", "H264", "H265"}
    BY <1>1, StreamAssumption DEF StreamAssumption, ResetStep
  <2>2. sets' \in [Sets -> SetValues]
    BY <1>1, ClearedType DEF ResetStep
  <2>3. described' \in BOOLEAN /\ haveParamSets' \in BOOLEAN
    BY <1>1 DEF ResetStep
  <2>4. rtpPayloadType' \in -1..127
    BY <1>1 DEF ResetStep, NoPt
  <2>5. UNCHANGED <<codecHint, rtpPktCount, shouldStop>>
    BY <1>1 DEF ResetStep
  <2> QED
    BY <2>1, <2>2, <2>3, <2>4, <2>5
<1>2. CASE Start
  BY <1>2, StreamAssumption DEF TypeCtx, TypeThreads, Threads,
     StreamAssumption, Start, latches, ctx, pcs, server
<1>3. CASE Arm
  BY <1>3, StreamAssumption DEF TypeCtx, TypeThreads, Threads,
     StreamAssumption, Arm, latches, ctx, pcs, server
<1>4. CASE Spawn
  BY <1>4, StreamAssumption DEF TypeCtx, TypeThreads, Threads,
     StreamAssumption, Spawn, latches, ctx, pcs, server
<1>5. CASE Stop
  BY <1>5, StreamAssumption DEF TypeCtx, TypeThreads, Threads,
     StreamAssumption, Stop, latches, ctx, pcs, server
<1>6. CASE Undescribe
  BY <1>6, StreamAssumption DEF TypeCtx, TypeThreads, Threads,
     StreamAssumption, Undescribe, latches, ctx, pcs, server
<1>7. CASE LoopTop
  BY <1>7, StreamAssumption DEF TypeCtx, TypeThreads, Threads,
     StreamAssumption, LoopTop, Move, latches, ctx, pcs, server
<1>8. CASE Tune
  BY <1>8, StreamAssumption DEF TypeCtx, TypeThreads, Threads,
     StreamAssumption, Tune, Move, latches, ctx, pcs, server
<1>9. CASE Reseed
  <2> USE DEF TypeCtx, TypeThreads, Threads
  <2>1. UNCHANGED ctx
    BY <1>9 DEF Reseed, Move
  <2> QED
    BY <2>1 DEF ctx, latches
<1>10. CASE ReadDone
  BY <1>10, StreamAssumption DEF TypeCtx, TypeThreads, Threads,
     StreamAssumption, ReadDone, Move, latches, ctx, pcs, server
<1>11. ASSUME NEW p \in Packets, Receive(p) PROVE TypeCtx'
  BY <1>11, StreamAssumption DEF TypeCtx, TypeThreads, Threads,
     StreamAssumption, Receive, latches, ctx, pcs, server
<1>12. CASE Count
  BY <1>12, StreamAssumption DEF TypeCtx, TypeThreads, Threads,
     StreamAssumption, Count, latches, ctx, pcs, server
<1>13. CASE Detect
  <2> USE DEF TypeCtx, TypeThreads, Threads
  <2>1. codec' \in {"Auto", "H264", "H265"}
    BY <1>13, SniffType DEF Detect
  <2> QED
    BY <1>13, <2>1 DEF Detect, server
<1>14. CASE Describe
  BY <1>14, StreamAssumption DEF TypeCtx, TypeThreads, Threads,
     StreamAssumption, Describe, latches, ctx, pcs, server
<1>15. CASE StorePt
  <2> USE DEF TypeCtx, TypeThreads, Threads
  <2>1. pkt.stream.pt \in -1..127
    BY <1>15, PacketType DEF StorePt, Handling
  <2> QED
    BY <1>15, <2>1 DEF StorePt, server
<1>16. CASE ExtractParamSets
  <2> USE DEF TypeCtx, TypeThreads, Threads
  <2>1. sets' \in [Sets -> SetValues]
    BY <1>16, PacketType DEF ExtractParamSets, Handling, SetValues
  <2>2. haveParamSets' \in BOOLEAN
    BY <1>16, CompleteType DEF ExtractParamSets
  <2> QED
    BY <1>16, <2>1, <2>2 DEF ExtractParamSets, server
<1>17. CASE Server
  BY <1>17, ServerFrame DEF TypeCtx, TypeThreads, Threads
<1> QED
  BY <1>1, <1>2, <1>3, <1>4, <1>5, <1>6, <1>7, <1>8, <1>9, <1>10, <1>11,
     <1>12, <1>13, <1>14, <1>15, <1>16, <1>17 DEF Next, Supervisor, Capture,
     Server

\* The program counters and the packet in hand keep their type.
LEMMA TypeThreadsStep ==
  ASSUME TypeThreads, Next
  PROVE  TypeThreads'
<1>1. CASE ResetStep
  BY <1>1 DEF TypeThreads, ResetStep, latches, ctx, pcs, server
<1>2. CASE Start
  BY <1>2 DEF TypeThreads, Start, latches, ctx, pcs, server
<1>3. CASE Arm
  BY <1>3 DEF TypeThreads, Arm, latches, ctx, pcs, server
<1>4. CASE Spawn
  BY <1>4 DEF TypeThreads, Spawn, latches, ctx, pcs, server
<1>5. CASE Stop
  BY <1>5 DEF TypeThreads, Stop, latches, ctx, pcs, server
<1>6. CASE Undescribe
  BY <1>6 DEF TypeThreads, Undescribe, latches, ctx, pcs, server
<1>7. CASE LoopTop
  BY <1>7 DEF TypeThreads, LoopTop, Move, latches, ctx, pcs, server
<1>8. CASE Tune
  BY <1>8, StreamAssumption DEF TypeThreads, StreamAssumption, Tune, Move,
     latches, ctx, pcs, server
<1>9. CASE Reseed
  BY <1>9 DEF TypeThreads, Reseed, Move, latches, ctx, pcs, server
<1>10. CASE ReadDone
  BY <1>10 DEF TypeThreads, ReadDone, Move, latches, ctx, pcs, server
<1>11. ASSUME NEW p \in Packets, Receive(p) PROVE TypeThreads'
  BY <1>11 DEF TypeThreads, Receive, latches, ctx, pcs, server
<1>12. CASE Count
  BY <1>12 DEF TypeThreads, Count, latches, ctx, pcs, server
<1>13. CASE Detect
  BY <1>13 DEF TypeThreads, Detect, latches, ctx, pcs, server
<1>14. CASE Describe
  BY <1>14 DEF TypeThreads, Describe, latches, ctx, pcs, server
<1>15. CASE StorePt
  BY <1>15 DEF TypeThreads, StorePt, latches, ctx, pcs, server
<1>16. CASE ExtractParamSets
  BY <1>16 DEF TypeThreads, ExtractParamSets, latches, ctx, pcs, server
<1>17. CASE Server
  BY <1>17, ServerFrame DEF TypeThreads
<1> QED
  BY <1>1, <1>2, <1>3, <1>4, <1>5, <1>6, <1>7, <1>8, <1>9, <1>10, <1>11,
     <1>12, <1>13, <1>14, <1>15, <1>16, <1>17 DEF Next, Supervisor, Capture,
     Server

\* The request in hand and the count of the last poll keep their type.
LEMMA TypeServerStep ==
  ASSUME TypeServer, TypeCtx, Next
  PROVE  TypeServer'
<1>1. CASE ResetStep
  BY <1>1 DEF TypeServer, TypeCtx, ResetStep, latches, ctx, pcs, server
<1>2. CASE Start
  BY <1>2 DEF TypeServer, TypeCtx, Start, latches, ctx, pcs, server
<1>3. CASE Arm
  BY <1>3 DEF TypeServer, TypeCtx, Arm, latches, ctx, pcs, server
<1>4. CASE Spawn
  BY <1>4 DEF TypeServer, TypeCtx, Spawn, latches, ctx, pcs, server
<1>5. CASE Stop
  BY <1>5 DEF TypeServer, TypeCtx, Stop, latches, ctx, pcs, server
<1>6. CASE Undescribe
  BY <1>6 DEF TypeServer, TypeCtx, Undescribe, latches, ctx, pcs, server
<1>7. CASE LoopTop
  BY <1>7 DEF TypeServer, TypeCtx, LoopTop, Move, latches, ctx, pcs, server
<1>8. CASE Tune
  BY <1>8 DEF TypeServer, TypeCtx, Tune, Move, latches, ctx, pcs, server
<1>9. CASE Reseed
  BY <1>9 DEF TypeServer, TypeCtx, Reseed, Move, latches, ctx, pcs, server
<1>10. CASE ReadDone
  BY <1>10 DEF TypeServer, TypeCtx, ReadDone, Move, latches, ctx, pcs, server
<1>11. ASSUME NEW p \in Packets, Receive(p) PROVE TypeServer'
  BY <1>11 DEF TypeServer, TypeCtx, Receive, latches, ctx, pcs, server
<1>12. CASE Count
  BY <1>12 DEF TypeServer, TypeCtx, Count, latches, ctx, pcs, server
<1>13. CASE Detect
  BY <1>13 DEF TypeServer, TypeCtx, Detect, latches, ctx, pcs, server
<1>14. CASE Describe
  BY <1>14 DEF TypeServer, TypeCtx, Describe, latches, ctx, pcs, server
<1>15. CASE StorePt
  BY <1>15 DEF TypeServer, TypeCtx, StorePt, latches, ctx, pcs, server
<1>16. CASE ExtractParamSets
  BY <1>16 DEF TypeServer, TypeCtx, ExtractParamSets, latches, ctx, pcs,
     server
<1>17. CASE SdpCodec
  <2> USE DEF TypeServer, TypeCtx
  <2>1. sdp' = [pc |-> "pt", codec |-> codec, pt |-> NoPt, sets |-> Cleared,
                torn |-> resetPc # "none"]
    BY <1>17 DEF SdpCodec, NoRequest
  <2> DEFINE busy == resetPc # "none"
  <2>2. busy \in BOOLEAN
    OBVIOUS
  <2> HIDE DEF busy
  <2>3. sdp' = [pc |-> "pt", codec |-> codec, pt |-> NoPt, sets |-> Cleared,
                torn |-> busy]
    BY <2>1 DEF busy
  <2>4. lastPkts' = lastPkts
    BY <1>17 DEF SdpCodec
  <2>5. NoPt \in -1..127
    BY DEF NoPt
  <2> QED
    BY <2>2, <2>3, <2>4, <2>5, ClearedType
<1>18. CASE SdpPt
  <2> USE DEF TypeServer, TypeCtx
  <2>1. DefaultPt \in -1..127 /\ rtpPayloadType \in -1..127
    BY DEF DefaultPt
  <2> QED
    BY <1>18, <2>1 DEF SdpPt
<1>19. CASE SdpSets
  <2> USE DEF TypeServer, TypeCtx
  <2>1. (IF Complete(sdp.codec, sets) THEN sets ELSE Cleared)
          \in [Sets -> SetValues]
    BY ClearedType
  <2> QED
    BY <1>19, <2>1 DEF SdpSets, SdpBuild
<1>20. CASE SdpDone
  BY <1>20, ClearedType DEF TypeServer, SdpDone, NoRequest, NoPt
<1>21. CASE Health
  BY <1>21 DEF TypeServer, TypeCtx, Health, latches, ctx, pcs, server
<1> QED
  BY <1>1, <1>2, <1>3, <1>4, <1>5, <1>6, <1>7, <1>8, <1>9, <1>10, <1>11,
     <1>12, <1>13, <1>14, <1>15, <1>16, <1>17, <1>18, <1>19, <1>20, <1>21 DEF
     Next, Supervisor, Capture, Server

\* The history keeps its type.
LEMMA TypeHistoryStep ==
  ASSUME TypeHistory, TypeThreads, Threads, Next
  PROVE  TypeHistory'
<1>1. CASE ResetStep
  <2> USE DEF TypeHistory, TypeThreads, Threads
  <2>1. Nothing \in [pt : -1..127, byte : -1..255,
                      carried : SUBSET (Sets \X Streams)]
    BY DEF Nothing, NoPt, NoByte
  <2> QED
    BY <1>1, <2>1 DEF ResetStep
<1>2. CASE Start
  BY <1>2 DEF TypeHistory, TypeThreads, Threads, Start, latches, ctx, pcs,
     server
<1>3. CASE Arm
  BY <1>3 DEF TypeHistory, TypeThreads, Threads, Arm, latches, ctx, pcs,
     server
<1>4. CASE Spawn
  BY <1>4 DEF TypeHistory, TypeThreads, Threads, Spawn, latches, ctx, pcs,
     server
<1>5. CASE Stop
  BY <1>5 DEF TypeHistory, TypeThreads, Threads, Stop, latches, ctx, pcs,
     server
<1>6. CASE Undescribe
  BY <1>6 DEF TypeHistory, TypeThreads, Threads, Undescribe, latches, ctx,
     pcs, server
<1>7. CASE LoopTop
  BY <1>7 DEF TypeHistory, TypeThreads, Threads, LoopTop, Move, latches, ctx,
     pcs, server
<1>8. CASE Tune
  BY <1>8 DEF TypeHistory, TypeThreads, Threads, Tune, Move, latches, ctx,
     pcs, server
<1>9. CASE Reseed
  BY <1>9 DEF TypeHistory, TypeThreads, Threads, Reseed, Move, latches, ctx,
     pcs, server
<1>10. CASE ReadDone
  BY <1>10 DEF TypeHistory, TypeThreads, Threads, ReadDone, Move, latches,
     ctx, pcs, server
<1>11. ASSUME NEW p \in Packets, Receive(p) PROVE TypeHistory'
  BY <1>11 DEF TypeHistory, TypeThreads, Threads, Receive, latches, ctx, pcs,
     server
<1>12. CASE Count
  BY <1>12 DEF TypeHistory, TypeThreads, Threads, Count, latches, ctx, pcs,
     server
<1>13. CASE Detect
  BY <1>13 DEF TypeHistory, TypeThreads, Threads, Detect, latches, ctx, pcs,
     server
<1>14. CASE Describe
  BY <1>14 DEF TypeHistory, TypeThreads, Threads, Describe, latches, ctx,
     pcs, server
<1>15. CASE StorePt
  BY <1>15 DEF TypeHistory, TypeThreads, Threads, StorePt, latches, ctx, pcs,
     server
<1>16. CASE ExtractParamSets
  <2> USE DEF TypeHistory, TypeThreads, Threads
  <2> DEFINE found == IF pkt.size = "full" THEN ParamSet(codec, pkt.byte)
                                           ELSE {}
  <2>1. pkt \in Packets
    BY <1>16 DEF ExtractParamSets, Handling
  <2>2. pkt.stream \in Streams /\ pkt.stream.pt \in -1..127
        /\ pkt.byte \in -1..255
    BY <2>1, PacketType
  <2>3. found \subseteq Sets
    BY ParamSetNeeded
  <2>4. since' =
          [pt |-> IF since.pt = NoPt THEN pkt.stream.pt ELSE since.pt,
           byte |-> IF since.byte = NoByte /\ pkt.size = "full"
                    THEN pkt.byte ELSE since.byte,
           carried |-> since.carried \cup {<<n, pkt.stream>> : n \in found}]
    BY <1>16 DEF ExtractParamSets
  <2> HIDE DEF found
  <2>5. {<<n, pkt.stream>> : n \in found} \subseteq Sets \X Streams
    BY <2>2, <2>3
  <2>6. since' \in [pt : -1..127, byte : -1..255,
                   carried : SUBSET (Sets \X Streams)]
    BY <2>2, <2>4, <2>5
  <2>7. poll' = poll
    BY <1>16 DEF ExtractParamSets, server
  <2> QED
    BY <2>6, <2>7
<1>17. CASE SdpCodec
  BY <1>17 DEF TypeHistory, TypeThreads, Threads, SdpCodec, latches, ctx,
     pcs, server
<1>18. CASE SdpPt
  BY <1>18 DEF TypeHistory, TypeThreads, Threads, SdpPt, latches, ctx, pcs,
     server
<1>19. CASE SdpSets
  BY <1>19 DEF TypeHistory, TypeThreads, Threads, SdpSets, SdpBuild, latches,
     ctx, pcs, server
<1>20. CASE SdpDone
  BY <1>20 DEF TypeHistory, TypeThreads, Threads, SdpDone, latches, ctx, pcs,
     server
<1>21. CASE Health
  BY <1>21 DEF TypeHistory, Health, Quiet
<1> QED
  BY <1>1, <1>2, <1>3, <1>4, <1>5, <1>6, <1>7, <1>8, <1>9, <1>10, <1>11,
     <1>12, <1>13, <1>14, <1>15, <1>16, <1>17, <1>18, <1>19, <1>20, <1>21 DEF
     Next, Supervisor, Capture, Server

\* Nobody enters resetDetection or handleRtp beside another.
LEMMA ThreadsStep ==
  ASSUME Threads, TypeThreads, TypeCtx, Next
  PROVE  Threads'
<1>1. CASE ResetStep
  BY <1>1, StreamAssumption DEF Threads, TypeThreads, TypeCtx, Handling,
     StreamAssumption, ResetStep, latches, ctx, pcs, server
<1>2. CASE Start
  BY <1>2, StreamAssumption DEF Threads, TypeThreads, TypeCtx, Handling,
     StreamAssumption, Start, latches, ctx, pcs, server
<1>3. CASE Arm
  BY <1>3, StreamAssumption DEF Threads, TypeThreads, TypeCtx, Handling,
     StreamAssumption, Arm, latches, ctx, pcs, server
<1>4. CASE Spawn
  BY <1>4, StreamAssumption DEF Threads, TypeThreads, TypeCtx, Handling,
     StreamAssumption, Spawn, latches, ctx, pcs, server
<1>5. CASE Stop
  BY <1>5, StreamAssumption DEF Threads, TypeThreads, TypeCtx, Handling,
     StreamAssumption, Stop, latches, ctx, pcs, server
<1>6. CASE Undescribe
  BY <1>6, StreamAssumption DEF Threads, TypeThreads, TypeCtx, Handling,
     StreamAssumption, Undescribe, latches, ctx, pcs, server
<1>7. CASE LoopTop
  BY <1>7, StreamAssumption DEF Threads, TypeThreads, TypeCtx, Handling,
     StreamAssumption, LoopTop, Move, latches, ctx, pcs, server
<1>8. CASE Tune
  BY <1>8, StreamAssumption DEF Threads, TypeThreads, TypeCtx, Handling,
     StreamAssumption, Tune, Move, latches, ctx, pcs, server
<1>9. CASE Reseed
  BY <1>9, StreamAssumption DEF Threads, TypeThreads, TypeCtx, Handling,
     StreamAssumption, Reseed, Move, latches, ctx, pcs, server
<1>10. CASE ReadDone
  BY <1>10, StreamAssumption DEF Threads, TypeThreads, TypeCtx, Handling,
     StreamAssumption, ReadDone, Move, latches, ctx, pcs, server
<1>11. ASSUME NEW p \in Packets, Receive(p) PROVE Threads'
  BY <1>11, StreamAssumption DEF Threads, TypeThreads, TypeCtx, Handling,
     StreamAssumption, Receive, latches, ctx, pcs, server
<1>12. CASE Count
  BY <1>12, StreamAssumption DEF Threads, TypeThreads, TypeCtx, Handling,
     StreamAssumption, Count, latches, ctx, pcs, server
<1>13. CASE Detect
  BY <1>13, StreamAssumption DEF Threads, TypeThreads, TypeCtx, Handling,
     StreamAssumption, Detect, latches, ctx, pcs, server
<1>14. CASE Describe
  BY <1>14, StreamAssumption DEF Threads, TypeThreads, TypeCtx, Handling,
     StreamAssumption, Describe, latches, ctx, pcs, server
<1>15. CASE StorePt
  BY <1>15, StreamAssumption DEF Threads, TypeThreads, TypeCtx, Handling,
     StreamAssumption, StorePt, latches, ctx, pcs, server
<1>16. CASE ExtractParamSets
  BY <1>16, StreamAssumption DEF Threads, TypeThreads, TypeCtx, Handling,
     StreamAssumption, ExtractParamSets, latches, ctx, pcs, server
<1>17. CASE Server
  BY <1>17, ServerFrame DEF Threads, TypeThreads, TypeCtx, Handling
<1> QED
  BY <1>1, <1>2, <1>3, <1>4, <1>5, <1>6, <1>7, <1>8, <1>9, <1>10, <1>11,
     <1>12, <1>13, <1>14, <1>15, <1>16, <1>17 DEF Next, Supervisor, Capture,
     Server

\* While resetDetection runs nobody else stores what it has reset.
LEMMA ResettingStep ==
  ASSUME Resetting, TypeThreads, Threads, Next
  PROVE  Resetting'
<1>1. CASE ResetStep
  BY <1>1 DEF Resetting, TypeThreads, Threads, ResetStep, latches, ctx, pcs,
     server
<1>2. CASE Start
  BY <1>2 DEF Resetting, TypeThreads, Threads, Start, latches, ctx, pcs,
     server
<1>3. CASE Arm
  BY <1>3 DEF Resetting, TypeThreads, Threads, Arm, latches, ctx, pcs, server
<1>4. CASE Spawn
  BY <1>4 DEF Resetting, TypeThreads, Threads, Spawn, latches, ctx, pcs,
     server
<1>5. CASE Stop
  BY <1>5 DEF Resetting, TypeThreads, Threads, Stop, latches, ctx, pcs,
     server
<1>6. CASE Undescribe
  BY <1>6 DEF Resetting, TypeThreads, Threads, Undescribe, latches, ctx, pcs,
     server
<1>7. CASE LoopTop
  BY <1>7 DEF Resetting, TypeThreads, Threads, LoopTop, Move, latches, ctx,
     pcs, server
<1>8. CASE Tune
  BY <1>8 DEF Resetting, TypeThreads, Threads, Tune, Move, latches, ctx, pcs,
     server
<1>9. CASE Reseed
  BY <1>9 DEF Resetting, TypeThreads, Threads, Reseed, Move, latches, ctx,
     pcs, server
<1>10. CASE ReadDone
  BY <1>10 DEF Resetting, TypeThreads, Threads, ReadDone, Move, latches, ctx,
     pcs, server
<1>11. ASSUME NEW p \in Packets, Receive(p) PROVE Resetting'
  BY <1>11 DEF Resetting, TypeThreads, Threads, Receive, latches, ctx, pcs,
     server
<1>12. CASE Count
  BY <1>12 DEF Resetting, TypeThreads, Threads, Count, latches, ctx, pcs,
     server
<1>13. CASE Detect
  BY <1>13 DEF Resetting, TypeThreads, Threads, Detect, latches, ctx, pcs,
     server
<1>14. CASE Describe
  <2> USE DEF Resetting, TypeThreads, Threads
  <2>1. resetPc = "none" /\ resetPc' = resetPc
    BY <1>14 DEF Describe
  <2> QED
    BY <2>1
<1>15. CASE StorePt
  BY <1>15 DEF Resetting, TypeThreads, Threads, StorePt, latches, ctx, pcs,
     server
<1>16. CASE ExtractParamSets
  BY <1>16 DEF Resetting, TypeThreads, Threads, ExtractParamSets, latches,
     ctx, pcs, server
<1>17. CASE Server
  BY <1>17, ServerFrame DEF Resetting, TypeThreads, Threads
<1> QED
  BY <1>1, <1>2, <1>3, <1>4, <1>5, <1>6, <1>7, <1>8, <1>9, <1>10, <1>11,
     <1>12, <1>13, <1>14, <1>15, <1>16, <1>17 DEF Next, Supervisor, Capture,
     Server

\* From the reset of Start to the spawn the description stays empty.
LEMMA FreshStep ==
  ASSUME Fresh, TypeThreads, Threads, Resetting, Next
  PROVE  Fresh'
<1>1. CASE ResetStep
  BY <1>1 DEF Fresh, TypeThreads, Threads, Resetting, Emptied, ResetStep,
     latches, ctx, pcs, server
<1>2. CASE Start
  BY <1>2 DEF Fresh, TypeThreads, Threads, Resetting, Emptied, Start,
     latches, ctx, pcs, server
<1>3. CASE Arm
  BY <1>3 DEF Fresh, TypeThreads, Threads, Resetting, Emptied, Arm, latches,
     ctx, pcs, server
<1>4. CASE Spawn
  BY <1>4 DEF Fresh, TypeThreads, Threads, Resetting, Emptied, Spawn,
     latches, ctx, pcs, server
<1>5. CASE Stop
  BY <1>5 DEF Fresh, TypeThreads, Threads, Resetting, Emptied, Stop, latches,
     ctx, pcs, server
<1>6. CASE Undescribe
  BY <1>6 DEF Fresh, TypeThreads, Threads, Resetting, Emptied, Undescribe,
     latches, ctx, pcs, server
<1>7. CASE LoopTop
  BY <1>7 DEF Fresh, TypeThreads, Threads, Resetting, Emptied, LoopTop, Move,
     latches, ctx, pcs, server
<1>8. CASE Tune
  BY <1>8 DEF Fresh, TypeThreads, Threads, Resetting, Emptied, Tune, Move,
     latches, ctx, pcs, server
<1>9. CASE Reseed
  BY <1>9 DEF Fresh, TypeThreads, Threads, Resetting, Emptied, Reseed, Move,
     latches, ctx, pcs, server
<1>10. CASE ReadDone
  BY <1>10 DEF Fresh, TypeThreads, Threads, Resetting, Emptied, ReadDone,
     Move, latches, ctx, pcs, server
<1>11. ASSUME NEW p \in Packets, Receive(p) PROVE Fresh'
  BY <1>11 DEF Fresh, TypeThreads, Threads, Resetting, Emptied, Receive,
     latches, ctx, pcs, server
<1>12. CASE Count
  BY <1>12 DEF Fresh, TypeThreads, Threads, Resetting, Emptied, Count,
     latches, ctx, pcs, server
<1>13. CASE Detect
  BY <1>13 DEF Fresh, TypeThreads, Threads, Resetting, Emptied, Detect,
     latches, ctx, pcs, server
<1>14. CASE Describe
  BY <1>14 DEF Fresh, TypeThreads, Threads, Resetting, Emptied, Describe,
     latches, ctx, pcs, server
<1>15. CASE StorePt
  BY <1>15 DEF Fresh, TypeThreads, Threads, Resetting, Emptied, StorePt,
     latches, ctx, pcs, server
<1>16. CASE ExtractParamSets
  BY <1>16 DEF Fresh, TypeThreads, Threads, Resetting, Emptied,
     ExtractParamSets, latches, ctx, pcs, server
<1>17. CASE Server
  BY <1>17, ServerFrame DEF Fresh, TypeThreads, Threads, Resetting, Emptied
<1> QED
  BY <1>1, <1>2, <1>3, <1>4, <1>5, <1>6, <1>7, <1>8, <1>9, <1>10, <1>11,
     <1>12, <1>13, <1>14, <1>15, <1>16, <1>17 DEF Next, Supervisor, Capture,
     Server

\* The codec follows --codec and the first payload byte.
LEMMA CodecInForceStep ==
  ASSUME CodecInForce, TypeCtx, TypeThreads, TypeHistory, Threads, Resetting,
     Next
  PROVE  CodecInForce'
<1>1. CASE ResetStep
  <2> USE DEF CodecInForce, TypeCtx, TypeThreads, TypeHistory, Threads,
     Resetting, FirstByte, Decided
  <2>1. CASE resetPc # "sets"
    BY <1>1, <2>1 DEF ResetStep
  <2>2. CASE resetPc = "sets"
    <3>1. codec' = codecHint' /\ since' = Nothing /\ capPc' = capPc
      BY <1>1, <2>2 DEF ResetStep
    <3>2. FirstByte' = NoByte
      BY <3>1, <1>1, <2>2 DEF ResetStep, Nothing
    <3> QED
      BY <3>1, <3>2
  <2> QED
    BY <2>1, <2>2
<1>2. CASE Start
  BY <1>2 DEF CodecInForce, TypeCtx, TypeThreads, TypeHistory, Threads,
     Resetting, FirstByte, Decided, Start, latches, ctx, pcs, server
<1>3. CASE Arm
  BY <1>3 DEF CodecInForce, TypeCtx, TypeThreads, TypeHistory, Threads,
     Resetting, FirstByte, Decided, Arm, latches, ctx, pcs, server
<1>4. CASE Spawn
  BY <1>4 DEF CodecInForce, TypeCtx, TypeThreads, TypeHistory, Threads,
     Resetting, FirstByte, Decided, Spawn, latches, ctx, pcs, server
<1>5. CASE Stop
  BY <1>5 DEF CodecInForce, TypeCtx, TypeThreads, TypeHistory, Threads,
     Resetting, FirstByte, Decided, Stop, latches, ctx, pcs, server
<1>6. CASE Undescribe
  BY <1>6 DEF CodecInForce, TypeCtx, TypeThreads, TypeHistory, Threads,
     Resetting, FirstByte, Decided, Undescribe, latches, ctx, pcs, server
<1>7. CASE LoopTop
  BY <1>7 DEF CodecInForce, TypeCtx, TypeThreads, TypeHistory, Threads,
     Resetting, FirstByte, Decided, LoopTop, Move, latches, ctx, pcs, server
<1>8. CASE Tune
  BY <1>8 DEF CodecInForce, TypeCtx, TypeThreads, TypeHistory, Threads,
     Resetting, FirstByte, Decided, Tune, Move, latches, ctx, pcs, server
<1>9. CASE Reseed
  BY <1>9 DEF CodecInForce, TypeCtx, TypeThreads, TypeHistory, Threads,
     Resetting, FirstByte, Decided, Reseed, Move, latches, ctx, pcs, server
<1>10. CASE ReadDone
  BY <1>10 DEF CodecInForce, TypeCtx, TypeThreads, TypeHistory, Threads,
     Resetting, FirstByte, Decided, ReadDone, Move, latches, ctx, pcs, server
<1>11. ASSUME NEW p \in Packets, Receive(p) PROVE CodecInForce'
  BY <1>11 DEF CodecInForce, TypeCtx, TypeThreads, TypeHistory, Threads,
     Resetting, FirstByte, Decided, Receive, latches, ctx, pcs, server
<1>12. CASE Count
  BY <1>12 DEF CodecInForce, TypeCtx, TypeThreads, TypeHistory, Threads,
     Resetting, FirstByte, Decided, Count, latches, ctx, pcs, server
<1>13. CASE Detect
  <2> USE DEF CodecInForce, TypeCtx, TypeThreads, TypeHistory, Threads,
     Resetting, FirstByte, Decided
  <2>1. resetPc = "none" /\ codec = Decided(since.byte) /\ pkt \in Packets
    BY <1>13 DEF Detect, Handling
  <2>2. /\ pkt.byte # NoByte
        /\ since.byte = NoByte => Decided(NoByte) = codecHint
    BY <2>1, PacketType DEF NoByte
  <2>3. FirstByte' = IF since.byte = NoByte /\ pkt.size = "full" THEN pkt.byte
                    ELSE since.byte
    BY <1>13 DEF Detect
  <2>4. codec' = IF codec = "Auto" /\ pkt.size = "full" THEN Sniff(pkt.byte)
                 ELSE codec
    BY <1>13 DEF Detect
  <2>5. codec = "Auto" => codecHint = "Auto" /\ since.byte = NoByte
    BY <2>1, SniffType
  <2>6. codec # "Auto" => codecHint # "Auto" \/ since.byte # NoByte
    BY <2>1
  <2> QED
    BY <1>13, <2>1, <2>2, <2>3, <2>4, <2>5, <2>6 DEF Detect
<1>14. CASE Describe
  BY <1>14 DEF CodecInForce, TypeCtx, TypeThreads, TypeHistory, Threads,
     Resetting, FirstByte, Decided, Describe, latches, ctx, pcs, server
<1>15. CASE StorePt
  BY <1>15 DEF CodecInForce, TypeCtx, TypeThreads, TypeHistory, Threads,
     Resetting, FirstByte, Decided, StorePt, latches, ctx, pcs, server
<1>16. CASE ExtractParamSets
  BY <1>16 DEF CodecInForce, TypeCtx, TypeThreads, TypeHistory, Threads,
     Resetting, FirstByte, Decided, ExtractParamSets, latches, ctx, pcs,
     server
<1>17. CASE Server
  BY <1>17, ServerFrame DEF CodecInForce, TypeCtx, TypeThreads, TypeHistory,
     Threads, Resetting, FirstByte, Decided
<1> QED
  BY <1>1, <1>2, <1>3, <1>4, <1>5, <1>6, <1>7, <1>8, <1>9, <1>10, <1>11,
     <1>12, <1>13, <1>14, <1>15, <1>16, <1>17 DEF Next, Supervisor, Capture,
     Server

\* Only shouldStop lets `described' fall behind the packets.
LEMMA LatchInForceStep ==
  ASSUME LatchInForce, TypeCtx, TypeThreads, TypeHistory, Threads, Resetting,
     Fresh, Next
  PROVE  LatchInForce'
<1>1. CASE ResetStep
  <2> USE DEF LatchInForce, TypeCtx, TypeThreads, TypeHistory, Threads,
     Resetting, Fresh, Emptied
  <2>1. CASE resetPc # "sets"
    BY <1>1, <2>1 DEF ResetStep
  <2>2. CASE resetPc = "sets"
    <3>1. ~described' /\ rtpPayloadType' = NoPt /\ since' = Nothing
      BY <1>1, <2>2 DEF ResetStep
    <3>2. capPc' = capPc /\ capPc \in {"none", "tuneReset", "keyReset"}
      BY <1>1, <2>2 DEF ResetStep
    <3> QED
      BY <3>1, <3>2 DEF Nothing
  <2> QED
    BY <2>1, <2>2
<1>2. CASE Start
  BY <1>2 DEF LatchInForce, TypeCtx, TypeThreads, TypeHistory, Threads,
     Resetting, Fresh, Emptied, Start, latches, ctx, pcs, server
<1>3. CASE Arm
  <2> USE DEF LatchInForce, TypeCtx, TypeThreads, TypeHistory, Threads,
     Resetting, Fresh, Emptied
  <2>1. ~described' /\ rtpPayloadType' = NoPt /\ since' = Nothing
    BY <1>3 DEF Arm, latches
  <2>2. capPc' = "none"
    BY <1>3 DEF Arm
  <2> QED
    BY <2>1, <2>2 DEF Nothing
<1>4. CASE Spawn
  BY <1>4 DEF LatchInForce, TypeCtx, TypeThreads, TypeHistory, Threads,
     Resetting, Fresh, Emptied, Spawn, latches, ctx, pcs, server
<1>5. CASE Stop
  BY <1>5 DEF LatchInForce, TypeCtx, TypeThreads, TypeHistory, Threads,
     Resetting, Fresh, Emptied, Stop, latches, ctx, pcs, server
<1>6. CASE Undescribe
  BY <1>6 DEF LatchInForce, TypeCtx, TypeThreads, TypeHistory, Threads,
     Resetting, Fresh, Emptied, Undescribe, latches, ctx, pcs, server
<1>7. CASE LoopTop
  BY <1>7 DEF LatchInForce, TypeCtx, TypeThreads, TypeHistory, Threads,
     Resetting, Fresh, Emptied, LoopTop, Move, latches, ctx, pcs, server
<1>8. CASE Tune
  BY <1>8 DEF LatchInForce, TypeCtx, TypeThreads, TypeHistory, Threads,
     Resetting, Fresh, Emptied, Tune, Move, latches, ctx, pcs, server
<1>9. CASE Reseed
  BY <1>9 DEF LatchInForce, TypeCtx, TypeThreads, TypeHistory, Threads,
     Resetting, Fresh, Emptied, Reseed, Move, latches, ctx, pcs, server
<1>10. CASE ReadDone
  BY <1>10 DEF LatchInForce, TypeCtx, TypeThreads, TypeHistory, Threads,
     Resetting, Fresh, Emptied, ReadDone, Move, latches, ctx, pcs, server
<1>11. ASSUME NEW p \in Packets, Receive(p) PROVE LatchInForce'
  BY <1>11 DEF LatchInForce, TypeCtx, TypeThreads, TypeHistory, Threads,
     Resetting, Fresh, Emptied, Receive, latches, ctx, pcs, server
<1>12. CASE Count
  BY <1>12 DEF LatchInForce, TypeCtx, TypeThreads, TypeHistory, Threads,
     Resetting, Fresh, Emptied, Count, latches, ctx, pcs, server
<1>13. CASE Detect
  BY <1>13 DEF LatchInForce, TypeCtx, TypeThreads, TypeHistory, Threads,
     Resetting, Fresh, Emptied, Detect, latches, ctx, pcs, server
<1>14. CASE Describe
  BY <1>14 DEF LatchInForce, TypeCtx, TypeThreads, TypeHistory, Threads,
     Resetting, Fresh, Emptied, Describe, latches, ctx, pcs, server
<1>15. CASE StorePt
  BY <1>15 DEF LatchInForce, TypeCtx, TypeThreads, TypeHistory, Threads,
     Resetting, Fresh, Emptied, StorePt, latches, ctx, pcs, server
<1>16. CASE ExtractParamSets
  <2> USE DEF LatchInForce, TypeCtx, TypeThreads, TypeHistory, Threads,
     Resetting, Fresh, Emptied
  <2>1. resetPc = "none" /\ resetPc' = "none" /\ capPc' = "read"
        /\ shouldStop' = shouldStop /\ described' = described
        /\ rtpPayloadType' = rtpPayloadType
    BY <1>16 DEF ExtractParamSets
  <2>2. since'.pt = IF since.pt = NoPt THEN pkt.stream.pt ELSE since.pt
    BY <1>16 DEF ExtractParamSets
  <2>3. pkt.stream.pt # NoPt
    BY <1>16, PacketType DEF ExtractParamSets, NoPt, Handling
  <2> QED
    BY <1>16, <2>1, <2>2, <2>3 DEF ExtractParamSets
<1>17. CASE Server
  BY <1>17, ServerFrame DEF LatchInForce, TypeCtx, TypeThreads, TypeHistory,
     Threads, Resetting, Fresh, Emptied
<1> QED
  BY <1>1, <1>2, <1>3, <1>4, <1>5, <1>6, <1>7, <1>8, <1>9, <1>10, <1>11,
     <1>12, <1>13, <1>14, <1>15, <1>16, <1>17 DEF Next, Supervisor, Capture,
     Server

\* haveParamSets follows the sets, and the sets what was carried.
LEMMA SetsInForceStep ==
  ASSUME SetsInForce, CodecInForce, TypeCtx, TypeThreads, TypeHistory,
     Threads, Resetting, Next
  PROVE  SetsInForce'
<1>1. CASE ResetStep
  <2> USE DEF SetsInForce, TypeCtx, TypeThreads, TypeHistory, Threads,
     Resetting
  <2>1. CASE resetPc # "sets"
    BY <1>1, <2>1 DEF ResetStep
  <2>2. CASE resetPc = "sets"
    <3>1. haveParamSets' = FALSE /\ sets' = Cleared /\ since' = Nothing
      BY <1>1, <2>2 DEF ResetStep
    <3>2. \A n \in Sets : sets'[n] = NoSet
      BY <3>1 DEF Cleared
    <3>3. ~Complete(codec', sets')
      BY <3>1, NoneComplete
    <3> QED
      BY <3>1, <3>2, <3>3 DEF Nothing
  <2> QED
    BY <2>1, <2>2
<1>2. CASE Start
  BY <1>2 DEF SetsInForce, TypeCtx, TypeThreads, TypeHistory, Threads,
     Resetting, Start, latches, ctx, pcs, server
<1>3. CASE Arm
  BY <1>3 DEF SetsInForce, TypeCtx, TypeThreads, TypeHistory, Threads,
     Resetting, Arm, latches, ctx, pcs, server
<1>4. CASE Spawn
  BY <1>4 DEF SetsInForce, TypeCtx, TypeThreads, TypeHistory, Threads,
     Resetting, Spawn, latches, ctx, pcs, server
<1>5. CASE Stop
  BY <1>5 DEF SetsInForce, TypeCtx, TypeThreads, TypeHistory, Threads,
     Resetting, Stop, latches, ctx, pcs, server
<1>6. CASE Undescribe
  BY <1>6 DEF SetsInForce, TypeCtx, TypeThreads, TypeHistory, Threads,
     Resetting, Undescribe, latches, ctx, pcs, server
<1>7. CASE LoopTop
  BY <1>7 DEF SetsInForce, TypeCtx, TypeThreads, TypeHistory, Threads,
     Resetting, LoopTop, Move, latches, ctx, pcs, server
<1>8. CASE Tune
  BY <1>8 DEF SetsInForce, TypeCtx, TypeThreads, TypeHistory, Threads,
     Resetting, Tune, Move, latches, ctx, pcs, server
<1>9. CASE Reseed
  BY <1>9 DEF SetsInForce, TypeCtx, TypeThreads, TypeHistory, Threads,
     Resetting, Reseed, Move, latches, ctx, pcs, server
<1>10. CASE ReadDone
  BY <1>10 DEF SetsInForce, TypeCtx, TypeThreads, TypeHistory, Threads,
     Resetting, ReadDone, Move, latches, ctx, pcs, server
<1>11. ASSUME NEW p \in Packets, Receive(p) PROVE SetsInForce'
  BY <1>11 DEF SetsInForce, TypeCtx, TypeThreads, TypeHistory, Threads,
     Resetting, Receive, latches, ctx, pcs, server
<1>12. CASE Count
  BY <1>12 DEF SetsInForce, TypeCtx, TypeThreads, TypeHistory, Threads,
     Resetting, Count, latches, ctx, pcs, server
<1>13. CASE Detect
  <2> USE DEF SetsInForce, TypeCtx, TypeThreads, TypeHistory, Threads,
     Resetting
  <2>1. UNCHANGED <<resetPc, haveParamSets, sets, since>>
    BY <1>13 DEF Detect
  <2>2. CASE codec' = codec
    BY <2>1, <2>2
  <2>3. CASE codec' # codec
    <3>1. codec = "Auto" /\ codec' # "Auto"
      BY <1>13, <2>3, SniffType DEF Detect
    <3>2. resetPc = "none" /\ sets = Cleared
      BY <1>13, <3>1 DEF Detect
    <3>3. ~Complete(codec, sets) /\ ~Complete(codec', sets')
      BY <2>1, <3>2, NoneComplete
    <3> QED
      BY <2>1, <3>1, <3>2, <3>3
  <2> QED
    BY <2>2, <2>3
<1>14. CASE Describe
  BY <1>14 DEF SetsInForce, TypeCtx, TypeThreads, TypeHistory, Threads,
     Resetting, Describe, latches, ctx, pcs, server
<1>15. CASE StorePt
  BY <1>15 DEF SetsInForce, TypeCtx, TypeThreads, TypeHistory, Threads,
     Resetting, StorePt, latches, ctx, pcs, server
<1>16. CASE ExtractParamSets
  <2> USE DEF SetsInForce, TypeCtx, TypeThreads, TypeHistory, Threads,
     Resetting
  <2> DEFINE found == IF pkt.size = "full" THEN ParamSet(codec, pkt.byte)
                                           ELSE {}
  <2>1. resetPc = "none" /\ UNCHANGED <<resetPc, codec>>
    BY <1>16 DEF ExtractParamSets
  <2>2. /\ sets' = IF haveParamSets THEN sets
                   ELSE [n \in Sets |-> IF n \in found THEN pkt.stream
                                                       ELSE sets[n]]
        /\ haveParamSets' = (haveParamSets \/ Complete(codec, sets'))
        /\ since'.carried
             = since.carried \cup {<<n, pkt.stream>> : n \in found}
    BY <1>16 DEF ExtractParamSets
  <2>3. pkt.stream \in Streams /\ pkt.stream # NoSet
    BY <1>16, PacketType DEF ExtractParamSets, Handling
  <2>4. found \subseteq Sets /\ (codec = "Auto" => found = {})
        /\ (codec # "Auto" => found \subseteq Needed(codec))
    BY ParamSetNeeded
  <2> HIDE DEF found
  <2>5. haveParamSets' <=> Complete(codec', sets')
    BY <2>1, <2>2
  <2>6. codec' = "Auto" => sets' = Cleared
    BY <2>1, <2>2, <2>4 DEF Cleared
  <2>7. ASSUME NEW n \in Sets
        PROVE  IF sets'[n] # NoSet THEN <<n, sets'[n]>> \in since'.carried
               ELSE \A s \in Streams : <<n, s>> \notin since'.carried
    <3>1. CASE n \notin found
      <4>1. sets'[n] = sets[n]
        BY <2>2, <3>1
      <4>2. \A s : <<n, s>> \in since'.carried <=> <<n, s>> \in since.carried
        BY <2>2, <3>1
      <4> QED
        BY <4>1, <4>2, <2>1
    <3>2. CASE n \in found /\ haveParamSets
      <4>1. n \in Needed(codec) /\ Complete(codec, sets)
        BY <2>1, <2>4, <3>2
      <4>2. sets'[n] = sets[n] /\ sets[n] # NoSet
        BY <2>2, <3>2, <4>1 DEF Complete
      <4> QED
        BY <4>2, <2>1, <2>2
    <3>3. CASE n \in found /\ ~haveParamSets
      BY <2>2, <2>3, <3>3
    <3> QED
      BY <3>1, <3>2, <3>3
  <2> QED
    BY <2>5, <2>6, <2>7
<1>17. CASE Server
  BY <1>17, ServerFrame DEF SetsInForce, TypeCtx, TypeThreads, TypeHistory,
     Threads, Resetting
<1> QED
  BY <1>1, <1>2, <1>3, <1>4, <1>5, <1>6, <1>7, <1>8, <1>9, <1>10, <1>11,
     <1>12, <1>13, <1>14, <1>15, <1>16, <1>17 DEF Next, Supervisor, Capture,
     Server

\* What a request has read stays in force until a reset.
LEMMA SdpInForceStep ==
  ASSUME SdpInForce, LatchInForce, SetsInForce, TypeCtx, TypeThreads,
     TypeServer, Threads, Resetting, Fresh, Next
  PROVE  SdpInForce'
<1>1. CASE ResetStep
  BY <1>1 DEF SdpInForce, TypeCtx, TypeThreads, TypeServer, Threads,
     Resetting, Fresh, Emptied, ResetStep, latches, ctx, pcs, server
<1>2. CASE Start
  BY <1>2 DEF SdpInForce, TypeCtx, TypeThreads, TypeServer, Threads,
     Resetting, Fresh, Emptied, Start, latches, ctx, pcs, server
<1>3. CASE Arm
  BY <1>3 DEF SdpInForce, TypeCtx, TypeThreads, TypeServer, Threads,
     Resetting, Fresh, Emptied, Arm, latches, ctx, pcs, server
<1>4. CASE Spawn
  BY <1>4 DEF SdpInForce, TypeCtx, TypeThreads, TypeServer, Threads,
     Resetting, Fresh, Emptied, Spawn, latches, ctx, pcs, server
<1>5. CASE Stop
  BY <1>5 DEF SdpInForce, TypeCtx, TypeThreads, TypeServer, Threads,
     Resetting, Fresh, Emptied, Stop, latches, ctx, pcs, server
<1>6. CASE Undescribe
  BY <1>6 DEF SdpInForce, TypeCtx, TypeThreads, TypeServer, Threads,
     Resetting, Fresh, Emptied, Undescribe, latches, ctx, pcs, server
<1>7. CASE LoopTop
  BY <1>7 DEF SdpInForce, TypeCtx, TypeThreads, TypeServer, Threads,
     Resetting, Fresh, Emptied, LoopTop, Move, latches, ctx, pcs, server
<1>8. CASE Tune
  BY <1>8 DEF SdpInForce, TypeCtx, TypeThreads, TypeServer, Threads,
     Resetting, Fresh, Emptied, Tune, Move, latches, ctx, pcs, server
<1>9. CASE Reseed
  BY <1>9 DEF SdpInForce, TypeCtx, TypeThreads, TypeServer, Threads,
     Resetting, Fresh, Emptied, Reseed, Move, latches, ctx, pcs, server
<1>10. CASE ReadDone
  BY <1>10 DEF SdpInForce, TypeCtx, TypeThreads, TypeServer, Threads,
     Resetting, Fresh, Emptied, ReadDone, Move, latches, ctx, pcs, server
<1>11. ASSUME NEW p \in Packets, Receive(p) PROVE SdpInForce'
  BY <1>11 DEF SdpInForce, TypeCtx, TypeThreads, TypeServer, Threads,
     Resetting, Fresh, Emptied, Receive, latches, ctx, pcs, server
<1>12. CASE Count
  BY <1>12 DEF SdpInForce, TypeCtx, TypeThreads, TypeServer, Threads,
     Resetting, Fresh, Emptied, Count, latches, ctx, pcs, server
<1>13. CASE Detect
  BY <1>13 DEF SdpInForce, TypeCtx, TypeThreads, TypeServer, Threads,
     Resetting, Fresh, Emptied, Detect, latches, ctx, pcs, server
<1>14. CASE Describe
  BY <1>14 DEF SdpInForce, TypeCtx, TypeThreads, TypeServer, Threads,
     Resetting, Fresh, Emptied, Describe, latches, ctx, pcs, server
<1>15. CASE StorePt
  <2> USE DEF SdpInForce, TypeCtx, TypeThreads, TypeServer, Threads,
     Resetting, Fresh, Emptied
  <2>1. UNCHANGED <<sdp, resetPc, codec, shouldStop, supPc, sets>>
    BY <1>15 DEF StorePt, server
  <2>2. ~shouldStop => rtpPayloadType = NoPt
    BY <1>15 DEF StorePt, LatchInForce, NoPt
  <2>3. ~Emptied'
    BY <1>15 DEF StorePt
  <2> QED
    BY <2>1, <2>2, <2>3
<1>16. CASE ExtractParamSets
  <2> USE DEF SdpInForce, TypeCtx, TypeThreads, TypeServer, Threads,
     Resetting, Fresh, Emptied
  <2>1. UNCHANGED <<sdp, resetPc, codec, shouldStop, supPc, rtpPayloadType>>
    BY <1>16 DEF ExtractParamSets, server
  <2>2. resetPc = "none" /\ (Complete(codec, sets) => sets' = sets)
    BY <1>16 DEF ExtractParamSets, SetsInForce
  <2> QED
    BY <2>1, <2>2
<1>17. CASE SdpCodec
  <2> USE DEF SdpInForce, TypeCtx, TypeThreads, TypeServer, Threads,
     Resetting, Fresh, Emptied
  <2>1. UNCHANGED <<codec, resetPc>> /\ codec # "Auto"
    BY <1>17 DEF SdpCodec, ctx, latches, pcs
  <2>2. sdp'.pc = "pt" /\ sdp'.codec = codec
        /\ (~sdp'.torn => resetPc = "none")
    BY <1>17 DEF SdpCodec, NoRequest
  <2> QED
    BY <2>1, <2>2
<1>18. CASE SdpPt
  <2> USE DEF SdpInForce, TypeCtx, TypeThreads, TypeServer, Threads,
     Resetting, Fresh, Emptied
  <2>1. UNCHANGED <<codec, resetPc, rtpPayloadType>>
    BY <1>18 DEF SdpPt, ctx, latches, pcs
  <2>2. sdp'.pc = "sets" /\ sdp'.codec = sdp.codec /\ sdp'.torn = sdp.torn
        /\ sdp'.pt = IF rtpPayloadType = NoPt THEN DefaultPt
                     ELSE rtpPayloadType
    BY <1>18 DEF SdpPt
  <2> QED
    BY <1>18, <2>1, <2>2 DEF SdpPt
<1>19. CASE SdpSets
  <2> USE DEF SdpInForce, TypeCtx, TypeThreads, TypeServer, Threads,
     Resetting, Fresh, Emptied
  <2>1. UNCHANGED <<codec, resetPc, rtpPayloadType, sets, shouldStop, supPc>>
    BY <1>19 DEF SdpSets, SdpBuild, ctx, latches, pcs
  <2>2. sdp'.pc = "answered" /\ sdp'.codec = sdp.codec /\ sdp'.torn = sdp.torn
        /\ sdp'.pt = sdp.pt
        /\ sdp'.sets = IF Complete(sdp.codec, sets) THEN sets ELSE Cleared
    BY <1>19 DEF SdpSets, SdpBuild
  <2> QED
    BY <1>19, <2>1, <2>2 DEF SdpSets
<1>20. CASE SdpDone
  BY <1>20 DEF SdpInForce, SdpDone, NoRequest
<1>21. CASE Health
  BY <1>21 DEF SdpInForce, TypeCtx, TypeThreads, TypeServer, Threads,
     Resetting, Fresh, Emptied, Health, latches, ctx, pcs, server
<1> QED
  BY <1>1, <1>2, <1>3, <1>4, <1>5, <1>6, <1>7, <1>8, <1>9, <1>10, <1>11,
     <1>12, <1>13, <1>14, <1>15, <1>16, <1>17, <1>18, <1>19, <1>20, <1>21 DEF
     Next, Supervisor, Capture, Server

\* The counter passes the count of the last poll with each packet.
LEMMA PollInForceStep ==
  ASSUME PollInForce, TypeCtx, TypeServer, TypeHistory, Next
  PROVE  PollInForce'
<1>1. CASE ResetStep
  BY <1>1 DEF PollInForce, TypeCtx, TypeServer, TypeHistory, Streaming,
     ResetStep, latches, ctx, pcs, server
<1>2. CASE Start
  BY <1>2 DEF PollInForce, TypeCtx, TypeServer, TypeHistory, Streaming,
     Start, latches, ctx, pcs, server
<1>3. CASE Arm
  BY <1>3 DEF PollInForce, TypeCtx, TypeServer, TypeHistory, Streaming, Arm,
     latches, ctx, pcs, server
<1>4. CASE Spawn
  BY <1>4 DEF PollInForce, TypeCtx, TypeServer, TypeHistory, Streaming,
     Spawn, latches, ctx, pcs, server
<1>5. CASE Stop
  BY <1>5 DEF PollInForce, TypeCtx, TypeServer, TypeHistory, Streaming, Stop,
     latches, ctx, pcs, server
<1>6. CASE Undescribe
  BY <1>6 DEF PollInForce, TypeCtx, TypeServer, TypeHistory, Streaming,
     Undescribe, latches, ctx, pcs, server
<1>7. CASE LoopTop
  BY <1>7 DEF PollInForce, TypeCtx, TypeServer, TypeHistory, Streaming,
     LoopTop, Move, latches, ctx, pcs, server
<1>8. CASE Tune
  BY <1>8 DEF PollInForce, TypeCtx, TypeServer, TypeHistory, Streaming, Tune,
     Move, latches, ctx, pcs, server
<1>9. CASE Reseed
  BY <1>9 DEF PollInForce, TypeCtx, TypeServer, TypeHistory, Streaming,
     Reseed, Move, latches, ctx, pcs, server
<1>10. CASE ReadDone
  BY <1>10 DEF PollInForce, TypeCtx, TypeServer, TypeHistory, Streaming,
     ReadDone, Move, latches, ctx, pcs, server
<1>11. ASSUME NEW p \in Packets, Receive(p) PROVE PollInForce'
  BY <1>11 DEF PollInForce, TypeCtx, TypeServer, TypeHistory, Streaming,
     Receive, latches, ctx, pcs, server
<1>12. CASE Count
  BY <1>12 DEF PollInForce, TypeCtx, TypeServer, TypeHistory, Streaming,
     Count, latches, ctx, pcs, server
<1>13. CASE Detect
  BY <1>13 DEF PollInForce, TypeCtx, TypeServer, TypeHistory, Streaming,
     Detect, latches, ctx, pcs, server
<1>14. CASE Describe
  BY <1>14 DEF PollInForce, TypeCtx, TypeServer, TypeHistory, Streaming,
     Describe, latches, ctx, pcs, server
<1>15. CASE StorePt
  BY <1>15 DEF PollInForce, TypeCtx, TypeServer, TypeHistory, Streaming,
     StorePt, latches, ctx, pcs, server
<1>16. CASE ExtractParamSets
  BY <1>16 DEF PollInForce, TypeCtx, TypeServer, TypeHistory, Streaming,
     ExtractParamSets, latches, ctx, pcs, server
<1>17. CASE SdpCodec
  BY <1>17 DEF PollInForce, TypeCtx, TypeServer, TypeHistory, Streaming,
     SdpCodec, latches, ctx, pcs, server
<1>18. CASE SdpPt
  BY <1>18 DEF PollInForce, TypeCtx, TypeServer, TypeHistory, Streaming,
     SdpPt, latches, ctx, pcs, server
<1>19. CASE SdpSets
  BY <1>19 DEF PollInForce, TypeCtx, TypeServer, TypeHistory, Streaming,
     SdpSets, latches, ctx, pcs, server
<1>20. CASE SdpDone
  BY <1>20 DEF PollInForce, TypeCtx, TypeServer, TypeHistory, Streaming,
     SdpDone, latches, ctx, pcs, server
<1>21. CASE Health
  <2> USE DEF PollInForce, TypeCtx, TypeServer, TypeHistory, Streaming
  <2>1. lastPkts' = rtpPktCount /\ rtpPktCount' = rtpPktCount
        /\ poll' = Quiet
    BY <1>21 DEF Health, ctx
  <2> QED
    BY <2>1 DEF Quiet
<1> QED
  BY <1>1, <1>2, <1>3, <1>4, <1>5, <1>6, <1>7, <1>8, <1>9, <1>10, <1>11,
     <1>12, <1>13, <1>14, <1>15, <1>16, <1>17, <1>18, <1>19, <1>20, <1>21 DEF
     Next, Supervisor, Capture, Server

-----------------------------------------------------------------------------
(* The invariant, and what follows from it. *)

\* The states the program starts in.
LEMMA StreamInit == Init => StreamInv
<1> SUFFICES ASSUME Init PROVE StreamInv
  OBVIOUS
<1>1. TypeCtx
  <2>1. codec \in {"Auto", "H264", "H265"} /\ codecHint \in Hints
    BY StreamAssumption DEF Init, StreamAssumption
  <2>2. sets \in [Sets -> SetValues]
    BY ClearedType DEF Init
  <2>3. rtpPktCount \in 0..MaxPackets
    BY StreamAssumption DEF Init, StreamAssumption
  <2>4. rtpPayloadType \in -1..127
    BY DEF Init, NoPt
  <2> QED
    BY <2>1, <2>2, <2>3, <2>4 DEF Init, TypeCtx
<1>2. TypeThreads
  BY DEF Init, TypeThreads
<1>3. TypeServer
  BY ClearedType, StreamAssumption
     DEF Init, TypeServer, NoRequest, NoPt, StreamAssumption
<1>4. TypeHistory
  BY DEF Init, TypeHistory, Nothing, Quiet, NoPt, NoByte
<1>5. Threads /\ Resetting /\ Fresh
  BY DEF Init, Threads, Resetting, Fresh, Emptied, Handling
<1>6. CodecInForce
  BY StreamAssumption DEF Init, CodecInForce, Decided, FirstByte, Nothing,
     NoByte, StreamAssumption
<1>7. LatchInForce
  BY DEF Init, LatchInForce, Nothing
<1>8. SetsInForce
  BY NoneComplete DEF Init, SetsInForce, Nothing, Cleared
<1>9. SdpInForce /\ PollInForce
  BY DEF Init, SdpInForce, PollInForce, NoRequest, Streaming, Quiet
<1> QED
  BY <1>1, <1>2, <1>3, <1>4, <1>5, <1>6, <1>7, <1>8, <1>9
     DEF StreamInv, TypeOK

\* A stuttering step changes nothing the invariant speaks of.
LEMMA StreamStutter ==
  ASSUME StreamInv, UNCHANGED vars
  PROVE  StreamInv'
<1>1. TypeOK'
  BY DEF StreamInv, TypeOK, TypeCtx, TypeThreads, TypeServer, TypeHistory,
     vars, ctx, latches, pcs, server
<1>2. Threads' /\ Resetting' /\ Fresh'
  BY DEF StreamInv, Threads, Resetting, Fresh, Emptied, vars, ctx, latches,
     pcs, server
<1>3. CodecInForce' /\ LatchInForce'
  BY DEF StreamInv, CodecInForce, Decided, FirstByte, LatchInForce, vars,
     ctx, latches, pcs, server
<1>4. SetsInForce'
  BY DEF StreamInv, SetsInForce, vars, ctx, latches, pcs, server
<1>5. SdpInForce' /\ PollInForce'
  BY DEF StreamInv, SdpInForce, Emptied, PollInForce, Streaming, vars, ctx,
     latches, pcs, server
<1> QED
  BY <1>1, <1>2, <1>3, <1>4, <1>5 DEF StreamInv

\* Every step of every thread.
LEMMA StreamNext ==
  ASSUME StreamInv, Next
  PROVE  StreamInv'
<1> USE DEF StreamInv, TypeOK
<1>1. TypeOK'
  BY TypeCtxStep, TypeThreadsStep, TypeServerStep, TypeHistoryStep
<1>2. Threads' /\ Resetting' /\ Fresh'
  BY ThreadsStep, ResettingStep, FreshStep
<1>3. CodecInForce' /\ LatchInForce' /\ SetsInForce'
  BY CodecInForceStep, LatchInForceStep, SetsInForceStep
<1>4. SdpInForce' /\ PollInForce'
  BY SdpInForceStep, PollInForceStep
<1> QED
  BY <1>1, <1>2, <1>3, <1>4

\* StreamInv holds in every state the three threads can reach: it is what
\* makes the latches of OpenPrlxContext agree though each is stored alone.
THEOREM StreamInvariant == Spec => []StreamInv
<1>1. Init => StreamInv
  BY StreamInit
<1>2. StreamInv /\ [Next]_vars => StreamInv'
  BY StreamNext, StreamStutter
<1> QED
  BY <1>1, <1>2, PTL DEF Spec

\* Every variable keeps its type: a payload type is seven bits or unset.
THEOREM StreamTypes == Spec => []TypeOK
<1>1. StreamInv => TypeOK
  BY DEF StreamInv
<1> QED
  BY <1>1, StreamInvariant, PTL

\* Between two packets no thread is in resetDetection for the capture thread,
\* and Start is not while there is one.
LEMMA RestResets ==
  ASSUME StreamInv, AtRest
  PROVE  resetPc = "none" /\ ~Emptied /\ capPc \notin Handling
<1>1. capPc \notin Handling \cup {"none", "tuneReset", "keyReset"}
  BY DEF AtRest, Handling
<1> QED
  BY <1>1 DEF StreamInv, Threads, Emptied

\* handleRtp sniffs the codec from the first payload since the last reset and
\* never again; --codec pins it.
THEOREM FirstPayload == Spec => []FirstPayloadDecides
<1>1. StreamInv => FirstPayloadDecides
  <2> SUFFICES ASSUME StreamInv, AtRest PROVE codec = Decided(since.byte)
    BY DEF FirstPayloadDecides
  <2>1. FirstByte = since.byte
    BY RestResets DEF FirstByte, Handling
  <2> QED
    BY <2>1, RestResets DEF StreamInv, CodecInForce
<1> QED
  BY <1>1, StreamInvariant, PTL

\* In a running session the payload type is that of the first packet since the
\* last reset, though Stop clears `described' beside handleRtp.
THEOREM FirstPacket == Spec => []FirstPacketDescribes
<1>1. StreamInv => FirstPacketDescribes
  <2> SUFFICES ASSUME StreamInv, AtRest, ~shouldStop
               PROVE  /\ described <=> since.pt # NoPt
                      /\ rtpPayloadType = since.pt
    BY DEF FirstPacketDescribes
  <2>1. resetPc = "none" /\ capPc \notin {"pt", "params"}
    BY RestResets DEF Handling
  <2> QED
    BY <2>1 DEF StreamInv, LatchInForce
<1> QED
  BY <1>1, StreamInvariant, PTL

\* storeIfParamSet keeps the sets carried since the last reset, and
\* haveParamSets says exactly that they are complete.
THEOREM SetsDescribed == Spec => []SetsOfThisDescription
<1>1. StreamInv => SetsOfThisDescription
  <2> SUFFICES ASSUME StreamInv, AtRest PROVE SetsOfThisDescription
    BY DEF SetsOfThisDescription
  <2>1. resetPc = "none"
    BY RestResets
  <2> QED
    BY <2>1 DEF StreamInv, SetsInForce, SetsOfThisDescription
<1> QED
  BY <1>1, StreamInvariant, PTL

\* An SDP that no resetDetection overtook agrees with the description in
\* force, although handleSdp reads codec, payload type and sets one by one.
THEOREM SdpConsistent == Spec => []UntornSdpIsConsistent
<1>1. StreamInv => UntornSdpIsConsistent
  BY DEF StreamInv, SdpInForce, UntornSdpIsConsistent
<1> QED
  BY <1>1, StreamInvariant, PTL

\* /health says "streaming" exactly if a packet was counted since the previous
\* poll, unless a session was started in between.
THEOREM StreamingExact == Spec => []StreamingWithinSession
<1>1. StreamInv => StreamingWithinSession
  BY DEF StreamInv, PollInForce, StreamingWithinSession
<1> QED
  BY <1>1, StreamInvariant, PTL

=============================================================================
