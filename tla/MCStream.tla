------------------------------- MODULE MCStream -------------------------------
(* Small instances of Stream for TLC. *)
EXTENDS Stream

A == [codec |-> "H264", pt |-> 97]
B == [codec |-> "H265", pt |-> 98]
C == [codec |-> "H264", pt |-> 99]
MCStreams == {A, B, C}

\* Every stream on one channel, or one on each.
MCOneChannel == {Streams}
MCOwnChannel == {{s} : s \in Streams}

Short(s) == [stream |-> s, size |-> "short", byte |-> 0]
Header(s) == [stream |-> s, size |-> "header", byte |-> 0]
Full(s, b) == [stream |-> s, size |-> "full", byte |-> b]

\* A packet cut short, one without payload, H.264 SPS and PPS of one stream, a
\* PPS of another, an H.265 PPS.
MCPackets == {Short(A), Header(B), Full(A, 103), Full(A, 104), Full(C, 104),
              Full(B, 68)}

\* The SPS and PPS of two streams.
MCSetPackets == {Full(s, b) : s \in {A, C}, b \in {103, 104}}

MCHints == {"Auto", "H265"}
MCAuto == {"Auto"}
MCRequests == {"sdp", "health"}
MCSdp == {"sdp"}

=============================================================================
