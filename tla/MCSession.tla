------------------------------ MODULE MCSession ------------------------------
(* Small instances of Session for TLC. *)
EXTENDS Session

CONSTANTS c1, c2, a1, k1

MCChannels == {c1, c2}
MCOneChannel == {c1}
MCAdapters == {a1}
MCKeys == {k1}
MCNoKeys == {}

\* Bodies that set the adapter or clear it, or not; the empty body; bodies that
\* set the channel.
MCAdapterBodies == {[vidpid |-> v, channel |-> Absent] :
                       v \in MCAdapters \cup {NoAdapter, Absent}}
MCEmptyBody == {NoPatch}
MCChannelBodies == {[vidpid |-> Absent, channel |-> c] : c \in MCChannels}

=============================================================================
