------------------------------ MODULE MCRadio ------------------------------
(* Small instances of Radio for TLC. *)
EXTENDS RadioInvariant

\* Two adapters whose programs differ in every place the adapter decides.
MCBoards == {[cCut |-> FALSE, oneT |-> TRUE, lna2G |-> FALSE],
             [cCut |-> TRUE, oneT |-> FALSE, lna2G |-> FALSE]}

\* Both bands and their corners: 2 has the center 0 at 40 MHz; 13 is 11 at
\* 40 MHz and has the workaround of its own at 20; 36 is where the bring-up
\* leaves the radio.
MCChannels == {2, 13, 36}

\* Before its first assignment a member may hold the very channel it is set to.
MCGarbage == {0, 36}

=============================================================================
