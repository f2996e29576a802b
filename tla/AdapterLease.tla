---------------------------- MODULE AdapterLease ----------------------------
(***************************************************************************)
(* What the threads of the daemon promise about the Wi-Fi adapter, without *)
(* their program counters, flags and mailbox: the adapter is on lease to   *)
(* one of them at a time. The starter (WFBReceiver::Start, on the          *)
(* supervisor thread) takes the lease with nothing open, acquires the      *)
(* libusb handles one by one, and either gives everything back or hands    *)
(* the complete set over to the capture thread, which gives it back at its *)
(* end.                                                                    *)
(***************************************************************************)

VARIABLES
  owner,   \* who may use the handles
  held     \* the handles that are open

leaseVars == <<owner, held>>

\* The libusb context, the opened device, the claimed interface.
Handles == {"ctx", "dev", "claimed"}

Init == owner = "nobody" /\ held = {}

Take == owner = "nobody" /\ owner' = "starter" /\ UNCHANGED held

Acquire(h) ==
  /\ owner = "starter" /\ h \notin held
  /\ held' = held \cup {h}
  /\ UNCHANGED owner

HandOver ==
  /\ owner = "starter" /\ held = Handles
  /\ owner' = "capture"
  /\ UNCHANGED held

GiveBack == owner # "nobody" /\ owner' = "nobody" /\ held' = {}

Next == Take \/ (\E h \in Handles : Acquire(h)) \/ HandOver \/ GiveBack

Spec == Init /\ [][Next]_leaseVars

=============================================================================
