---------------------------- MODULE MCLinkClient ----------------------------
(* Instances of LinkClient for TLC. *)
EXTENDS LinkClient

Typed  == [op |-> "retime", tempo |-> 2]
Starts == [op |-> "play", on |-> TRUE]
Leaves == [op |-> "enable", on |-> FALSE]

PeerState(tempo, on, number) ==
  <<[op |-> "retime", tempo |-> tempo], [op |-> "transport", on |-> on],
    [op |-> "members", number |-> number]>>

Keys    == {Starts, Leaves}
Comings == {PeerState(2, FALSE, 1)}
===========================================================================
