---------------------------- MODULE MCPublicAPI ----------------------------
(* Instances of PublicAPI for TLC. *)
EXTENDS PublicAPI

Faster   == [op |-> "retime", tempo |-> 2]
Start    == [op |-> "play", on |-> TRUE]
Follow   == [op |-> "follow", on |-> TRUE]
Leaving  == [op |-> "enable", on |-> FALSE]
Entering == [op |-> "enable", on |-> TRUE]

PeerState(tempo, on, number) ==
  <<[op |-> "retime", tempo |-> tempo], [op |-> "transport", on |-> on],
    [op |-> "members", number |-> number]>>

FewCommands == {Start, Follow, Leaving}
AllCommands == {Faster, Start, Follow, Leaving, Entering}
Comings     == {PeerState(2, TRUE, 1), PeerState(2, FALSE, 0)}
===========================================================================
