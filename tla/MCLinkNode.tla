---------------------------- MODULE MCLinkNode ----------------------------
(* Instances of LinkNode for TLC. *)
EXTENDS LinkNode

\* Timelines of tempo 1 or 2 with their beat 0 at anchor 0.
Tl(tempo, origin) == [tempo |-> tempo, origin |-> origin, anchor |-> 0]
Said(playing, at) == [playing |-> playing, at |-> at]

OneTimeline == {Tl(2, 1)}
RivalTimelines == {Tl(1, 0), Tl(2, 1), Tl(1, 1)}
Transports3 == {NoTransport, Said(TRUE, 1), Said(FALSE, 2)}
NoTransports == {NoTransport}

===========================================================================
