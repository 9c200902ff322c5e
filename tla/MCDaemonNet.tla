---------------------------- MODULE MCDaemonNet ----------------------------
(***************************************************************************)
(* Small networks of daemons for TLC.  The daemons of one host find the    *)
(* ports from 65090 (daemon.cpp:211) upwards; daemons of several hosts may *)
(* all have the default port's successor and know each other by --peer.    *)
(***************************************************************************)
EXTENDS DaemonNet, TLC

CONSTANTS d1, d2, d3, alice, bob, a1, a2, b1

\* Daemons of one host take the ports from the default one upwards, and so
\* have those below as default peers; daemons below it have none.
PortFrom(first) == [d \in Daemons |-> CASE d = d1 -> first
                                        [] d = d2 -> first + 1
                                        [] d = d3 -> first + 2]
PortOnHost == PortFrom(65090)
PortBelow  == PortFrom(65080)

\* --peer arguments: none, d1 knows d2 and itself, a chain, everyone.
NoArgs      == [d \in Daemons |-> {}]
OneKnowsTwo == [d \in Daemons |-> IF d = d1 THEN {d1, d2} ELSE {}]
Chain       == [d \in Daemons |-> CASE d = d1 -> {}
                                    [] d = d2 -> {d1}
                                    [] d = d3 -> {d2}]
Mesh        == [d \in Daemons |-> Daemons]

\* The ads of the two users; a2 is an ad whose document lost its author.
PosterOfAd == [a \in Ads |-> IF a = b1 THEN bob ELSE alice]
AuthorOfAd == [a \in Ads |-> IF a = a2 THEN NoUser ELSE PosterOfAd[a]]

\* Databases at the start.
EmptyDb   == [d \in Daemons |-> {}]
HersAtD1  == [d \in Daemons |-> IF d = d1 THEN Ads \ {b1} ELSE {}]
AllAtD1   == [d \in Daemons |-> IF d = d1 THEN Ads ELSE {}]
OneAdEach == [d \in Daemons |-> CASE d = d1 -> Ads \ {b1}
                                  [] d = d2 -> Ads \cap {b1}
                                  [] OTHER -> {}]
=============================================================================
