--------------------------- MODULE MCLinkDelivery ---------------------------
EXTENDS LinkDelivery

CONSTANTS host, join, none

MCBytes == [c \in {host, join} |-> IF c = host THEN { <<0, 1>> } ELSE { <<1, 1>> }]
MCArm   == { [start |-> TRUE, internal |-> TRUE, fast |-> FALSE],
             [start |-> TRUE, internal |-> FALSE, fast |-> FALSE] }
MCNone  == [c \in {host, join} |-> 0]
MCOnce  == [c \in {host, join} |-> 1]
MCHostTwice == [c \in {host, join} |-> IF c = host THEN 2 ELSE 1]
MCJoinOnce  == [c \in {host, join} |-> IF c = host THEN 0 ELSE 1]

\* Of the two a second request or a lost packet.
Bounded == losses' = 0 \/ ep'[host].next <= 1

BoundedSpec ==
    DeliveryInit /\ [][DeliveryNext /\ Steady /\ Patient /\ AccurateRetries
                       /\ QuietResets /\ Bounded]_deliveryVars
=============================================================================
