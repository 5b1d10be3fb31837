-------------------------- MODULE MCTelegramGateway --------------------------
(* A small instance of TelegramGateway: a user who talks to the second bot and *)
(* sends a command to the first, and one who sends a command in a group.       *)
EXTENDS TelegramGateway

CONSTANTS u1, u2, u3, v1, v2, g, k1, k2, k3

MCFrom == [u \in Updates |-> IF u = u2 THEN v2 ELSE v1]
MCChat == [u \in Updates |-> IF u = u2 THEN g ELSE v1]
MCAddressed == [u \in Updates |-> IF u = u1 THEN k2 ELSE k1]
MCKind == [u \in Updates |-> IF u = u1 THEN "text" ELSE "command"]
MCFileBots == <<k1, k2>>
MCBotLists == {<<k2, k3>>}
Symmetric == Permutations(Deliveries)
=============================================================================
