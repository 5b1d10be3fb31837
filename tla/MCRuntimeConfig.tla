--------------------------- MODULE MCRuntimeConfig ---------------------------
(* Small instances of RuntimeConfig: a file with two bots and no number, and   *)
(* admins who add a bot without a token or twice, remove one, swap the two.    *)
EXTENDS RuntimeConfig

CONSTANTS k1, k2

MCFile == [bots |-> <<k1, k2>>, limit |-> 0, auth |-> LoginUrl]
MCBotLists == {<<k1>>, <<k1, k1>>, <<k2, NoToken>>}
=============================================================================
