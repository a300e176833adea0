-------------------------------- MODULE MCKcpMux -------------------------------
(* KcpMux on a small instance.  The convs are 0x183, 0xFF83 and 0x1FF83:    *)
(* the key of b and c is the same, and ParseConv makes it of conv a too.    *)
EXTENDS KcpMuxInv, TLC

CONSTANTS a, b, c

Convs == a :> 387 @@ b :> 65411 @@ c :> 130947
=============================================================================
