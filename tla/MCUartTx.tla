------------------------------ MODULE MCUartTx ------------------------------
(* Two byte values, messages of one to three bytes and a ring of three, so  *)
(* that messages are cut short when the ring fills behind a transfer.       *)
EXTENDS UartTx

CONSTANTS b1, b2

MCByte == {b1, b2}
MCMessage == {<<b1>>, <<b2, b1>>, <<b1, b1, b2>>}
=============================================================================
