--------------------------- MODULE MCCredentials ----------------------------
(* Two of each credential.  The second PUK begins like a PIN, and a byte of *)
(* a PIN may look like a retry limit.                                       *)
EXTENDS Credentials

MCPins == {<<1>>, <<2>>}
MCPuks == {<<2, 2>>, <<1, 3>>}
MCSecrets == {<<1>>, <<3>>}
=============================================================================
