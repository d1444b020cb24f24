----------------------------- MODULE MCDevices -----------------------------
(* Three devices, two of which have the same name; a registry that devices *)
(* added twice can fill, and an array with two entries for them; paths of  *)
(* either name, of an unknown one, and the name without the prefix.        *)
EXTENDS Devices, TLC

CONSTANTS uart1, uart2, spi

MCName == uart1 :> "uart" @@ uart2 :> "uart" @@ spi :> "spi"

Path(prefix, rest) == [prefix |-> prefix, rest |-> rest]

MCPaths == {Path(TRUE, "uart"), Path(TRUE, "spi"), Path(TRUE, "i2c"), Path(FALSE, "uart")}
=============================================================================
