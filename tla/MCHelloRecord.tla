--------------------------- MODULE MCHelloRecord ---------------------------
(* Record lengths around the boundaries of the length's two bytes. *)
EXTENDS HelloRecord

ShortBodies == 200..600
=============================================================================
