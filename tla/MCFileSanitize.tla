--------------------------- MODULE MCFileSanitize ---------------------------
(* A small instance of the file engine.  Bus and media types play no role   *)
(* in it.                                                                   *)
EXTENDS FileSanitize

MCBusTypes == {"NVME"}
MCMediaTypes == {"SSD"}
=============================================================================
