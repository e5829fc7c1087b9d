------------------------------- MODULE GpioMC -------------------------------
(***************************************************************************)
(* Gpio with pin 21, the one raspdif uses, and neighbours of it: 20 shares     *)
(* all its registers, 31 all but the function select, 40 none of them.         *)
(***************************************************************************)
EXTENDS Gpio

AllConfigs == [function : {"af0"}, event_detect : Detects, pull : {"no_change", "up"}]
=============================================================================
