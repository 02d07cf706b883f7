--------------------------- MODULE MCUsbTethering ---------------------------
(* UsbTethering for TLC: three calls of start_tethering and two readers.   *)
EXTENDS UsbTethering
=============================================================================
