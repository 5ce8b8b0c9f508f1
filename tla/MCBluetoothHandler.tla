------------------------- MODULE MCBluetoothHandler -------------------------
(* The Bluetooth popup by itself: two scans. *)
EXTENDS BluetoothHandler
=============================================================================
