---------------------- MODULE MCAndroidBluetoothServer ----------------------
(* AndroidBluetoothServer with two phones, and three messages each. *)
EXTENDS AndroidBluetoothServer
=============================================================================
