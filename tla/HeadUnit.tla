------------------------------ MODULE HeadUnit ------------------------------
(***************************************************************************)
(* The head unit beside the projection: updates of its software            *)
(* (UpdateManager, which is extended), the Bluetooth server phones ask for *)
(* the WiFi (AndroidBluetoothServer), and the WiFi (Wifi).                 *)
(*                                                                         *)
(* As in Outputs a behaviour picks the one it exercises: they share no     *)
(* state.                                                                  *)
(***************************************************************************)
EXTENDS UpdateManager

CONSTANTS
  MaxClients, MaxMessages, MaxLength,            \* of the server
  Iface, Network, None, MaxAsked, MaxWaiting     \* of the WiFi

ASSUME ServerAssumption ==
  MaxClients \in Nat /\ MaxMessages \in Nat /\ MaxLength \in Nat
ASSUME WifiAssumption == MaxAsked \in Nat

VARIABLES
  exercised, \* what moves in this behaviour
  client, clean, sent, wire, buffer, handled, responses,
  mode, selected, connected, scanStatus, currentIface, currentMode,
  devicePath, clientSsid, interface, monitored, watching, refreshes, lost,
  calls, messages, conn, active, wanted, accepted, asked

Bluetooth == INSTANCE AndroidBluetoothServer

Wifi == INSTANCE Wifi

updateVars == vars
bluetoothVars == <<client, clean, sent, wire, buffer, handled, responses>>
wifiVars ==
  <<mode, selected, connected, scanStatus, currentIface, currentMode,
    devicePath, clientSsid, interface, monitored, watching, refreshes, lost,
    calls, messages, conn, active, wanted, accepted, asked>>
HeadUnitVars == <<exercised, updateVars, bluetoothVars, wifiVars>>

(* What does not move has one initial state. *)
HeadUnitInit ==
  /\ exercised \in {"updates", "bluetooth", "wifi"}
  /\ Init /\ Bluetooth!Init /\ Wifi!Init
  /\ exercised # "updates" => ~bundle
  /\ exercised # "wifi" =>
       /\ mode = "client" /\ selected = (CHOOSE i \in Iface : TRUE)
       /\ clientSsid = None /\ active = {}

HeadUnitNext ==
  /\ UNCHANGED exercised
  /\ \/ exercised = "updates" /\ Next /\ UNCHANGED <<bluetoothVars, wifiVars>>
     \/ exercised = "bluetooth" /\ Bluetooth!Next
        /\ UNCHANGED <<updateVars, wifiVars>>
     \/ exercised = "wifi" /\ Wifi!Next
        /\ UNCHANGED <<updateVars, bluetoothVars>>

(* The threads that run in what moves, as the fairness of each has them.   *)
(* The boot leaves both something to do, so the others are excused.        *)
HeadUnitSpec ==
  /\ HeadUnitInit /\ [][HeadUnitNext]_HeadUnitVars
  /\ WF_updateVars(exercised = "updates" /\ WorkerThread)
  /\ WF_updateVars(exercised = "updates" /\ Signals)
  /\ WF_updateVars(exercised = "updates" /\ Transfers)
  /\ WF_updateVars(exercised = "updates" /\ InstallerEnds)
  /\ WF_wifiVars(exercised = "wifi" /\ Wifi!GuiThread)
  /\ WF_wifiVars(exercised = "wifi" /\ Wifi!NetworkManager)

HeadUnitTypeOK ==
  /\ exercised \in {"updates", "bluetooth", "wifi"}
  /\ TypeOK /\ Bluetooth!TypeOK /\ Wifi!TypeOK

-----------------------------------------------------------------------------
(* The properties of the server and of the WiFi, as their modules state    *)
(* them.                                                                   *)

(* However the stream is cut, messages are handled as they were sent.      *)
HandledAsSent == Bluetooth!HandledAsSent

(* The connection asked for last is the one the device carries.            *)
LastRequestStands == Wifi!LastRequestStands

(* A scan comes to an end for the user.                                    *)
ScanSettles == Wifi!ScanSettles
=============================================================================
