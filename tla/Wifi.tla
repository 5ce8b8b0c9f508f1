-------------------------------- MODULE Wifi --------------------------------
(***************************************************************************)
(* WifiController, WifiMonitor and WifiViewModel, and the NetworkManager   *)
(* they drive over D-Bus.                                                  *)
(*                                                                         *)
(* All three live on the GUI thread.  Their calls to the NetworkManager    *)
(* are asynchronous and handled in the order they were made; its replies   *)
(* and signals come back in order too, but any time later.  A device's     *)
(* path in the NetworkManager stands for its interface.                    *)
(*                                                                         *)
(* Passwords, signal strengths, the list of networks, the interface's      *)
(* address and the status messages nobody is connected to are left out.    *)
(* So is connectToWifiImpl()'s waiting for the replies to the calls by     *)
(* which it deletes old profiles: they are handled in order with the rest. *)
(***************************************************************************)
EXTENDS Naturals, Sequences

CONSTANTS
  Iface,       \* WiFi interfaces
  Network,     \* names of networks there are
  None,        \* no interface, no connection
  MaxAsked,    \* bound: things the user asks for
  MaxWaiting   \* bound: messages of the NetworkManager that wait

VARIABLES
  mode,          \* m_mode of the view model, and Type of the configuration
  selected,      \* m_selectedInterface of the view model
  connected,     \* m_connected of the view model
  scanStatus,    \* m_scanStatus of the view model
  currentIface,  \* m_currentIface of the controller
  currentMode,   \* m_currentMode of the controller
  devicePath,    \* m_wifiDevicePath of the controller
  clientSsid,    \* ClientSSID of the configuration
  interface,     \* m_currentInterface of the monitor
  monitored,     \* m_wifiDevicePath of the monitor
  watching,      \* the monitor has connected to the device's signals
  refreshes,     \* singleShot timers that call refreshAccessPoints()
  lost,          \* history: a query of the access points failed
  calls,         \* calls the NetworkManager has not handled
  messages,      \* replies and signals the GUI thread has not handled
  conn,          \* of each interface: what it is connected to, or connecting
  active,        \* interfaces whose connection is up (state 100)
  wanted,        \* history: the connection asked for last, and on what
  accepted,      \* history: the NetworkManager agreed to that
  asked          \* things the user asked for so far

viewVars == <<mode, selected, connected, scanStatus>>
controllerVars == <<currentIface, currentMode, devicePath, clientSsid>>
monitorVars == <<interface, monitored, watching, refreshes, lost>>
managerVars == <<conn, active, accepted>>
vars == <<viewVars, controllerVars, monitorVars, managerVars,
          calls, messages, wanted, asked>>

Mode == {"hotspot", "client"}
Connection == {"hotspot"} \cup Network
Call == [call : {"find"}, by : {"controller", "monitor"}, iface : Iface]
  \cup [call : {"activate"}, iface : Iface, path : Iface, conn : Connection]
  \cup [call : {"delete"}, conn : Network]
  \cup [call : {"disconnect", "scan"}, path : Iface]
Message == [reply : {"find"}, by : {"controller", "monitor"}, iface : Iface]
  \cup [reply : {"scan"}, ok : BOOLEAN]
  \cup [signal : BOOLEAN]

TypeOK ==
  /\ mode \in Mode /\ currentMode \in Mode
  /\ selected \in Iface /\ currentIface \in Iface /\ interface \in Iface
  /\ connected \in BOOLEAN
  /\ scanStatus \in {"", "scanning", "failed", "done"}
  /\ devicePath \in Iface \cup {None} /\ monitored \in Iface \cup {None}
  /\ clientSsid \in Network \cup {None}
  /\ watching \in BOOLEAN /\ lost \in BOOLEAN
  /\ refreshes \in Nat
  /\ calls \in Seq(Call) /\ messages \in Seq(Message)
  /\ conn \in [Iface -> Connection \cup {None}] /\ active \subseteq Iface
  /\ wanted \in [conn : Connection \cup {None}, path : Iface \cup {None}]
  /\ accepted \in BOOLEAN
  /\ asked \in 0 .. MaxAsked

-----------------------------------------------------------------------------
(* The controller: what it calls. *)

(* enableHotspotImpl(), and the end of connectToWifiImpl(). *)
Activate(c) ==
  IF devicePath = None THEN <<>>
  ELSE <<[call |-> "activate", iface |-> currentIface,
          path |-> devicePath, conn |-> c]>>

(* The profiles of a network are deleted before one is added. *)
ConnectToWifi(n) ==
  IF devicePath = None THEN <<>>
  ELSE <<[call |-> "delete", conn |-> n]>> \o Activate(n)

Disconnect ==
  IF devicePath = None THEN <<>>
  ELSE <<[call |-> "disconnect", path |-> devicePath]>>

Find(by, i) == <<[call |-> "find", by |-> by, iface |-> i]>>

(* What a mode asks for: the hotspot, or the saved network if there is one. *)
Enter(m) ==
  CASE m = "hotspot"                        -> Activate("hotspot")
    [] m = "client" /\ clientSsid \in Network -> ConnectToWifi(clientSsid)
    [] OTHER                                -> <<>>

(* Fault: the old connection is given up after the new one is asked for. *)
SwitchLate(m) == Enter(m) \o IF m # currentMode THEN Disconnect ELSE <<>>

(* The old connection is given up only when the mode changes. *)
Switch(m) == (IF m # currentMode THEN Disconnect ELSE <<>>) \o Enter(m)

(* The boot: the monitor looks its device up, and applyAllSettings() does  *)
(* and sets the mode at once, while the path is still unknown; so that is  *)
(* all it calls, though it believes to be in that mode.                    *)
Init ==
  /\ mode \in Mode /\ currentMode = mode
  /\ selected \in Iface /\ currentIface = selected
  /\ devicePath = None /\ monitored = None /\ interface = selected
  /\ clientSsid \in Network \cup {None}
  /\ calls = Find("monitor", selected) \o Find("controller", selected)
               \o Switch(mode)
  /\ connected = FALSE /\ scanStatus = ""
  /\ watching = FALSE /\ refreshes = 0 /\ lost = FALSE
  /\ messages = <<>>
  /\ conn \in [Iface -> Network \cup {None}]
  /\ active = {i \in Iface : conn[i] # None}
  /\ wanted = [conn |-> None, path |-> None] /\ accepted = FALSE
  /\ asked = 0

-----------------------------------------------------------------------------
(* The user, through the view model. *)

(* The user asks for something, and the controller calls; when that is for *)
(* a connection, or for none, it is what is wanted from now on.            *)
Ask(sent, c) ==
  /\ asked < MaxAsked
  /\ asked' = asked + 1
  /\ calls' = calls \o sent
  /\ IF sent = <<>> THEN UNCHANGED <<wanted, accepted>>
     ELSE wanted' = [conn |-> c, path |-> devicePath] /\ accepted' = FALSE
  /\ UNCHANGED <<monitorVars, messages, conn, active>>

Target(m) == IF m = "hotspot" THEN m ELSE clientSsid

SetMode(m) ==
  /\ m # mode
  /\ Ask(Switch(m), Target(m))
  /\ mode' = m /\ currentMode' = m
  /\ UNCHANGED <<selected, connected, scanStatus, currentIface, devicePath,
                 clientSsid>>

(* The button is shown in the mode it is for. *)
ApplyHotspot ==
  /\ mode = "hotspot"
  /\ Ask(Switch("hotspot"), "hotspot")
  /\ currentMode' = "hotspot"
  /\ UNCHANGED <<viewVars, currentIface, devicePath, clientSsid>>

ConnectToNetwork(n) ==
  /\ mode = "client"
  /\ Ask(ConnectToWifi(n), n)
  /\ clientSsid' = n
  /\ UNCHANGED <<viewVars, currentIface, currentMode, devicePath>>

DisconnectCurrent ==
  /\ mode = "hotspot" \/ connected
  /\ Ask(Disconnect, None)
  /\ UNCHANGED <<viewVars, controllerVars>>

(* The path is that of the interface before until the reply has come. *)
SetSelectedInterface(i) ==
  /\ i # selected /\ asked < MaxAsked
  /\ asked' = asked + 1
  /\ selected' = i /\ currentIface' = i
  /\ calls' = calls \o Find("controller", i)
  /\ UNCHANGED <<mode, connected, scanStatus, currentMode, devicePath,
                 clientSsid, monitorVars, managerVars, messages, wanted>>

(* A monitor that does not know its device yet looks it up there and then, *)
(* which succeeds, or the scan has failed.                                 *)
RequestScan ==
  /\ asked < MaxAsked
  /\ asked' = asked + 1
  /\ \/ /\ monitored' = IF monitored = None THEN interface ELSE monitored
        /\ scanStatus' = "scanning"
        /\ calls' = Append(calls, [call |-> "scan", path |-> monitored'])
     \/ /\ monitored = None
        /\ scanStatus' = "failed"
        /\ UNCHANGED <<monitored, calls>>
  /\ UNCHANGED <<mode, selected, connected, controllerVars, interface,
                 watching, refreshes, lost, managerVars, messages, wanted>>

-----------------------------------------------------------------------------
(* The GUI thread: what comes back. *)

Took == messages # <<>> /\ messages' = Tail(messages)

(* The replies to setInterface() and findWifiDevice(). *)
DeviceFound ==
  /\ Took
  /\ LET m == Head(messages)
     IN  /\ "iface" \in DOMAIN m
         /\ IF m.by = "controller"
            THEN devicePath' = m.iface /\ UNCHANGED <<monitored, watching>>
            ELSE /\ monitored' = m.iface /\ watching' = TRUE
                 /\ UNCHANGED devicePath
  /\ UNCHANGED <<viewVars, currentIface, currentMode, clientSsid, interface,
                 refreshes, lost, managerVars, calls, wanted, asked>>

OnDeviceStateChanged ==
  /\ Took
  /\ "signal" \in DOMAIN Head(messages)
  /\ connected' = Head(messages).signal
  /\ UNCHANGED <<mode, selected, scanStatus, controllerVars, monitorVars,
                 managerVars, calls, wanted, asked>>

(* Fault: a scan that fails is only logged. *)
ScanRepliedAndDone ==
  /\ Took
  /\ "ok" \in DOMAIN Head(messages)
  /\ refreshes' = IF Head(messages).ok THEN refreshes + 1 ELSE refreshes
  /\ UNCHANGED <<viewVars, controllerVars, interface, monitored,
                 watching, lost,
                 managerVars, calls, wanted, asked>>

(* The access points are queried a while later, even if the scan failed. *)
ScanReplied ==
  /\ Took
  /\ "ok" \in DOMAIN Head(messages)
  /\ scanStatus' = IF Head(messages).ok THEN scanStatus ELSE "failed"
  /\ refreshes' = refreshes + 1
  /\ UNCHANGED <<mode, selected, connected, controllerVars, interface, monitored,
                 watching, lost, managerVars, calls, wanted, asked>>

(* A query that fails leaves the status as it is. *)
RefreshAccessPoints ==
  /\ refreshes > 0
  /\ refreshes' = refreshes - 1
  /\ \/ scanStatus' = "done" /\ UNCHANGED lost
     \/ lost' = TRUE /\ UNCHANGED scanStatus
  /\ UNCHANGED <<mode, selected, connected, controllerVars, interface, monitored,
                 watching, managerVars, calls, messages, wanted, asked>>

GuiThread ==
  DeviceFound \/ OnDeviceStateChanged \/ ScanReplied \/ RefreshAccessPoints

-----------------------------------------------------------------------------
(* The NetworkManager: it handles calls in order, and says so.             *)

Tell(news) == messages' = messages \o news

(* The monitor hears of its own device only. *)
State(i, up) ==
  IF watching /\ i = monitored THEN <<[signal |-> up]>> ELSE <<>>

Untouched == UNCHANGED <<viewVars, controllerVars, monitorVars, wanted, asked>>

Handles(name) == /\ calls # <<>> /\ Head(calls).call = name
                 /\ Len(messages) < MaxWaiting
                 /\ calls' = Tail(calls) /\ Untouched

(* A device that is not found is an error nobody tries again for. *)
Finds ==
  /\ Handles("find")
  /\ LET c == Head(calls)
     IN  Tell(<<[reply |-> "find", by |-> c.by, iface |-> c.iface]>>)
           \/ UNCHANGED messages
  /\ UNCHANGED managerVars

(* A connection whose interface is not the device's is refused, any other  *)
(* may be.  One that is accepted replaces the device's.                    *)
Activates ==
  /\ Handles("activate")
  /\ LET c == Head(calls)
     IN  \/ /\ c.iface = c.path
            /\ conn' = [conn EXCEPT ![c.path] = c.conn]
            /\ active' = active \ {c.path}
            /\ accepted' = TRUE
            /\ Tell(State(c.path, FALSE))
         \/ accepted' = FALSE /\ UNCHANGED <<conn, active, messages>>

(* What used the profile is disconnected. *)
Deletes ==
  /\ Handles("delete")
  /\ LET using == {i \in Iface : conn[i] = Head(calls).conn}
     IN  /\ conn' = [i \in Iface |-> IF i \in using THEN None ELSE conn[i]]
         /\ active' = active \ using
         /\ Tell(IF monitored \in using THEN State(monitored, FALSE) ELSE <<>>)
  /\ UNCHANGED accepted

Disconnects ==
  /\ Handles("disconnect")
  /\ LET i == Head(calls).path
     IN  /\ conn' = [conn EXCEPT ![i] = None] /\ active' = active \ {i}
         /\ Tell(IF conn[i] # None THEN State(i, FALSE) ELSE <<>>)
  /\ UNCHANGED accepted

Scans ==
  /\ Handles("scan")
  /\ \E ok \in BOOLEAN : Tell(<<[reply |-> "scan", ok |-> ok]>>)
  /\ UNCHANGED managerVars

(* A connection comes up. *)
ComesUp(i) ==
  /\ conn[i] # None /\ i \notin active /\ Len(messages) < MaxWaiting
  /\ active' = active \cup {i} /\ Tell(State(i, TRUE))
  /\ Untouched /\ UNCHANGED <<conn, accepted, calls>>

(* One fails, or its network is gone: it is what was asked for no more.    *)
GoesDown(i) ==
  /\ conn[i] # None /\ Len(messages) < MaxWaiting
  /\ conn' = [conn EXCEPT ![i] = None] /\ active' = active \ {i}
  /\ accepted' = (accepted /\ wanted.path # i)
  /\ Tell(State(i, FALSE))
  /\ Untouched /\ UNCHANGED calls

NetworkManager ==
  Finds \/ Activates \/ Deletes \/ Disconnects \/ Scans

Next ==
  \/ GuiThread \/ NetworkManager
  \/ \E i \in Iface : ComesUp(i) \/ GoesDown(i) \/ SetSelectedInterface(i)
  \/ \E m \in Mode : SetMode(m)
  \/ \E n \in Network : ConnectToNetwork(n)
  \/ ApplyHotspot \/ DisconnectCurrent \/ RequestScan

Spec == Init /\ [][Next]_vars

(* The GUI thread and the NetworkManager run.  Networks and users owe      *)
(* nothing.                                                                *)
Fairness == WF_vars(GuiThread) /\ WF_vars(NetworkManager)

FairSpec == Spec /\ Fairness

-----------------------------------------------------------------------------
(* Properties. *)

(* When the NetworkManager has handled all it was called for, a device     *)
(* carries the connection that was asked for last, if that was accepted:   *)
(* neither the disconnection of a change of mode nor the deletion of old   *)
(* profiles, both asynchronous, comes after the connection they make room  *)
(* for.                                                                    *)
LastRequestStands ==
  calls = <<>> /\ accepted => conn[wanted.path] = wanted.conn

(* A scan that was begun comes to an end for the user, be it refused, fail *)
(* or overtake another, unless the networks it found cannot be queried.    *)
ScanSettles == scanStatus = "scanning" ~> (scanStatus # "scanning" \/ lost)

(* "On Linux, connection state is tracked accurately by the NM D-Bus       *)
(* StateChanged signal", as the monitor says: with nothing on its way, the *)
(* user is told whether the monitored device is connected.                 *)
ConnectedIsAccurate ==
  watching /\ calls = <<>> /\ messages = <<>>
    => (connected <=> monitored \in active)
=============================================================================
