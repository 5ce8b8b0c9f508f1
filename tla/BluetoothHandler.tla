-------------------------- MODULE BluetoothHandler --------------------------
(***************************************************************************)
(* BluetoothHandler, behind the Bluetooth popup: scanning for devices and  *)
(* their names, pairing, connecting, the adapter and who can see it;       *)
(* BluetoothAgent, which BlueZ asks when a device pairs; and               *)
(* LocalBluetoothDevice, with which every projection makes an adapter      *)
(* visible, the one that the configuration names.                          *)
(*                                                                         *)
(* Everything runs on the GUI thread, and calls to BlueZ wait for their    *)
(* answers, so a slot is an action.  What interleaves are the user, the    *)
(* projections, the signals of Qt's discovery agent and of BlueZ, and the  *)
(* single-shot timers each scan leaves behind: they do not know which scan *)
(* is theirs.                                                              *)
(*                                                                         *)
(* A device is listed without a name, with the name it gave, or with its   *)
(* alias, which BlueZ makes of the address and never leaves empty.         *)
(*                                                                         *)
(* Times are left out but for one fact: on BlueZ the discovery agent ends  *)
(* a scan by itself after the 5 s of setLowEnergyDiscoveryTimeout(), so    *)
(* the stop after 12 s finds its own scan ended, and may find another.     *)
(***************************************************************************)
EXTENDS Naturals, FiniteSets

CONSTANTS
  Device,      \* phones, by their addresses
  Adapter,     \* the head unit's adapters
  None,        \* no device and no adapter: not one of them
  MaxScans,    \* bound: scans the user starts
  MaxErrors,   \* bound: scans that end with an error
  MaxRequests  \* bound: pairings, connections and the like the user asks for

Constants ==
  /\ None \notin Device \cup Adapter
  /\ MaxScans \in Nat /\ MaxErrors \in Nat /\ MaxRequests \in Nat

VARIABLES
  listed,    \* addresses in m_devices
  paired,    \* those marked paired,
  connected, \* connected,
  named,     \* those with the name they gave,
  aliased,   \* and those with their alias for a name
  ignored,   \* m_ignoredDevices
  saved,     \* PairedDeviceAddress of the configuration
  status,    \* m_bluetoothConnectionStatus
  settling,  \* the automatic connection is still to come
  objects,   \* BlueZ: the devices it has objects for,
  bonded,    \* those that are paired,
  resolved,  \* those whose name it knows,
  answers,   \* whether it answers,
  reachable, \* and the devices that are there
  pairing,   \* the device that is being paired, or None
  overlay,   \* the popup asks for a confirmation
  scanning,  \* m_isScanning
  agent,     \* the discovery agent is running
  stops,     \* 12-second timers that have not fired
  passes,    \* passes for names that are still to come
  adapter,   \* the address of localDevice_, or None if that is not valid
  configured,\* AdapterAddress of the configuration, or None
  hostMode,  \* of each adapter
  mode,      \* m_pairingModeEnabled
  registered,\* BlueZ has the pairing agent
  left,      \* history: adapters that were in use, and left for another
  failed,    \* history: an adapter that was chosen was not there
  scans, errors, requests

listVars == <<listed, paired, connected, named, aliased, ignored>>
bluezVars == <<objects, bonded, resolved, answers, reachable>>
linkVars == <<saved, status, settling>>
pairVars == <<pairing, overlay>>
scanVars == <<scanning, agent, stops, passes>>
pastVars == <<left, failed>>
adapterVars == <<adapter, configured, hostMode, mode, registered, pastVars>>
boundVars == <<scans, errors, requests>>
vars == <<listVars, bluezVars, linkVars, pairVars, scanVars, adapterVars,
          boundVars>>

HostMode == {"off", "connectable", "discoverable"}

TypeOK ==
  /\ listed \subseteq Device /\ paired \subseteq listed
  /\ connected \subseteq listed /\ named \subseteq listed
  /\ aliased \subseteq listed \ named
  /\ ignored \subseteq Device /\ saved \in Device \cup {None}
  /\ status \in {"not_configured", "connected", "disconnected"}
  /\ settling \in BOOLEAN
  /\ objects \subseteq Device /\ bonded \subseteq objects
  /\ resolved \subseteq objects
  /\ answers \in BOOLEAN /\ reachable \subseteq Device
  /\ pairing \in Device \cup {None} /\ overlay \in BOOLEAN
  /\ scanning \in BOOLEAN /\ agent \in BOOLEAN
  /\ stops \in 0..MaxScans /\ passes \in 0..(2 * MaxScans)
  /\ adapter \in Adapter \cup {None} /\ configured \in Adapter \cup {None}
  /\ hostMode \in [Adapter -> HostMode]
  /\ mode \in BOOLEAN /\ registered \in BOOLEAN
  /\ left \subseteq Adapter /\ failed \in BOOLEAN
  /\ scans \in 0..MaxScans /\ errors \in 0..MaxErrors
  /\ requests \in 0..MaxRequests

(* loadPairedDevicesFromBlueZ(): what BlueZ has paired, if it answers, with *)
(* name or alias, and connected if BlueZ says so.                          *)
LoadedDevices == IF answers THEN bonded ELSE {}

(* The constructor.  The adapter is the one of the configuration, or the   *)
(* default one, which is noted only if nothing was; if there is one it is  *)
(* powered and made discoverable.  The others are as BlueZ left them.      *)
Init ==
  /\ bonded \in SUBSET Device /\ objects = bonded /\ resolved \in SUBSET bonded
  /\ answers \in BOOLEAN /\ reachable \in SUBSET Device
  /\ listed = LoadedDevices /\ paired = listed
  /\ named = listed \cap resolved /\ aliased = listed \ resolved
  /\ connected \in SUBSET (listed \cap reachable) /\ ignored = {}
  /\ saved \in bonded \cup {None}
  /\ status = "not_configured" /\ settling = TRUE
  /\ pairing = None /\ overlay = FALSE
  /\ scanning = FALSE /\ agent = FALSE /\ stops = 0 /\ passes = 0
  /\ configured \in Adapter \cup {None}
  /\ adapter \in IF configured = None THEN {None} ELSE Adapter \cup {None}
  /\ hostMode \in [Adapter -> HostMode]
  /\ adapter # None => hostMode[adapter] = "discoverable"
  /\ mode = TRUE /\ registered = answers
  /\ left = {} /\ failed = FALSE
  /\ scans = 0 /\ errors = 0 /\ requests = 0

-----------------------------------------------------------------------------
(* Scanning, and names. *)

(* Devices are called by their names where BlueZ knows them, and by their  *)
(* aliases where not, as the value of Name falls back to that of Alias.    *)
Call(ds, known) ==
  /\ named' = (named \ ds) \cup (ds \cap known)
  /\ aliased' = (aliased \ ds) \cup (ds \ known)

(* The button starts a scan unless one is running: what is not paired is   *)
(* dropped from the list.                                                  *)
StartScan ==
  /\ ~scanning /\ scans < MaxScans
  /\ listed' = paired /\ connected' = connected \cap paired
  /\ named' = named \cap paired /\ aliased' = aliased \cap paired
  /\ scanning' = TRUE /\ agent' = TRUE /\ stops' = stops + 1
  /\ scans' = scans + 1
  /\ UNCHANGED <<paired, ignored, bluezVars, linkVars, pairVars, passes,
                 adapterVars, errors, requests>>

(* BlueZ makes an object for a device: it is called what BlueZ calls it.   *)
OnBluezInterfacesAdded(d) ==
  /\ d \notin objects /\ objects' = objects \cup {d}
  /\ resolved' \in {resolved, resolved \cup {d}}
  /\ Call({d} \cap listed, resolved')
  /\ UNCHANGED <<listed, paired, connected, ignored, bonded, answers,
                 reachable, linkVars, pairVars, scanVars, adapterVars,
                 boundVars>>

(* A device answers, with its name if BlueZ has it: that is for a device   *)
(* which is new, or listed without.                                        *)
OnDeviceDiscovered(d) ==
  /\ agent /\ d \in objects /\ listed' = listed \cup {d}
  /\ named' = named \cup (({d} \cap resolved) \ aliased)
  /\ UNCHANGED <<paired, connected, aliased, ignored, bluezVars, linkVars,
                 pairVars, scanVars, adapterVars, boundVars>>

(* BlueZ learns a name: Qt reports it as long as the scan runs. *)
DeviceUpdated(d) ==
  /\ d \in objects \ resolved /\ resolved' = resolved \cup {d}
  /\ Call(IF agent THEN {d} \cap listed ELSE {}, resolved')
  /\ UNCHANGED <<listed, paired, connected, ignored, objects, bonded, answers,
                 reachable, linkVars, pairVars, scanVars, adapterVars,
                 boundVars>>

(* Fault: the alias is preferred to the name. *)
RefreshNamesByAlias ==
  IF answers THEN Call((listed \ (named \cup aliased)) \cap objects, {})
  ELSE UNCHANGED <<named, aliased>>

(* BlueZ is asked about what is listed without a name.  Whoever is called  *)
(* by the alias then has one, and is not asked about again.                *)
RefreshNames ==
  IF answers THEN Call((listed \ (named \cup aliased)) \cap objects, resolved)
  ELSE UNCHANGED <<named, aliased>>

(* The scan is over; names are asked for now, and twice later. *)
OnScanFinished ==
  /\ agent /\ agent' = FALSE /\ scanning' = FALSE
  /\ RefreshNames /\ passes' = passes + 2
  /\ UNCHANGED <<listed, paired, connected, ignored, bluezVars, linkVars,
                 pairVars, stops, adapterVars, boundVars>>

RefreshDeviceNamesFromBlueZ ==
  /\ passes > 0 /\ passes' = passes - 1 /\ RefreshNames
  /\ UNCHANGED <<listed, paired, connected, ignored, bluezVars, linkVars,
                 pairVars, scanning, agent, stops, adapterVars, boundVars>>

(* The agent fails: nobody is connected to errorOccurred. *)
ScanFails ==
  /\ agent /\ errors < MaxErrors /\ agent' = FALSE /\ errors' = errors + 1
  /\ UNCHANGED <<listVars, bluezVars, linkVars, pairVars, scanning, stops,
                 passes, adapterVars, scans, requests>>

(* A timer of an earlier scan stops the one that is running; the agent     *)
(* reports canceled, to which nobody is connected.                         *)
StopTimer ==
  /\ stops > (IF agent THEN 1 ELSE 0) /\ stops' = stops - 1
  /\ agent' = (agent /\ ~scanning)
  /\ UNCHANGED <<listVars, bluezVars, linkVars, pairVars, scanning, passes,
                 adapterVars, boundVars>>

-----------------------------------------------------------------------------
(* Pairing. *)

UserAsks == requests < MaxRequests /\ requests' = requests + 1

(* The two lists of the popup. *)
PairedDeviceList == paired
UnpairedDeviceList == listed \ (paired \cup ignored)

(* "Pair", on a device of the list of those that are not: without an       *)
(* adapter Qt only reports an error, which nobody is connected to.         *)
Pair(d) ==
  /\ UserAsks /\ pairing = None /\ d \in UnpairedDeviceList
  /\ pairing' = IF adapter = None THEN None ELSE d
  /\ UNCHANGED <<listVars, bluezVars, linkVars, overlay, scanVars, adapterVars,
                 scans, errors>>

(* BlueZ asks the agent, which agrees at once and has the popup ask. *)
RequestConfirmation ==
  /\ pairing # None /\ registered /\ ~overlay /\ overlay' = TRUE
  /\ UNCHANGED <<listVars, bluezVars, linkVars, pairing, scanVars, adapterVars,
                 boundVars>>

(* Whatever the user answers: no message is pending, and the overlay goes. *)
AcceptOrReject ==
  /\ overlay /\ overlay' = FALSE
  /\ UNCHANGED <<listVars, bluezVars, linkVars, pairing, scanVars, adapterVars,
                 boundVars>>

(* Fault: the device may have left the list. *)
OnPairingFinishedUnlisted ==
  /\ pairing # None /\ pairing' = None
  /\ objects' = objects \cup {pairing} /\ bonded' = bonded \cup {pairing}
  /\ saved' = pairing
  /\ paired' = paired \cup {pairing}
  /\ UNCHANGED <<listed, connected, named, aliased, ignored, resolved, answers,
                 reachable, status, settling, overlay, scanVars, adapterVars,
                 boundVars>>

OnPairingFinished ==
  /\ pairing # None /\ pairing' = None
  /\ objects' = objects \cup {pairing} /\ bonded' = bonded \cup {pairing}
  /\ saved' = pairing
  /\ paired' = paired \cup ({pairing} \cap listed)
  /\ UNCHANGED <<listed, connected, named, aliased, ignored, resolved, answers,
                 reachable, status, settling, overlay, scanVars, adapterVars,
                 boundVars>>

(* The device gives up: BlueZ cancels at the agent. *)
PairingFails ==
  /\ pairing # None /\ pairing' = None /\ overlay' = FALSE
  /\ UNCHANGED <<listVars, bluezVars, linkVars, scanVars, adapterVars,
                 boundVars>>

(* "Forget": BlueZ removes the device with all it knows of it, or fails.   *)
RemovePair(d) ==
  /\ UserAsks /\ d \in PairedDeviceList
  /\ \/ /\ objects' = objects \ {d} /\ bonded' = bonded \ {d}
        /\ resolved' = resolved \ {d}
     \/ UNCHANGED <<objects, bonded, resolved>>
  /\ UNCHANGED <<listVars, answers, reachable, linkVars, pairVars, scanVars,
                 adapterVars, scans, errors>>

IgnoreDevice(d) ==
  /\ UserAsks /\ d \in UnpairedDeviceList
  /\ ignored' = ignored \cup {d}
  /\ UNCHANGED <<listed, paired, connected, named, aliased, bluezVars, linkVars,
                 pairVars, scanVars, adapterVars, scans, errors>>

-----------------------------------------------------------------------------
(* Connecting. *)

(* Attempts at the devices of tried, in some order, up to the first that   *)
(* answers: each is saved before it is tried.                              *)
ConnectToOneOf(tried, answering) ==
  IF tried \cap answering # {}
  THEN /\ saved' \in tried \cap answering
       /\ connected' = connected \cup ({saved'} \cap listed)
       /\ status' = "connected"
  ELSE /\ IF tried = {} THEN UNCHANGED saved ELSE saved' \in tried
       /\ status' = IF tried = {} THEN status ELSE "disconnected"
       /\ UNCHANGED connected

ConnectToDevice(d) ==
  /\ UserAsks /\ d \in PairedDeviceList \ connected
  /\ ConnectToOneOf({d}, reachable \cap bonded)
  /\ UNCHANGED <<listed, paired, named, aliased, ignored, bluezVars, settling,
                 pairVars, scanVars, adapterVars, scans, errors>>

(* Three seconds after the start: the last device, and if that one does    *)
(* not answer the others.                                                  *)
AutoConnect ==
  /\ settling /\ settling' = FALSE
  /\ LET others == paired \ {saved}
         tried == IF saved \in reachable \cap bonded \/ others = {}
                  THEN {saved} \ {None} ELSE others
     IN ConnectToOneOf(tried, reachable \cap bonded)
  /\ UNCHANGED <<listed, paired, named, aliased, ignored, bluezVars, pairVars,
                 scanVars, adapterVars, boundVars>>

DisconnectDevice(d) ==
  /\ UserAsks /\ d \in PairedDeviceList \cap connected
  /\ connected' = connected \ {d} /\ status' = "disconnected"
  /\ UNCHANGED <<listed, paired, named, aliased, ignored, bluezVars, saved,
                 settling, pairVars, scanVars, adapterVars, scans, errors>>

-----------------------------------------------------------------------------
(* The adapter. *)

Host(modes, a, value) ==
  [b \in Adapter |-> IF b = a THEN value ELSE modes[b]]

(* Fault: the choice is not saved. *)
SetActiveAdapterUnsaved(a) ==
  /\ UserAsks /\ a # adapter /\ pairing' = None
  /\ \/ /\ adapter' = a
        /\ hostMode' = Host(Host(hostMode, adapter, "off"), a, "discoverable")
        /\ UNCHANGED failed
     \/ /\ adapter' = None /\ hostMode' = Host(hostMode, adapter, "off")
        /\ failed' = TRUE
  /\ left' = (left \cup {adapter}) \ {None}
  /\ UNCHANGED <<listVars, bluezVars, linkVars, overlay, scanVars, configured,
                 mode, registered, scans, errors>>

(* Another adapter is chosen.  The one in use is powered off, and its      *)
(* signals are gone; the other is made discoverable and saved, unless it   *)
(* is not there any more.                                                  *)
SetActiveAdapter(a) ==
  /\ UserAsks /\ a # adapter /\ pairing' = None
  /\ \/ /\ adapter' = a /\ configured' = a
        /\ hostMode' = Host(Host(hostMode, adapter, "off"), a, "discoverable")
        /\ UNCHANGED failed
     \/ /\ adapter' = None /\ hostMode' = Host(hostMode, adapter, "off")
        /\ failed' = TRUE /\ UNCHANGED configured
  /\ left' = (left \cup {adapter}) \ {None}
  /\ UNCHANGED <<listVars, bluezVars, linkVars, overlay, scanVars, mode,
                 registered, scans, errors>>

EnablePairingMode(enabled) ==
  /\ UserAsks /\ mode # enabled /\ mode' = enabled
  /\ hostMode' = Host(hostMode, adapter,
                      IF enabled THEN "discoverable" ELSE "connectable")
  /\ registered' = (answers /\ enabled)
  /\ UNCHANGED <<listVars, bluezVars, linkVars, pairVars, scanVars, adapter,
                 configured, pastVars, scans, errors>>

(* A projection begins: its Bluetooth service makes the adapter of the     *)
(* configuration visible, if one is noted, whatever the mode is.  If that  *)
(* adapter is not there nothing happens, as in a stuttering step.          *)
CreateBluetoothLocalDevice ==
  /\ configured # None
  /\ hostMode' = Host(hostMode, configured, "discoverable")
  /\ UNCHANGED <<listVars, bluezVars, linkVars, pairVars, scanVars, adapter,
                 configured, mode, registered, pastVars, boundVars>>

User ==
  \/ StartScan \/ AcceptOrReject
  \/ \E d \in Device : \/ Pair(d) \/ RemovePair(d) \/ IgnoreDevice(d)
                       \/ ConnectToDevice(d) \/ DisconnectDevice(d)
  \/ \E a \in Adapter : SetActiveAdapter(a)
  \/ \E enabled \in BOOLEAN : EnablePairingMode(enabled)

Timers == RefreshDeviceNamesFromBlueZ \/ StopTimer

(* The scan comes to an end, one way or the other. *)
ScanEnd == OnScanFinished \/ ScanFails

BlueZ ==
  \/ ScanEnd \/ OnPairingFinished \/ PairingFails \/ RequestConfirmation
  \/ \E d \in Device : \/ OnDeviceDiscovered(d) \/ DeviceUpdated(d)
                       \/ OnBluezInterfacesAdded(d)

Next == User \/ BlueZ \/ Timers \/ AutoConnect \/ CreateBluetoothLocalDevice

(* Timers fire, and a scan ends. *)
Fairness == WF_vars(Timers) /\ WF_vars(ScanEnd)
Spec == Init /\ [][Next]_vars /\ Fairness

-----------------------------------------------------------------------------
(* Properties. *)

(* As long as the popup says that the device is visible to others, the    *)
(* adapter in use is, and none that was left for it is on, though every    *)
(* projection switches one on, however adapters and mode are switched: up  *)
(* to the first time that the adapter which is chosen is not there.  That  *)
(* the adapter is hidden when the popup says so is not so, and not stated. *)
VisibleAsChosen ==
  /\ mode /\ adapter # None => hostMode[adapter] = "discoverable"
  /\ ~failed => \A a \in left \ {adapter} : hostMode[a] = "off"

(* A device listed without a name, which BlueZ knows by the last pass of a *)
(* scan, is shown by it and not by its alias, unless it is gone from the   *)
(* list or BlueZ has forgotten it.                                         *)
NamesArrive ==
  \A d \in Device :
    (/\ answers /\ passes > 0
     /\ d \in (listed \cap resolved) \ (named \cup aliased))
      ~> (d \in named \/ d \notin listed \cap resolved)

(* "Stop after 12 seconds if still running", as startScan() has it: a scan *)
(* ends for the user, who can start the next one.                          *)
ScanEnds == scanning ~> ~scanning
=============================================================================
