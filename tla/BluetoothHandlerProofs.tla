----------------------- MODULE BluetoothHandlerProofs -----------------------
(***************************************************************************)
(* Proofs about BluetoothHandler, for any phones, any adapters and any     *)
(* number of scans: the types, and who can see the adapter.                *)
(*                                                                         *)
(* A scan that has finished leaves two passes for names behind, so that    *)
(* there are at most twice as many as scans only because the agent cannot  *)
(* finish twice: that is ScansCounted below.  That a projection switches    *)
(* on no adapter which was left rests on the configuration naming none of  *)
(* those: LeftForgotten.                                                   *)
(***************************************************************************)
EXTENDS BluetoothHandler, TLAPS

(* Each scan is stopped once, and finishes once if its agent still runs.   *)
ScansCounted ==
  /\ stops <= scans /\ passes <= 2 * scans
  /\ agent => scanning /\ passes + 2 <= 2 * scans

(* The configuration names no adapter that was left for another.           *)
LeftForgotten == ~failed => configured \notin left \ {adapter}

(* The inductive invariant. *)
BluetoothInv == TypeOK /\ ScansCounted /\ VisibleAsChosen /\ LeftForgotten

(* The constructor establishes it. *)
LEMMA InitInv ==
  ASSUME Constants, Init
  PROVE  BluetoothInv
<1>1. /\ listed \subseteq Device /\ paired = listed /\ named \subseteq listed
      /\ aliased \subseteq listed \ named
      /\ connected \subseteq listed /\ ignored \subseteq Device
      /\ objects \subseteq Device /\ bonded \subseteq objects
      /\ resolved \subseteq objects
      /\ answers \in BOOLEAN /\ reachable \subseteq Device
      /\ saved \in Device \cup {None} /\ pairing \in Device \cup {None}
  BY DEF Init, LoadedDevices
<1>2. 0 \in 0..MaxScans /\ 0 \in 0..(2 * MaxScans) /\ 0 \in 0..MaxErrors
        /\ 0 \in 0..MaxRequests
  BY DEF Constants
<1>3. /\ adapter \in Adapter \cup {None} /\ configured \in Adapter \cup {None}
      /\ mode \in BOOLEAN /\ registered \in BOOLEAN
      /\ left \subseteq Adapter /\ failed \in BOOLEAN
      /\ hostMode \in [Adapter -> HostMode]
      /\ VisibleAsChosen /\ LeftForgotten
  BY DEF Init, VisibleAsChosen, LeftForgotten
<1>4. TypeOK
  BY <1>1, <1>2, <1>3, Zenon DEF Init, TypeOK
<1>5. ScansCounted
  BY DEF Init, ScansCounted
<1>6. QED
  BY <1>3, <1>4, <1>5 DEF BluetoothInv

-----------------------------------------------------------------------------
(* Scanning. *)

(* What moves only the lists and BlueZ keeps the invariant, if the lists   *)
(* stay within one another.                                                *)
LEMMA ListsMove ==
  ASSUME BluetoothInv,
         UNCHANGED <<linkVars, pairVars, scanVars, adapterVars, scans, errors>>,
         requests' \in 0..MaxRequests,
         listed' \subseteq Device, paired' \subseteq listed',
         connected' \subseteq listed', named' \subseteq listed',
         aliased' \subseteq listed' \ named', ignored' \subseteq Device,
         objects' \subseteq Device, bonded' \subseteq objects',
         resolved' \subseteq objects', UNCHANGED <<answers, reachable>>
  PROVE  BluetoothInv'
BY DEF BluetoothInv, TypeOK, ScansCounted, VisibleAsChosen, LeftForgotten,
       linkVars, pairVars, scanVars, adapterVars, pastVars

(* Whom Call calls by name or alias, it calls by one of them. *)
LEMMA CallTypes ==
  ASSUME BluetoothInv, NEW ds \in SUBSET listed, NEW known, Call(ds, known)
  PROVE  named' \subseteq listed /\ aliased' \subseteq listed \ named'
BY DEF BluetoothInv, TypeOK, Call

(* So do the passes for names. *)
LEMMA RefreshTypes ==
  ASSUME BluetoothInv, RefreshNames
  PROVE  named' \subseteq listed /\ aliased' \subseteq listed \ named'
<1>1. CASE answers
  BY <1>1, CallTypes DEF RefreshNames
<1>2. CASE ~answers
  BY <1>2 DEF RefreshNames, BluetoothInv, TypeOK
<1>3. QED
  BY <1>1, <1>2

(* Counts below those of the scans are within their bounds. *)
LEMMA CountsBounded ==
  ASSUME NEW bound \in Nat, NEW n \in 0..bound, NEW s \in Nat, NEW p \in Nat,
         s <= n, p <= 2 * n
  PROVE  s \in 0..bound /\ p \in 0..(2 * bound)
OBVIOUS

(* What moves only a scan keeps it if it keeps the counts. *)
LEMMA ScanMoves ==
  ASSUME BluetoothInv, ScansCounted',
         UNCHANGED <<paired, ignored, bluezVars, linkVars, pairVars,
                     adapterVars, requests>>,
         listed' \subseteq Device, paired \subseteq listed',
         connected' \subseteq listed', named' \subseteq listed',
         aliased' \subseteq listed' \ named',
         scanning' \in BOOLEAN, agent' \in BOOLEAN,
         stops' \in Nat, passes' \in Nat, scans' \in 0..MaxScans,
         errors' \in 0..MaxErrors, MaxScans \in Nat
  PROVE  BluetoothInv'
<1>1. stops' <= scans' /\ passes' <= 2 * scans'
  BY Zenon DEF ScansCounted
<1>2. stops' \in 0..MaxScans /\ passes' \in 0..(2 * MaxScans)
  BY <1>1, CountsBounded, Zenon
<1>3. QED
  BY <1>2
  DEF BluetoothInv, TypeOK, VisibleAsChosen, LeftForgotten, bluezVars, linkVars,
      pairVars, adapterVars, pastVars

LEMMA StartScanKeeps ==
  ASSUME Constants, BluetoothInv, StartScan
  PROVE  BluetoothInv'
<1>1. /\ paired \subseteq listed /\ listed \subseteq Device
      /\ stops \in Nat /\ passes \in Nat /\ scans \in Nat /\ errors \in 0..MaxErrors
      /\ MaxScans \in Nat
  BY DEF BluetoothInv, TypeOK, Constants
<1>2. ~agent /\ stops <= scans /\ passes <= 2 * scans
  BY Zenon DEF StartScan, BluetoothInv, ScansCounted
<1>3. /\ scanning' = TRUE /\ agent' = TRUE /\ stops' = stops + 1
      /\ passes' = passes /\ scans' = scans + 1 /\ scans < MaxScans
  BY Zenon DEF StartScan
<1>4. ScansCounted'
  <2>1. /\ stops' <= scans' /\ passes' <= 2 * scans'
        /\ passes' + 2 <= 2 * scans'
    BY <1>1, <1>2, <1>3
  <2>2. QED
    BY <1>3, <2>1, Zenon DEF ScansCounted
<1>5. stops' \in Nat /\ passes' \in Nat /\ scans' \in 0..MaxScans
  BY <1>1, <1>3
<1>6. aliased' \subseteq listed' \ named' /\ named' \subseteq listed'
      /\ connected' \subseteq listed'
  BY DEF StartScan, BluetoothInv, TypeOK
<1>7. QED
  BY <1>1, <1>3, <1>4, <1>5, <1>6, ScanMoves DEF StartScan

(* A scan that ends, by itself or in an error, keeps the invariant. *)
LEMMA ScanEndKeeps ==
  ASSUME Constants, BluetoothInv, ScanEnd
  PROVE  BluetoothInv'
<1>1. /\ paired \subseteq listed /\ listed \subseteq Device
      /\ connected \subseteq listed /\ named \subseteq listed
      /\ aliased \subseteq listed \ named
      /\ stops \in Nat /\ passes \in Nat /\ scans \in 0..MaxScans
      /\ errors \in 0..MaxErrors /\ MaxScans \in Nat /\ MaxErrors \in Nat
      /\ scanning \in BOOLEAN
  BY DEF BluetoothInv, TypeOK, Constants
<1>2. agent /\ stops <= scans /\ passes + 2 <= 2 * scans
  BY Zenon DEF ScanEnd, OnScanFinished, ScanFails, BluetoothInv, ScansCounted
<1>3. CASE OnScanFinished
  <2>1. /\ agent' = FALSE /\ scanning' = FALSE /\ passes' = passes + 2
        /\ stops' = stops /\ scans' = scans
    BY <1>3, Zenon DEF OnScanFinished, boundVars
  <2>2. passes' <= 2 * scans' /\ passes' \in Nat
    BY <1>1, <1>2, <2>1
  <2>3. ScansCounted'
    BY <1>2, <2>1, <2>2, Zenon DEF ScansCounted
  <2>4. named' \subseteq listed /\ aliased' \subseteq listed \ named'
    BY <1>3, RefreshTypes DEF OnScanFinished
  <2>5. QED
    BY <1>1, <1>3, <2>1, <2>2, <2>3, <2>4, ScanMoves
    DEF OnScanFinished, boundVars
<1>4. CASE ScanFails
  <2>1. /\ agent' = FALSE /\ passes' = passes /\ stops' = stops
        /\ scans' = scans /\ scanning' = scanning
    BY <1>4, Zenon DEF ScanFails
  <2>2. passes' <= 2 * scans' /\ passes' \in Nat
    BY <1>1, <1>2, <2>1
  <2>3. ScansCounted'
    BY <1>2, <2>1, <2>2, Zenon DEF ScansCounted
  <2>4. errors' \in 0..MaxErrors
    BY <1>1, <1>4 DEF ScanFails
  <2>5. QED
    BY <1>1, <1>4, <2>1, <2>2, <2>3, <2>4, ScanMoves DEF ScanFails, listVars
<1>5. QED
  BY <1>3, <1>4 DEF ScanEnd

LEMMA TimersKeep ==
  ASSUME Constants, BluetoothInv, Timers
  PROVE  BluetoothInv'
<1>1. /\ paired \subseteq listed /\ listed \subseteq Device
      /\ connected \subseteq listed /\ named \subseteq listed
      /\ aliased \subseteq listed \ named
      /\ stops \in Nat /\ passes \in Nat /\ scans \in 0..MaxScans
      /\ errors \in 0..MaxErrors /\ MaxScans \in Nat
      /\ scanning \in BOOLEAN /\ agent \in BOOLEAN
  BY DEF BluetoothInv, TypeOK, Constants
<1>2. CASE RefreshDeviceNamesFromBlueZ
  <2>1. /\ passes > 0 /\ passes' = passes - 1 /\ stops' = stops
        /\ agent' = agent /\ scanning' = scanning /\ scans' = scans
    BY <1>2, Zenon DEF RefreshDeviceNamesFromBlueZ, boundVars
  <2>2. /\ passes' \in Nat
        /\ passes + 2 <= 2 * scans => passes' + 2 <= 2 * scans'
        /\ passes <= 2 * scans => passes' <= 2 * scans'
    BY <1>1, <2>1
  <2>3. ScansCounted'
    BY <2>1, <2>2, Zenon DEF BluetoothInv, ScansCounted
  <2>4. named' \subseteq listed /\ aliased' \subseteq listed \ named'
    BY <1>2, RefreshTypes DEF RefreshDeviceNamesFromBlueZ
  <2>5. QED
    BY <1>1, <1>2, <2>1, <2>2, <2>3, <2>4, ScanMoves
    DEF RefreshDeviceNamesFromBlueZ, boundVars
<1>3. CASE StopTimer
  <2>1. /\ passes' = passes /\ stops' = stops - 1 /\ agent' = (agent /\ ~scanning)
        /\ scanning' = scanning /\ scans' = scans
        /\ stops > 0 \/ stops > 1
    BY <1>3, Zenon DEF StopTimer, boundVars
  <2>2. ~agent' /\ stops <= scans
    BY <2>1, Zenon DEF BluetoothInv, ScansCounted
  <2>3. passes <= 2 * scans
    BY Zenon DEF BluetoothInv, ScansCounted
  <2>4. passes' <= 2 * scans' /\ stops' <= scans' /\ stops' \in Nat
    BY <1>1, <2>1, <2>2, <2>3
  <2>5. ScansCounted'
    BY <2>2, <2>4, Zenon DEF ScansCounted
  <2>6. QED
    BY <1>1, <1>3, <2>1, <2>2, <2>4, <2>5, ScanMoves
    DEF StopTimer, listVars, boundVars
<1>4. QED
  BY <1>2, <1>3 DEF Timers

-----------------------------------------------------------------------------
(* Pairing and connecting. *)

LEMMA RequestTypes ==
  ASSUME Constants, BluetoothInv
  PROVE  requests \in 0..MaxRequests /\ (UserAsks => requests' \in 0..MaxRequests)
BY DEF Constants, BluetoothInv, TypeOK, UserAsks

(* What moves the pairing and the link keeps the invariant. *)
LEMMA LinkMoves ==
  ASSUME BluetoothInv,
         UNCHANGED <<listed, named, aliased, ignored, answers, reachable,
                     scanVars, adapterVars, scans, errors>>,
         requests' \in 0..MaxRequests,
         paired' \subseteq listed, connected' \subseteq listed,
         objects' \subseteq Device, bonded' \subseteq objects',
         resolved' \subseteq objects', saved' \in Device \cup {None},
         status' \in {"not_configured", "connected", "disconnected"},
         settling' \in BOOLEAN, pairing' \in Device \cup {None},
         overlay' \in BOOLEAN
  PROVE  BluetoothInv'
BY DEF BluetoothInv, TypeOK, ScansCounted, VisibleAsChosen, LeftForgotten,
       scanVars, adapterVars, pastVars

LEMMA PairingKeeps ==
  ASSUME Constants, BluetoothInv,
         \/ OnPairingFinished \/ PairingFails \/ RequestConfirmation
         \/ AcceptOrReject
  PROVE  BluetoothInv'
<1>1. requests \in 0..MaxRequests
  BY RequestTypes
<1>2. CASE OnPairingFinished
  BY <1>1, <1>2, LinkMoves
  DEF OnPairingFinished, BluetoothInv, TypeOK, boundVars
<1>3. CASE PairingFails \/ RequestConfirmation \/ AcceptOrReject
  BY <1>1, <1>3, LinkMoves
  DEF PairingFails, RequestConfirmation, AcceptOrReject, BluetoothInv, TypeOK,
      listVars, bluezVars, linkVars, boundVars
<1>4. QED
  BY <1>2, <1>3

(* A connection to one of some devices. *)
LEMMA ConnectionTypes ==
  ASSUME BluetoothInv, NEW tried \in SUBSET Device, NEW answering,
         ConnectToOneOf(tried, answering)
  PROVE  /\ saved' \in Device \cup {None} /\ connected' \subseteq listed
         /\ status' \in {"not_configured", "connected", "disconnected"}
BY DEF BluetoothInv, TypeOK, ConnectToOneOf

LEMMA AutoConnectKeeps ==
  ASSUME Constants, BluetoothInv, AutoConnect
  PROVE  BluetoothInv'
<1> DEFINE others == paired \ {saved}
           tried == IF saved \in reachable \cap bonded \/ others = {}
                    THEN {saved} \ {None} ELSE others
<1>1. requests \in 0..MaxRequests
  BY RequestTypes
<1>2. ConnectToOneOf(tried, reachable \cap bonded)
  BY DEF AutoConnect
<1>3. tried \in SUBSET Device
  BY DEF BluetoothInv, TypeOK
<1>4. /\ saved' \in Device \cup {None} /\ connected' \subseteq listed
      /\ status' \in {"not_configured", "connected", "disconnected"}
  BY <1>2, <1>3, ConnectionTypes
<1>5. QED
  BY <1>1, <1>4, LinkMoves
  DEF AutoConnect, BluetoothInv, TypeOK, bluezVars, pairVars, boundVars

LEMMA UserKeeps ==
  ASSUME Constants, BluetoothInv, NEW d \in Device,
         \/ Pair(d) \/ RemovePair(d) \/ IgnoreDevice(d)
         \/ ConnectToDevice(d) \/ DisconnectDevice(d)
  PROVE  BluetoothInv'
<1>1. requests' \in 0..MaxRequests
  BY RequestTypes
  DEF Pair, RemovePair, IgnoreDevice, ConnectToDevice, DisconnectDevice
<1>2. CASE Pair(d) \/ DisconnectDevice(d) \/ RemovePair(d)
  BY <1>1, <1>2, LinkMoves
  DEF Pair, DisconnectDevice, RemovePair, BluetoothInv, TypeOK, listVars,
      bluezVars, linkVars, pairVars
<1>3. CASE ConnectToDevice(d)
  <2>1. /\ saved' \in Device \cup {None} /\ connected' \subseteq listed
        /\ status' \in {"not_configured", "connected", "disconnected"}
    BY <1>3, ConnectionTypes DEF ConnectToDevice
  <2>2. QED
    BY <1>1, <1>3, <2>1, LinkMoves
    DEF ConnectToDevice, BluetoothInv, TypeOK, bluezVars, pairVars
<1>4. CASE IgnoreDevice(d)
  BY <1>1, <1>4, ListsMove
  DEF IgnoreDevice, BluetoothInv, TypeOK, bluezVars
<1>5. QED
  BY <1>2, <1>3, <1>4

(* What BlueZ reports of a device. *)
LEMMA DeviceKeeps ==
  ASSUME Constants, BluetoothInv, NEW d \in Device,
         \/ OnDeviceDiscovered(d) \/ DeviceUpdated(d)
         \/ OnBluezInterfacesAdded(d)
  PROVE  BluetoothInv'
<1>1. requests \in 0..MaxRequests
  BY RequestTypes
<1>2. CASE OnDeviceDiscovered(d)
  BY <1>1, <1>2, ListsMove
  DEF OnDeviceDiscovered, BluetoothInv, TypeOK, bluezVars, boundVars
<1>3. CASE DeviceUpdated(d)
  <2>1. named' \subseteq listed /\ aliased' \subseteq listed \ named'
    BY <1>3, CallTypes DEF DeviceUpdated
  <2>2. QED
    BY <1>1, <1>3, <2>1, ListsMove
    DEF DeviceUpdated, BluetoothInv, TypeOK, boundVars
<1>4. CASE OnBluezInterfacesAdded(d)
  <2>1. named' \subseteq listed /\ aliased' \subseteq listed \ named'
    BY <1>4, CallTypes DEF OnBluezInterfacesAdded
  <2>2. QED
    BY <1>1, <1>4, <2>1, ListsMove
    DEF OnBluezInterfacesAdded, BluetoothInv, TypeOK, boundVars
<1>5. QED
  BY <1>2, <1>3, <1>4

-----------------------------------------------------------------------------
(* The adapter. *)

(* The types and the two facts about adapters, as far as they move. *)
AdapterInv ==
  /\ adapter \in Adapter \cup {None} /\ configured \in Adapter \cup {None}
  /\ hostMode \in [Adapter -> HostMode]
  /\ mode \in BOOLEAN /\ registered \in BOOLEAN
  /\ left \subseteq Adapter /\ failed \in BOOLEAN
  /\ VisibleAsChosen /\ LeftForgotten

(* What moves only adapters keeps the invariant, if it keeps those. *)
LEMMA AdaptersMove ==
  ASSUME BluetoothInv, AdapterInv', requests' \in 0..MaxRequests,
         pairing' \in Device \cup {None},
         UNCHANGED <<listVars, bluezVars, linkVars, overlay, scanVars, scans,
                     errors>>
  PROVE  BluetoothInv'
BY DEF AdapterInv, BluetoothInv, TypeOK, ScansCounted, listVars, bluezVars,
       linkVars, scanVars

LEMMA HostTypes ==
  ASSUME NEW modes \in [Adapter -> HostMode], NEW a, NEW value \in HostMode
  PROVE  /\ Host(modes, a, value) \in [Adapter -> HostMode]
         /\ \A b \in Adapter :
              Host(modes, a, value)[b] = IF b = a THEN value ELSE modes[b]
BY DEF Host

(* Another adapter: the one in use is off, and the one that was chosen is  *)
(* visible and the one the configuration names, or it was not there.       *)
LEMMA SwitchKeeps ==
  ASSUME Constants, BluetoothInv, NEW a \in Adapter, SetActiveAdapter(a)
  PROVE  AdapterInv'
<1> DEFINE off == Host(hostMode, adapter, "off")
           on == Host(off, a, "discoverable")
<1>1. AdapterInv
  BY DEF AdapterInv, BluetoothInv, TypeOK
<1>2. /\ off \in [Adapter -> HostMode]
      /\ \A b \in Adapter : off[b] = IF b = adapter THEN "off" ELSE hostMode[b]
  BY <1>1, HostTypes DEF AdapterInv, HostMode
<1>3. /\ on \in [Adapter -> HostMode]
      /\ \A b \in Adapter : on[b] = IF b = a THEN "discoverable" ELSE off[b]
  BY <1>2, HostTypes DEF HostMode
<1> HIDE DEF off, on
<1>4. /\ left' = (left \cup {adapter}) \ {None} /\ left' \subseteq Adapter
      /\ mode' = mode /\ registered' = registered
  BY <1>1 DEF SetActiveAdapter, AdapterInv
<1>5. CASE adapter' = a /\ configured' = a /\ hostMode' = on /\ failed' = failed
  BY <1>1, <1>2, <1>3, <1>4, <1>5
  DEF AdapterInv, VisibleAsChosen, LeftForgotten
<1>6. CASE /\ adapter' = None /\ hostMode' = off /\ failed' = TRUE
           /\ configured' = configured
  BY <1>1, <1>2, <1>4, <1>6 DEF AdapterInv, VisibleAsChosen, LeftForgotten
<1>7. QED
  BY <1>5, <1>6 DEF SetActiveAdapter, off, on

(* The mode moves the adapter in use. *)
LEMMA ModeKeeps ==
  ASSUME Constants, BluetoothInv, NEW enabled \in BOOLEAN,
         EnablePairingMode(enabled)
  PROVE  AdapterInv'
<1> DEFINE value == IF enabled THEN "discoverable" ELSE "connectable"
<1>1. AdapterInv /\ answers \in BOOLEAN
  BY DEF AdapterInv, BluetoothInv, TypeOK
<1>2. value \in HostMode
  BY DEF HostMode
<1>3. /\ hostMode' = Host(hostMode, adapter, value)
      /\ mode' = enabled /\ registered' \in BOOLEAN
      /\ UNCHANGED <<adapter, configured, left, failed>>
  BY <1>1 DEF EnablePairingMode, pastVars
<1>4. /\ hostMode' \in [Adapter -> HostMode]
      /\ \A b \in Adapter :
           hostMode'[b] = IF b = adapter THEN value ELSE hostMode[b]
  BY <1>1, <1>2, <1>3, HostTypes DEF AdapterInv
<1>5. QED
  BY <1>1, <1>3, <1>4 DEF AdapterInv, VisibleAsChosen, LeftForgotten

(* A projection moves the adapter of the configuration, which is none of   *)
(* those that were left.                                                   *)
LEMMA ProjectionKeeps ==
  ASSUME Constants, BluetoothInv, CreateBluetoothLocalDevice
  PROVE  AdapterInv'
<1>1. AdapterInv
  BY DEF AdapterInv, BluetoothInv, TypeOK
<1>2. /\ hostMode' = Host(hostMode, configured, "discoverable")
      /\ UNCHANGED <<adapter, configured, mode, registered, left, failed>>
  BY DEF CreateBluetoothLocalDevice, pastVars
<1>3. /\ hostMode' \in [Adapter -> HostMode]
      /\ \A b \in Adapter :
           hostMode'[b] = IF b = configured THEN "discoverable" ELSE hostMode[b]
  BY <1>1, <1>2, HostTypes DEF AdapterInv, HostMode
<1>4. QED
  BY <1>1, <1>2, <1>3 DEF AdapterInv, VisibleAsChosen, LeftForgotten

(* However adapters and mode are switched, and whenever a projection       *)
(* begins, the invariant is kept.                                          *)
LEMMA AdapterKeeps ==
  ASSUME Constants, BluetoothInv,
         \/ \E a \in Adapter : SetActiveAdapter(a)
         \/ \E enabled \in BOOLEAN : EnablePairingMode(enabled)
         \/ CreateBluetoothLocalDevice
  PROVE  BluetoothInv'
<1>1. /\ requests' \in 0..MaxRequests
      /\ UNCHANGED <<listVars, bluezVars, linkVars, overlay, scanVars, scans,
                     errors>>
      /\ pairing' \in Device \cup {None}
  BY RequestTypes
  DEF SetActiveAdapter, EnablePairingMode, CreateBluetoothLocalDevice,
      BluetoothInv, TypeOK, pairVars, boundVars
<1>2. AdapterInv'
  BY SwitchKeeps, ModeKeeps, ProjectionKeeps
<1>3. QED
  BY <1>1, <1>2, AdaptersMove

-----------------------------------------------------------------------------
(* The invariant is inductive. *)
LEMMA StepInv ==
  ASSUME Constants, BluetoothInv, [Next]_vars
  PROVE  BluetoothInv'
<1>1. CASE User
  BY <1>1, StartScanKeeps, PairingKeeps, UserKeeps, AdapterKeeps, Zenon DEF User
<1>2. CASE BlueZ
  BY <1>2, ScanEndKeeps, PairingKeeps, DeviceKeeps, Zenon DEF BlueZ
<1>3. CASE Timers \/ AutoConnect \/ CreateBluetoothLocalDevice
  BY <1>3, TimersKeep, AutoConnectKeeps, AdapterKeeps
<1>4. CASE UNCHANGED vars
  BY <1>4
  DEF BluetoothInv, TypeOK, ScansCounted, VisibleAsChosen, LeftForgotten, vars,
      listVars, bluezVars, linkVars, pairVars, scanVars, adapterVars, pastVars,
      boundVars
<1>5. QED
  BY <1>1, <1>2, <1>3, <1>4 DEF Next
=============================================================================
