--------------------------- MODULE HeadUnitProofs ---------------------------
(***************************************************************************)
(* Machine-checked proofs about HeadUnit: its updates (UpdateManager), its *)
(* Bluetooth server and its WiFi, for any number of attempts, downloads    *)
(* and installers, phones, messages and bytes, for any interfaces and      *)
(* networks, and for any number of things the user asks for.               *)
(***************************************************************************)
EXTENDS HeadUnit, SequenceTheorems, TLAPS

-----------------------------------------------------------------------------
(* Updates. *)

(* The types OneCheckAtATime needs of the actions that take part in it. *)
CheckTypeOK ==
  /\ checking \in BOOLEAN
  /\ requests \in Nat
  /\ worker \in {"idle", "sleeping", "ready", "requesting", "finished"}
  /\ results \in Seq({"found", "failed"})

CheckInv == CheckTypeOK /\ OneCheckAtATime

-----------------------------------------------------------------------------
(* Where a check is, step by step. *)

(* A report moves the check from the worker to the queue of results. *)
LEMMA ReportMoves ==
  ASSUME CheckInv, NEW r \in {"found", "failed"}, Report(r),
         worker \notin {"idle", "finished"}, UNCHANGED <<checking, requests>>
  PROVE  CheckInv'
<1>1. /\ results' \in Seq({"found", "failed"})
      /\ Len(results') = Len(results) + 1
  BY DEF CheckInv, CheckTypeOK, Report
<1>2. QED
  BY <1>1 DEF CheckInv, CheckTypeOK, OneCheckAtATime, Running, Report

(* The worker goes on with its check. *)
LEMMA WorkerGoesOn ==
  ASSUME CheckInv, worker \notin {"idle", "finished"},
         worker' \in {"sleeping", "ready", "requesting"},
         UNCHANGED <<checking, requests, results>>
  PROVE  CheckInv'
BY DEF CheckInv, CheckTypeOK, OneCheckAtATime, Running

(* A request is taken, and by a worker that has no check: when it has one, *)
(* there is no request, and run() is never entered inside run().           *)
LEMMA RequestMoves ==
  ASSUME CheckInv, TakeRequest, UNCHANGED checking
  PROVE  CheckInv'
<1>1. requests = 1 /\ worker = "idle" /\ Len(results) = 0
  BY DEF CheckInv, CheckTypeOK, OneCheckAtATime, Running, TakeRequest
<1>2. QED
  BY <1>1 DEF CheckInv, CheckTypeOK, OneCheckAtATime, Running, TakeRequest

LEMMA WorkerKeeps ==
  ASSUME CheckInv, WorkerThread
  PROVE  CheckInv'
<1>0. UNCHANGED checking
  BY DEF WorkerThread
<1>1. CASE TakeRequest
  BY <1>0, <1>1, RequestMoves
<1>2. CASE Wake
  BY <1>0, <1>2, ReportMoves, WorkerGoesOn DEF Wake
<1>3. CASE Request
  BY <1>0, <1>3, ReportMoves, WorkerGoesOn DEF Request, AttemptFails
<1>4. CASE Reply
  BY <1>0, <1>4, ReportMoves, WorkerGoesOn DEF Reply, AttemptFails
<1>5. CASE Throws
  BY <1>0, <1>5, ReportMoves DEF Throws
<1>6. CASE Finish
  BY <1>0, <1>6 DEF Finish, CheckInv, CheckTypeOK, OneCheckAtATime, Running
<1>7. QED
  BY <1>1, <1>2, <1>3, <1>4, <1>5, <1>6 DEF WorkerThread

(* A check is requested only when there is none. *)
LEMMA CheckBegins ==
  ASSUME CheckInv, CheckForUpdate
  PROVE  CheckInv'
<1>1. CASE checking
  BY <1>1 DEF CheckInv, CheckTypeOK, OneCheckAtATime, Running, CheckForUpdate
<1>2. CASE ~checking
  BY <1>2 DEF CheckInv, CheckTypeOK, OneCheckAtATime, Running, CheckForUpdate
<1>3. QED BY <1>1, <1>2

(* The check whose result is taken was the only one. *)
LEMMA ResultMoves ==
  ASSUME CheckInv, NEW r, TakeResult(r)
  PROVE  CheckInv'
<1>1. /\ results # <<>>
      /\ results' \in Seq({"found", "failed"})
      /\ Len(results') = Len(results) - 1
      /\ Len(results) \in Nat \ {0}
  BY DEF CheckInv, CheckTypeOK, TakeResult
<1>2. checking
  BY <1>1 DEF CheckInv, CheckTypeOK, OneCheckAtATime, Running
<1>3. requests + Running = 0 /\ Len(results) = 1
  BY <1>1, <1>2 DEF CheckInv, CheckTypeOK, OneCheckAtATime, Running
<1>4. UNCHANGED <<requests, worker>> /\ checking' = FALSE
  BY DEF TakeResult
<1>5. requests' + Running' + Len(results') = 0
  BY <1>1, <1>3, <1>4 DEF Running
<1>6. CheckTypeOK'
  BY <1>1, <1>4 DEF CheckInv, CheckTypeOK
<1>7. QED BY <1>4, <1>5, <1>6 DEF CheckInv, OneCheckAtATime

(* Downloads, installers, the view and the end of the program leave checks *)
(* alone.                                                                  *)
LEMMA OthersKeep ==
  ASSUME CheckInv, UNCHANGED <<checking, requests, worker, results>>
  PROVE  CheckInv'
BY DEF CheckInv, CheckTypeOK, OneCheckAtATime, Running

LEMMA CheckStep == CheckInv /\ [Next]_vars => CheckInv'
<1> SUFFICES ASSUME CheckInv, [Next]_vars PROVE CheckInv'
  OBVIOUS
<1>1. CASE WorkerThread
  BY <1>1, WorkerKeeps
<1>2. CASE CheckForUpdate
  BY <1>2, CheckBegins
<1>3. CASE Signals
  BY <1>3, ResultMoves DEF Signals, OnCheckResult, OnCheckFailed
<1>4. CASE Transfers \/ InstallerEnds \/ DownloadUpdate
  BY <1>4, OthersKeep
  DEF Transfers, DownloadFails, DownloadFinishes, InstallerEnds, DownloadUpdate,
      checkVars
<1>5. CASE OpenSettings \/ LeaveSettings \/ Dismiss \/ Quit
  BY <1>5, OthersKeep DEF OpenSettings, LeaveSettings, Dismiss, Quit, checkVars
<1>6. CASE UNCHANGED vars
  BY <1>6, OthersKeep DEF vars, checkVars
<1>7. QED BY <1>1, <1>2, <1>3, <1>4, <1>5, <1>6 DEF Next

LEMMA UpdateTypeInit == Init => TypeOK
<1> SUFFICES ASSUME Init PROVE TypeOK
  OBVIOUS
<1>1. /\ results \in Seq({"found", "failed"}) /\ requests \in Nat
      /\ attempt \in 0 .. MaxAttempts
      /\ downloads \in 0 .. MaxDownloads /\ installers \in 0 .. MaxDownloads
      /\ dialogs \subseteq {"found", "downloading", "installing", "error"}
  BY UpdateAssumption DEF Init
<1>2. QED
  BY <1>1, Zenon DEF Init, TypeOK

LEMMA UpdateTypeStep == TypeOK /\ [Next]_vars => TypeOK'
<1> SUFFICES ASSUME TypeOK, [Next]_vars PROVE TypeOK'
  OBVIOUS
<1> USE UpdateAssumption DEF TypeOK
<1>1. CASE WorkerThread
  <2>1. UNCHANGED <<deferred, checking, updateUrl, downloads, bundle, installers,
                    settings, dialogs, quitting>>
    BY <1>1 DEF WorkerThread, installVars, viewVars
  <2>2. /\ requests' \in Nat /\ results' \in Seq({"found", "failed"})
        /\ worker' \in {"idle", "sleeping", "ready", "requesting", "finished"}
        /\ attempt' \in 0 .. MaxAttempts
    <3>1. CASE TakeRequest
      BY <3>1 DEF TakeRequest
    <3>2. CASE Wake
      BY <3>2 DEF Wake, Report
    <3>3. CASE Request
      BY <3>3 DEF Request, AttemptFails, Report
    <3>4. CASE Reply
      BY <3>4 DEF Reply, AttemptFails, Report
    <3>5. CASE Throws
      BY <3>5 DEF Throws, Report
    <3>6. CASE Finish
      BY <3>6 DEF Finish
    <3>7. QED BY <1>1, <3>1, <3>2, <3>3, <3>4, <3>5, <3>6 DEF WorkerThread
  <2>3. QED BY <2>1, <2>2
<1>2. CASE CheckForUpdate
  <2>1. requests' \in Nat
    BY <1>2 DEF CheckForUpdate
  <2>2. deferred' \in BOOLEAN /\ checking' \in BOOLEAN
    BY <1>2, Zenon DEF CheckForUpdate
  <2>3. UNCHANGED <<worker, attempt, results, updateUrl, downloads, bundle,
                    installers, settings, dialogs, quitting>>
    BY <1>2, Zenon DEF CheckForUpdate, installVars, viewVars
  <2>4. QED BY <2>1, <2>2, <2>3
<1>3. CASE Signals
  <2>1. /\ UNCHANGED <<deferred, requests, worker, attempt, downloads, bundle,
                       installers, settings, quitting>>
        /\ checking' = FALSE /\ results # <<>> /\ results' = Tail(results)
    BY <1>3, Zenon
    DEF Signals, OnCheckResult, OnCheckFailed, TakeResult, installVars
  <2>2. results' \in Seq({"found", "failed"})
    BY <2>1
  <2>3. updateUrl' \in BOOLEAN
    BY <1>3, Zenon DEF Signals, OnCheckResult, OnCheckFailed
  <2>4. dialogs' \subseteq {"found", "downloading", "installing", "error"}
    BY <1>3 DEF Signals, OnCheckResult, OnCheckFailed, Show
  <2>5. QED BY <2>1, <2>2, <2>3, <2>4
<1>4. CASE Transfers \/ InstallerEnds \/ DownloadUpdate
  <2>1. UNCHANGED <<deferred, checking, updateUrl, requests, worker, attempt,
                    results, settings, quitting>>
    BY <1>4, Zenon
    DEF Transfers, DownloadFails, DownloadFinishes, InstallerEnds,
        DownloadUpdate, checkVars
  <2>2. downloads' \in 0 .. MaxDownloads /\ installers' \in 0 .. MaxDownloads
    BY <1>4
    DEF Transfers, DownloadFails, DownloadFinishes, InstallerEnds, DownloadUpdate
  <2>3. bundle' \in BOOLEAN
    BY <1>4, Zenon
    DEF Transfers, DownloadFails, DownloadFinishes, InstallerEnds, DownloadUpdate
  <2>4. dialogs' \subseteq {"found", "downloading", "installing", "error"}
    BY <1>4
    DEF Transfers, DownloadFails, DownloadFinishes, InstallerEnds,
        DownloadUpdate, Show, OnErrorOccurred
  <2>5. QED BY <2>1, <2>2, <2>3, <2>4
<1>5. CASE OpenSettings \/ LeaveSettings \/ Dismiss \/ Quit
  BY <1>5 DEF OpenSettings, LeaveSettings, Dismiss, Quit, checkVars, installVars,
              viewVars
<1>6. CASE UNCHANGED vars
  BY <1>6 DEF vars, checkVars, installVars, viewVars
<1>7. QED BY <1>1, <1>2, <1>3, <1>4, <1>5, <1>6 DEF Next

LEMMA CheckInit == Init => CheckInv
<1> SUFFICES ASSUME Init PROVE CheckInv
  OBVIOUS
<1>1. /\ checking = FALSE /\ requests = 0 /\ worker = "idle" /\ results = <<>>
  BY DEF Init
<1>2. Running = 0
  BY <1>1, Zenon DEF Running
<1>3. requests + Running + Len(results) = 0
  BY <1>1, <1>2
<1>4. CheckTypeOK
  <2>1. results \in Seq({"found", "failed"}) /\ requests \in Nat
    BY <1>1
  <2>2. QED BY <1>1, <2>1, Zenon DEF CheckTypeOK
<1>5. ~checking
  BY <1>1
<1>6. OneCheckAtATime
  BY <1>3, <1>4, <1>5 DEF OneCheckAtATime, CheckTypeOK
<1>7. QED BY <1>4, <1>6 DEF CheckInv

-----------------------------------------------------------------------------
(* The WiFi: what is sent to the NetworkManager. *)

(* Calls that change what a device is connected to. *)
Changes(c) == c.call \in {"activate", "delete", "disconnect"}

(* A call after which the device carries what is wanted. *)
Grants(c, want) ==
  /\ c.path = want.path
  /\ \/ c.call = "activate" /\ c.conn = want.conn
     \/ c.call = "disconnect" /\ want.conn = None

(* What is sent ends with such a call. *)
EndsWith(asks, want) ==
  /\ asks \in Seq(Wifi!Call)
  /\ asks # <<>> => Grants(asks[Len(asks)], want)

LEMMA ActivateSends ==
  ASSUME Wifi!TypeOK, NEW c \in Wifi!Connection
  PROVE  /\ EndsWith(Wifi!Activate(c), [conn |-> c, path |-> devicePath])
         /\ devicePath # None => Wifi!Activate(c) # <<>>
<1>1. CASE devicePath = None
  BY <1>1 DEF Wifi!Activate, EndsWith
<1>2. CASE devicePath # None
  <2> DEFINE call == [call |-> "activate", iface |-> currentIface,
                      path |-> devicePath, conn |-> c]
  <2>1. call \in Wifi!Call
    BY <1>2 DEF Wifi!TypeOK, Wifi!Call
  <2>2. Grants(call, [conn |-> c, path |-> devicePath])
    BY DEF Grants
  <2>3. Wifi!Activate(c) = <<call>>
    BY <1>2 DEF Wifi!Activate
  <2> HIDE DEF call
  <2>4. QED BY <2>1, <2>2, <2>3 DEF EndsWith
<1>3. QED BY <1>1, <1>2

LEMMA DisconnectSends ==
  ASSUME Wifi!TypeOK
  PROVE  EndsWith(Wifi!Disconnect, [conn |-> None, path |-> devicePath])
<1>1. CASE devicePath = None
  BY <1>1 DEF Wifi!Disconnect, EndsWith
<1>2. CASE devicePath # None
  <2> DEFINE call == [call |-> "disconnect", path |-> devicePath]
  <2>1. call \in Wifi!Call
    BY <1>2 DEF Wifi!TypeOK, Wifi!Call
  <2>2. Grants(call, [conn |-> None, path |-> devicePath])
    BY DEF Grants
  <2>3. Wifi!Disconnect = <<call>>
    BY <1>2 DEF Wifi!Disconnect
  <2> HIDE DEF call
  <2>4. QED BY <2>1, <2>2, <2>3 DEF EndsWith
<1>3. QED BY <1>1, <1>2

(* The call that grants what is wanted stays the last one. *)
LEMMA EndsWithLast ==
  ASSUME NEW before \in Seq(Wifi!Call), NEW asks, NEW want,
         EndsWith(asks, want), asks # <<>>
  PROVE  EndsWith(before \o asks, want)
BY DEF EndsWith

LEMMA ConnectSends ==
  ASSUME Wifi!TypeOK, NEW n \in Network
  PROVE  EndsWith(Wifi!ConnectToWifi(n), [conn |-> n, path |-> devicePath])
<1>1. CASE devicePath = None
  BY <1>1 DEF Wifi!ConnectToWifi, EndsWith
<1>2. CASE devicePath # None
  <2>1. n \in Wifi!Connection
    BY DEF Wifi!Connection
  <2>2. <<[call |-> "delete", conn |-> n]>> \in Seq(Wifi!Call)
    BY DEF Wifi!Call
  <2>3. QED
    BY <1>2, <2>1, <2>2, ActivateSends, EndsWithLast DEF Wifi!ConnectToWifi
<1>3. QED BY <1>1, <1>2

LEMMA EnterSends ==
  ASSUME Wifi!TypeOK, NEW m \in Wifi!Mode
  PROVE  EndsWith(Wifi!Enter(m), [conn |-> Wifi!Target(m), path |-> devicePath])
<1>1. CASE m = "hotspot"
  BY <1>1, ActivateSends DEF Wifi!Enter, Wifi!Target, Wifi!Connection
<1>2. CASE m = "client" /\ clientSsid \in Network
  BY <1>2, ConnectSends DEF Wifi!Enter, Wifi!Target
<1>3. CASE m = "client" /\ clientSsid \notin Network
  BY <1>3 DEF Wifi!Enter, EndsWith
<1>4. QED BY <1>1, <1>2, <1>3 DEF Wifi!Mode

(* A mode that has nothing to connect to wants no connection. *)
LEMMA EnterNothing ==
  ASSUME Wifi!TypeOK, NEW m \in Wifi!Mode, Wifi!Enter(m) = <<>>
  PROVE  devicePath = None \/ Wifi!Target(m) = None
<1>1. CASE m = "hotspot"
  BY <1>1, ActivateSends DEF Wifi!Enter, Wifi!Connection
<1>2. CASE m = "client" /\ clientSsid \in Network
  BY <1>2 DEF Wifi!Enter, Wifi!ConnectToWifi, Wifi!Activate
<1>3. CASE m = "client" /\ clientSsid \notin Network
  BY <1>3 DEF Wifi!Target, Wifi!TypeOK
<1>4. QED BY <1>1, <1>2, <1>3 DEF Wifi!Mode

(* A change of mode ends with what the new mode asks for, or else with the *)
(* disconnection.                                                          *)
LEMMA SwitchSends ==
  ASSUME Wifi!TypeOK, NEW m \in Wifi!Mode
  PROVE  EndsWith(Wifi!Switch(m),
                  [conn |-> Wifi!Target(m), path |-> devicePath])
<1> DEFINE first == IF m # currentMode THEN Wifi!Disconnect ELSE <<>>
           want  == [conn |-> Wifi!Target(m), path |-> devicePath]
<1>1. first \in Seq(Wifi!Call)
  BY DisconnectSends DEF EndsWith
<1>2. Wifi!Switch(m) = first \o Wifi!Enter(m)
  BY DEF Wifi!Switch
<1>3. CASE Wifi!Enter(m) # <<>>
  BY <1>1, <1>2, <1>3, EnterSends, EndsWithLast
<1>4. CASE Wifi!Enter(m) = <<>>
  <2>1. Wifi!Switch(m) = first
    BY <1>1, <1>2, <1>4
  <2>2. CASE devicePath = None
    BY <1>1, <2>1, <2>2 DEF Wifi!Disconnect, EndsWith
  <2>3. CASE Wifi!Target(m) = None
    BY <1>1, <2>1, <2>3, DisconnectSends DEF EndsWith
  <2>4. QED BY <1>4, <2>2, <2>3, EnterNothing
<1>5. QED BY <1>3, <1>4

-----------------------------------------------------------------------------
(* The WiFi: types. *)

LEMMA FindSends ==
  ASSUME NEW by \in {"controller", "monitor"}, NEW i \in Iface
  PROVE  Wifi!Find(by, i) \in Seq(Wifi!Call)
<1>1. [call |-> "find", by |-> by, iface |-> i] \in Wifi!Call
  BY DEF Wifi!Call
<1>2. QED BY <1>1 DEF Wifi!Find

LEMMA WifiTypeInit == Wifi!Init => Wifi!TypeOK
<1> SUFFICES ASSUME Wifi!Init PROVE Wifi!TypeOK
  OBVIOUS
<1>1. selected \in Iface /\ devicePath = None /\ mode = currentMode
  BY DEF Wifi!Init
<1>2. Wifi!Switch(mode) = <<>>
  BY <1>1
  DEF Wifi!Switch, Wifi!Enter, Wifi!ConnectToWifi, Wifi!Activate
<1>3. /\ Wifi!Find("monitor", selected) \in Seq(Wifi!Call)
      /\ Wifi!Find("controller", selected) \in Seq(Wifi!Call)
  BY <1>1, FindSends
<1>4. calls \in Seq(Wifi!Call) /\ messages \in Seq(Wifi!Message)
  <2>1. /\ calls = Wifi!Find("monitor", selected)
                    \o Wifi!Find("controller", selected) \o Wifi!Switch(mode)
        /\ messages = <<>>
    BY Zenon DEF Wifi!Init
  <2>2. QED BY <1>2, <1>3, <2>1
<1>5. conn \in [Iface -> Wifi!Connection \cup {None}] /\ active \subseteq Iface
  BY DEF Wifi!Init, Wifi!Connection
<1>6. wanted \in [conn : Wifi!Connection \cup {None}, path : Iface \cup {None}]
  BY DEF Wifi!Init
<1>7. refreshes \in Nat /\ asked \in 0 .. MaxAsked
  <2>1. refreshes = 0 /\ asked = 0
    BY Zenon DEF Wifi!Init
  <2>2. QED BY <2>1, WifiAssumption
<1>8. QED BY <1>4, <1>5, <1>6, <1>7, Zenon DEF Wifi!Init, Wifi!TypeOK, Wifi!Mode

(* What the user asks for is a sequence of calls, and something that can   *)
(* be wanted.                                                              *)
LEMMA AskType ==
  ASSUME Wifi!TypeOK, NEW asks \in Seq(Wifi!Call),
         NEW c \in Wifi!Connection \cup {None}, Wifi!Ask(asks, c)
  PROVE  /\ UNCHANGED <<interface, monitored, watching, refreshes, lost,
                        messages, conn, active>>
         /\ calls' \in Seq(Wifi!Call) /\ asked' \in 0 .. MaxAsked
         /\ wanted' \in [conn : Wifi!Connection \cup {None},
                         path : Iface \cup {None}]
         /\ accepted' \in BOOLEAN
<1>1. /\ UNCHANGED <<interface, monitored, watching, refreshes, lost,
                     messages, conn, active>>
      /\ accepted' \in BOOLEAN
  BY Zenon DEF Wifi!TypeOK, Wifi!Ask, Wifi!monitorVars
<1>2. /\ asked < MaxAsked /\ asked' = asked + 1 /\ calls' = calls \o asks
      /\ \/ UNCHANGED wanted
         \/ wanted' = [conn |-> c, path |-> devicePath]
      /\ calls \in Seq(Wifi!Call) /\ asked \in 0 .. MaxAsked
      /\ devicePath \in Iface \cup {None}
      /\ wanted \in [conn : Wifi!Connection \cup {None},
                     path : Iface \cup {None}]
  BY Zenon DEF Wifi!TypeOK, Wifi!Ask
<1>3. calls' \in Seq(Wifi!Call) /\ asked' \in 0 .. MaxAsked
  BY <1>2, WifiAssumption
<1>4. wanted' \in [conn : Wifi!Connection \cup {None}, path : Iface \cup {None}]
  BY <1>2
<1>5. QED BY <1>1, <1>3, <1>4

WifiAsked ==
  \/ \E i \in Iface : Wifi!SetSelectedInterface(i)
  \/ \E m \in Wifi!Mode : Wifi!SetMode(m)
  \/ \E n \in Network : Wifi!ConnectToNetwork(n)
  \/ Wifi!ApplyHotspot \/ Wifi!DisconnectCurrent \/ Wifi!RequestScan

LEMMA WifiAskedType ==
  ASSUME Wifi!TypeOK, WifiAsked
  PROVE  Wifi!TypeOK'
<1>0. /\ calls \in Seq(Wifi!Call) /\ asked \in 0 .. MaxAsked
      /\ monitored \in Iface \cup {None} /\ interface \in Iface
  BY Zenon DEF Wifi!TypeOK
<1>1. ASSUME NEW i \in Iface, Wifi!SetSelectedInterface(i)
      PROVE  Wifi!TypeOK'
  <2>1. Wifi!Find("controller", i) \in Seq(Wifi!Call)
    BY FindSends
  <2>2. /\ calls' = calls \o Wifi!Find("controller", i) /\ asked' = asked + 1
        /\ asked < MaxAsked
    BY <1>1, Zenon DEF Wifi!SetSelectedInterface
  <2>3. calls' \in Seq(Wifi!Call) /\ asked' \in 0 .. MaxAsked
    BY <1>0, <2>1, <2>2, WifiAssumption
  <2>4. QED
    BY <1>1, <2>3, Zenon
    DEF Wifi!TypeOK, Wifi!SetSelectedInterface, Wifi!monitorVars, Wifi!managerVars
<1>2. ASSUME NEW m \in Wifi!Mode, Wifi!SetMode(m)
      PROVE  Wifi!TypeOK'
  <2>1. /\ Wifi!Switch(m) \in Seq(Wifi!Call)
        /\ Wifi!Target(m) \in Wifi!Connection \cup {None}
    <3>1. clientSsid \in Network \cup {None}
      BY Zenon DEF Wifi!TypeOK
    <3>2. QED BY <1>2, <3>1, SwitchSends DEF EndsWith, Wifi!Target, Wifi!Connection
  <2>2. QED BY <1>2, <2>1, AskType, Zenon DEF Wifi!TypeOK, Wifi!SetMode
<1>3. ASSUME NEW n \in Network, Wifi!ConnectToNetwork(n)
      PROVE  Wifi!TypeOK'
  <2>1. Wifi!ConnectToWifi(n) \in Seq(Wifi!Call) /\ n \in Wifi!Connection
    BY ConnectSends DEF EndsWith, Wifi!Connection
  <2>2. QED
    BY <1>3, <2>1, AskType, Zenon
    DEF Wifi!TypeOK, Wifi!ConnectToNetwork, Wifi!viewVars
<1>4. CASE Wifi!ApplyHotspot
  <2>1. Wifi!Switch("hotspot") \in Seq(Wifi!Call) /\ "hotspot" \in Wifi!Mode
    BY SwitchSends DEF EndsWith, Wifi!Mode
  <2>2. "hotspot" \in Wifi!Connection
    BY DEF Wifi!Connection
  <2>3. QED
    BY <1>4, <2>1, <2>2, AskType, Zenon
    DEF Wifi!TypeOK, Wifi!ApplyHotspot, Wifi!viewVars
<1>5. CASE Wifi!DisconnectCurrent
  <2>1. Wifi!Disconnect \in Seq(Wifi!Call)
    BY DisconnectSends DEF EndsWith
  <2>2. QED
    BY <1>5, <2>1, AskType, Zenon
    DEF Wifi!TypeOK, Wifi!DisconnectCurrent, Wifi!viewVars, Wifi!controllerVars
<1>6. CASE Wifi!RequestScan
  <2>0. /\ asked < MaxAsked /\ asked' = asked + 1
        /\ \/ /\ monitored' = IF monitored = None THEN interface ELSE monitored
              /\ calls' = Append(calls, [call |-> "scan", path |-> monitored'])
           \/ UNCHANGED <<monitored, calls>>
    BY <1>6, Zenon DEF Wifi!RequestScan
  <2>1. monitored' \in Iface \cup {None} /\ asked' \in 0 .. MaxAsked
    BY <1>0, <2>0, WifiAssumption
  <2>2. calls' \in Seq(Wifi!Call)
    <3>1. CASE
            /\ monitored' = IF monitored = None THEN interface ELSE monitored
            /\ calls' = Append(calls, [call |-> "scan", path |-> monitored'])
      <4>1. monitored' \in Iface
        BY <1>0, <3>1
      <4>2. [call |-> "scan", path |-> monitored'] \in Wifi!Call
        BY <4>1 DEF Wifi!Call
      <4>3. QED BY <1>0, <3>1, <4>2
    <3>2. CASE UNCHANGED calls
      BY <1>0, <3>2
    <3>3. QED BY <2>0, <3>1, <3>2
  <2>3. QED
    BY <1>6, <2>1, <2>2, Zenon
    DEF Wifi!TypeOK, Wifi!RequestScan, Wifi!controllerVars, Wifi!managerVars
<1>7. QED BY <1>1, <1>2, <1>3, <1>4, <1>5, <1>6 DEF WifiAsked

(* A message that waits is one of three kinds. *)
LEMMA MessageType ==
  ASSUME NEW m \in Wifi!Message
  PROVE  /\ "iface" \in DOMAIN m => m.iface \in Iface
         /\ "signal" \in DOMAIN m => m.signal \in BOOLEAN
BY DEF Wifi!Message

LEMMA WifiGuiType ==
  ASSUME Wifi!TypeOK, Wifi!GuiThread
  PROVE  Wifi!TypeOK'
<1>0. messages \in Seq(Wifi!Message) /\ refreshes \in Nat
  BY Zenon DEF Wifi!TypeOK
<1>1. ASSUME Wifi!Took
      PROVE  /\ Head(messages) \in Wifi!Message
             /\ messages' \in Seq(Wifi!Message)
  BY <1>0, <1>1 DEF Wifi!Took
<1>2. CASE Wifi!DeviceFound
  <2>1. Head(messages).iface \in Iface /\ messages' \in Seq(Wifi!Message)
    BY <1>1, <1>2, MessageType, Zenon DEF Wifi!DeviceFound
  <2>2. QED
    BY <1>2, <2>1, Zenon
    DEF Wifi!DeviceFound, Wifi!TypeOK, Wifi!viewVars, Wifi!managerVars
<1>3. CASE Wifi!OnDeviceStateChanged
  <2>1. Head(messages).signal \in BOOLEAN /\ messages' \in Seq(Wifi!Message)
    BY <1>1, <1>3, MessageType, Zenon DEF Wifi!OnDeviceStateChanged
  <2>2. QED
    BY <1>3, <2>1, Zenon
    DEF Wifi!OnDeviceStateChanged, Wifi!TypeOK, Wifi!controllerVars,
        Wifi!monitorVars, Wifi!managerVars
<1>4. CASE Wifi!ScanReplied
  <2>1. refreshes' = refreshes + 1 /\ messages' \in Seq(Wifi!Message)
    BY <1>1, <1>4, Zenon DEF Wifi!ScanReplied
  <2>2. refreshes' \in Nat
    BY <1>0, <2>1
  <2>3. QED
    BY <1>4, <2>1, <2>2, Zenon
    DEF Wifi!ScanReplied, Wifi!TypeOK, Wifi!controllerVars, Wifi!managerVars
<1>5. CASE Wifi!RefreshAccessPoints
  <2>1. refreshes > 0 /\ refreshes' = refreshes - 1
    BY <1>5, Zenon DEF Wifi!RefreshAccessPoints
  <2>2. refreshes' \in Nat
    BY <1>0, <2>1
  <2>3. QED
    BY <1>5, <2>2, Zenon
    DEF Wifi!RefreshAccessPoints, Wifi!TypeOK, Wifi!controllerVars,
        Wifi!managerVars
<1>6. QED BY <1>2, <1>3, <1>4, <1>5, Zenon DEF Wifi!GuiThread

(* What the first of the calls names. *)
LEMMA CallType ==
  ASSUME NEW c \in Wifi!Call
  PROVE  /\ c.call = "find" => /\ c.by \in {"controller", "monitor"}
                               /\ c.iface \in Iface
         /\ c.call = "activate" => c.path \in Iface /\ c.conn \in Wifi!Connection
         /\ c.call = "disconnect" => c.path \in Iface
BY DEF Wifi!Call

(* News are messages. *)
LEMMA NewsType ==
  ASSUME messages \in Seq(Wifi!Message), NEW up \in BOOLEAN, NEW i
  PROVE  /\ Wifi!Tell(Wifi!State(i, up)) => messages' \in Seq(Wifi!Message)
         /\ Wifi!Tell(<<>>) => messages' \in Seq(Wifi!Message)
<1>1. [signal |-> up] \in Wifi!Message
  BY DEF Wifi!Message
<1>2. Wifi!State(i, up) \in Seq(Wifi!Message)
  BY <1>1 DEF Wifi!State
<1>3. ASSUME NEW news \in Seq(Wifi!Message), messages' = messages \o news
      PROVE  messages' \in Seq(Wifi!Message)
  BY <1>3
<1>4. <<>> \in Seq(Wifi!Message)
  OBVIOUS
<1>5. QED BY <1>2, <1>3, <1>4, Zenon DEF Wifi!Tell

(* The NetworkManager keeps the types if what it changes has its type.     *)
LEMMA ManagerType ==
  ASSUME Wifi!TypeOK, Wifi!Untouched, calls' \in Seq(Wifi!Call),
         messages' \in Seq(Wifi!Message),
         conn' \in [Iface -> Wifi!Connection \cup {None}],
         active' \subseteq Iface, accepted' \in BOOLEAN
  PROVE  Wifi!TypeOK'
BY Zenon
DEF Wifi!TypeOK, Wifi!Untouched, Wifi!viewVars, Wifi!controllerVars,
    Wifi!monitorVars

LEMMA HandlesType ==
  ASSUME Wifi!TypeOK, NEW name, Wifi!Handles(name)
  PROVE  /\ Head(calls) \in Wifi!Call /\ Head(calls).call = name
         /\ calls' \in Seq(Wifi!Call)
         /\ Wifi!Untouched
         /\ calls \in Seq(Wifi!Call) /\ calls # <<>> /\ calls' = Tail(calls)
<1>1. calls \in Seq(Wifi!Call)
  BY Zenon DEF Wifi!TypeOK
<1>2. calls # <<>> /\ calls' = Tail(calls)
  BY Zenon DEF Wifi!Handles
<1>3. Head(calls) \in Wifi!Call /\ calls' \in Seq(Wifi!Call)
  BY <1>1, <1>2
<1>4. QED BY <1>1, <1>2, <1>3, Zenon DEF Wifi!Handles

LEMMA WifiManagerType ==
  ASSUME Wifi!TypeOK, Wifi!NetworkManager
  PROVE  Wifi!TypeOK'
<1>0. /\ messages \in Seq(Wifi!Message) /\ accepted \in BOOLEAN
      /\ conn \in [Iface -> Wifi!Connection \cup {None}] /\ active \subseteq Iface
  BY Zenon DEF Wifi!TypeOK
<1>1. CASE Wifi!Finds
  <2> DEFINE c == Head(calls)
             found == [reply |-> "find", by |-> c.by, iface |-> c.iface]
  <2>1. found \in Wifi!Message
    <3>1. c.by \in {"controller", "monitor"} /\ c.iface \in Iface
      BY <1>1, HandlesType, CallType, Zenon DEF Wifi!Finds
    <3> HIDE DEF c
    <3>2. QED BY <3>1 DEF Wifi!Message
  <2>2. Wifi!Tell(<<found>>) \/ UNCHANGED messages
    BY <1>1, Zenon DEF Wifi!Finds
  <2> HIDE DEF found
  <2>3. messages' \in Seq(Wifi!Message)
    BY <1>0, <2>1, <2>2 DEF Wifi!Tell
  <2>4. UNCHANGED <<conn, active, accepted>>
    BY <1>1, Zenon DEF Wifi!Finds, Wifi!managerVars
  <2>5. QED
    BY <1>0, <1>1, <2>3, <2>4, HandlesType, ManagerType, Zenon DEF Wifi!Finds
<1>2. CASE Wifi!Activates
  <2> DEFINE c == Head(calls)
  <2>1. c.path \in Iface /\ c.conn \in Wifi!Connection
    BY <1>2, HandlesType, CallType, Zenon DEF Wifi!Activates
  <2>2. CASE /\ conn' = [conn EXCEPT ![c.path] = c.conn]
             /\ active' = active \ {c.path}
             /\ accepted' = TRUE
             /\ Wifi!Tell(Wifi!State(c.path, FALSE))
    <3>1. messages' \in Seq(Wifi!Message)
      BY <1>0, <2>2, NewsType, Zenon
    <3>2. /\ conn' \in [Iface -> Wifi!Connection \cup {None}]
          /\ active' \subseteq Iface /\ accepted' \in BOOLEAN
      BY <1>0, <2>1, <2>2
    <3>3. QED
      BY <1>2, <3>1, <3>2, HandlesType, ManagerType, Zenon DEF Wifi!Activates
  <2>3. CASE accepted' = FALSE /\ UNCHANGED <<conn, active, messages>>
    BY <1>0, <1>2, <2>3, HandlesType, ManagerType, Zenon DEF Wifi!Activates
  <2>4. QED BY <1>2, <2>2, <2>3, Zenon DEF Wifi!Activates
<1>3. CASE Wifi!Deletes
  <2> DEFINE using == {i \in Iface : conn[i] = Head(calls).conn}
  <2>1. /\ conn' = [i \in Iface |-> IF i \in using THEN None ELSE conn[i]]
        /\ active' = active \ using /\ UNCHANGED accepted
        /\ Wifi!Tell(IF monitored \in using
                      THEN Wifi!State(monitored, FALSE) ELSE <<>>)
    BY <1>3, Zenon DEF Wifi!Deletes
  <2> HIDE DEF using
  <2>2. messages' \in Seq(Wifi!Message)
    BY <1>0, <2>1, NewsType, Zenon
  <2>3. /\ conn' \in [Iface -> Wifi!Connection \cup {None}]
        /\ active' \subseteq Iface
    BY <1>0, <2>1
  <2>4. QED
    BY <1>0, <1>3, <2>1, <2>2, <2>3, HandlesType, ManagerType, Zenon
    DEF Wifi!Deletes
<1>4. CASE Wifi!Disconnects
  <2> DEFINE i == Head(calls).path
  <2>1. /\ conn' = [conn EXCEPT ![i] = None] /\ active' = active \ {i}
        /\ Wifi!Tell(IF conn[i] # None THEN Wifi!State(i, FALSE) ELSE <<>>)
        /\ UNCHANGED accepted
    BY <1>4, Zenon DEF Wifi!Disconnects
  <2>2. messages' \in Seq(Wifi!Message)
    BY <1>0, <2>1, NewsType, Zenon
  <2> HIDE DEF i
  <2>3. /\ conn' \in [Iface -> Wifi!Connection \cup {None}]
        /\ active' \subseteq Iface
    BY <1>0, <2>1
  <2>4. QED
    BY <1>0, <1>4, <2>1, <2>2, <2>3, HandlesType, ManagerType, Zenon
    DEF Wifi!Disconnects
<1>5. CASE Wifi!Scans
  <2>1. PICK ok \in BOOLEAN : Wifi!Tell(<<[reply |-> "scan", ok |-> ok]>>)
    BY <1>5, Zenon DEF Wifi!Scans
  <2>2. [reply |-> "scan", ok |-> ok] \in Wifi!Message
    BY DEF Wifi!Message
  <2>3. messages' \in Seq(Wifi!Message)
    BY <1>0, <2>1, <2>2 DEF Wifi!Tell
  <2>4. UNCHANGED <<conn, active, accepted>>
    BY <1>5, Zenon DEF Wifi!Scans, Wifi!managerVars
  <2>5. QED
    BY <1>0, <1>5, <2>3, <2>4, HandlesType, ManagerType, Zenon DEF Wifi!Scans
<1>6. QED BY <1>1, <1>2, <1>3, <1>4, <1>5, Zenon DEF Wifi!NetworkManager

LEMMA WifiTypeStep == Wifi!TypeOK /\ [Wifi!Next]_wifiVars => Wifi!TypeOK'
<1> SUFFICES ASSUME Wifi!TypeOK, [Wifi!Next]_wifiVars PROVE Wifi!TypeOK'
  OBVIOUS
<1>0. /\ messages \in Seq(Wifi!Message) /\ accepted \in BOOLEAN
      /\ conn \in [Iface -> Wifi!Connection \cup {None}] /\ active \subseteq Iface
      /\ calls \in Seq(Wifi!Call)
  BY Zenon DEF Wifi!TypeOK
<1>1. ASSUME NEW i \in Iface, Wifi!ComesUp(i)
      PROVE  Wifi!TypeOK'
  <2>1. /\ active' = active \cup {i} /\ Wifi!Tell(Wifi!State(i, TRUE))
        /\ Wifi!Untouched /\ UNCHANGED <<conn, accepted, calls>>
    BY <1>1, Zenon DEF Wifi!ComesUp
  <2>2. active' \subseteq Iface
    BY <1>0, <2>1
  <2>3. messages' \in Seq(Wifi!Message)
    BY <1>0, <2>1, NewsType, Zenon
  <2>4. QED BY <1>0, <2>1, <2>2, <2>3, ManagerType, Zenon
<1>2. ASSUME NEW i \in Iface, Wifi!GoesDown(i)
      PROVE  Wifi!TypeOK'
  <2>1. /\ conn' = [conn EXCEPT ![i] = None] /\ active' = active \ {i}
        /\ Wifi!Tell(Wifi!State(i, FALSE))
        /\ Wifi!Untouched /\ UNCHANGED calls
        /\ accepted' \in BOOLEAN
    BY <1>2, Zenon DEF Wifi!GoesDown
  <2>2. /\ active' \subseteq Iface
        /\ conn' \in [Iface -> Wifi!Connection \cup {None}]
    BY <1>0, <2>1
  <2>3. messages' \in Seq(Wifi!Message)
    BY <1>0, <2>1, NewsType, Zenon
  <2>4. QED BY <1>0, <2>1, <2>2, <2>3, ManagerType, Zenon
<1>3. CASE UNCHANGED wifiVars
  BY <1>3, Zenon DEF wifiVars, Wifi!TypeOK
<1>4. QED
  BY <1>1, <1>2, <1>3, WifiAskedType, WifiGuiType, WifiManagerType, Zenon
  DEF Wifi!Next, WifiAsked

-----------------------------------------------------------------------------
(* The WiFi: the last request. *)

(* What is still to be done grants what is wanted, or nothing that is to   *)
(* be done concerns it and, if it was accepted, it is so.                  *)
WantedComes ==
  \/ \E k \in 1 .. Len(calls) :
       /\ Grants(calls[k], wanted)
       /\ \A l \in k + 1 .. Len(calls) : ~Changes(calls[l])
  \/ /\ \A l \in 1 .. Len(calls) : ~Changes(calls[l])
     /\ accepted => conn[wanted.path] = wanted.conn

(* A request puts what grants it last. *)
LEMMA RequestComes ==
  ASSUME Wifi!TypeOK, WantedComes, NEW asks, NEW c, Wifi!Ask(asks, c),
         EndsWith(asks, [conn |-> c, path |-> devicePath])
  PROVE  WantedComes'
<1>1. /\ calls \in Seq(Wifi!Call)
      /\ calls' = calls \o asks /\ UNCHANGED conn
      /\ IF asks = <<>> THEN UNCHANGED <<wanted, accepted>>
         ELSE wanted' = [conn |-> c, path |-> devicePath]
  BY Zenon DEF Wifi!TypeOK, Wifi!Ask
<1>2. CASE asks = <<>>
  <2>1. calls' = calls /\ UNCHANGED <<wanted, accepted, conn>>
    BY <1>1, <1>2
  <2>2. QED BY <2>1 DEF WantedComes
<1>3. CASE asks # <<>>
  <2>1. /\ asks \in Seq(Wifi!Call)
        /\ Grants(asks[Len(asks)], [conn |-> c, path |-> devicePath])
    BY <1>3 DEF EndsWith
  <2>2. /\ Len(calls') = Len(calls) + Len(asks)
        /\ Len(calls') \in 1 .. Len(calls')
        /\ calls'[Len(calls')] = asks[Len(asks)]
    BY <1>1, <1>3, <2>1
  <2>3. Grants(calls'[Len(calls')], wanted')
    BY <1>1, <1>3, <2>1, <2>2, Zenon
  <2>4. \A l \in Len(calls') + 1 .. Len(calls') : FALSE
    BY <2>2
  <2>5. QED
    BY <2>2, <2>3, <2>4, Zenon DEF WantedComes
<1>4. QED BY <1>2, <1>3

(* Calls that change nothing may come after it. *)
LEMMA QueryComes ==
  ASSUME Wifi!TypeOK, WantedComes, NEW call, ~Changes(call),
         calls' = Append(calls, call) \/ UNCHANGED calls,
         UNCHANGED <<wanted, accepted, conn>>
  PROVE  WantedComes'
<1>1. calls \in Seq(Wifi!Call)
  BY Zenon DEF Wifi!TypeOK
<1>2. CASE UNCHANGED calls
  BY <1>2 DEF WantedComes
<1>3. CASE calls' = Append(calls, call)
  <2>1. /\ Len(calls') = Len(calls) + 1 /\ Len(calls) \in Nat
        /\ \A k \in 1 .. Len(calls) : calls'[k] = calls[k]
        /\ calls'[Len(calls) + 1] = call
    BY <1>1, <1>3
  <2>2. \A k \in 1 .. Len(calls') : k \in 1 .. Len(calls) \/ k = Len(calls) + 1
    BY <2>1
  <2>3. CASE \E k \in 1 .. Len(calls) :
               /\ Grants(calls[k], wanted)
               /\ \A l \in k + 1 .. Len(calls) : ~Changes(calls[l])
    <3>1. PICK k \in 1 .. Len(calls) :
                 /\ Grants(calls[k], wanted)
                 /\ \A l \in k + 1 .. Len(calls) : ~Changes(calls[l])
      BY <2>3
    <3>2. k \in 1 .. Len(calls') /\ Grants(calls'[k], wanted')
      BY <2>1, <3>1
    <3>3. ASSUME NEW l \in k + 1 .. Len(calls')
          PROVE  ~Changes(calls'[l])
      <4>1. l \in k + 1 .. Len(calls) \/ l = Len(calls) + 1
        BY <2>1
      <4>2. l \in k + 1 .. Len(calls) => calls'[l] = calls[l]
        BY <2>1
      <4>3. QED BY <2>1, <3>1, <4>1, <4>2
    <3>4. QED BY <3>2, <3>3 DEF WantedComes
  <2>4. CASE /\ \A l \in 1 .. Len(calls) : ~Changes(calls[l])
             /\ accepted => conn[wanted.path] = wanted.conn
    <3>1. \A l \in 1 .. Len(calls') : ~Changes(calls'[l])
      BY <2>1, <2>2, <2>4
    <3>2. QED BY <2>4, <3>1 DEF WantedComes
  <2>5. QED BY <2>3, <2>4 DEF WantedComes
<1>4. QED BY <1>2, <1>3

(* The first call is handled: if it grants what is wanted, that is so; if  *)
(* it changes nothing, nothing is changed.                                 *)
LEMMA FirstHandled ==
  ASSUME calls \in Seq(Wifi!Call), calls # <<>>, calls' = Tail(calls),
         UNCHANGED wanted, WantedComes,
         Grants(Head(calls), wanted)
           => (accepted' => conn'[wanted.path] = wanted.conn),
         ~Changes(Head(calls)) => UNCHANGED <<conn, accepted>>
  PROVE  WantedComes'
<1>1. /\ Len(calls) \in Nat \ {0} /\ Len(calls') = Len(calls) - 1
      /\ \A k \in 1 .. Len(calls') : calls'[k] = calls[k + 1]
      /\ Head(calls) = calls[1]
  OBVIOUS
<1>2. ASSUME NEW k \in 1 .. Len(calls),
             \A l \in k + 1 .. Len(calls) : ~Changes(calls[l])
      PROVE  \A l \in k .. Len(calls') : l > 0 => ~Changes(calls'[l])
  <2> TAKE l \in k .. Len(calls')
  <2>1. l \in 1 .. Len(calls') /\ l + 1 \in k + 1 .. Len(calls)
    BY <1>1
  <2>2. QED BY <1>1, <1>2, <2>1
<1>3. CASE \E k \in 1 .. Len(calls) :
             /\ Grants(calls[k], wanted)
             /\ \A l \in k + 1 .. Len(calls) : ~Changes(calls[l])
  <2>1. PICK k \in 1 .. Len(calls) :
               /\ Grants(calls[k], wanted)
               /\ \A l \in k + 1 .. Len(calls) : ~Changes(calls[l])
    BY <1>3
  <2>2. CASE k = 1
    <3>1. accepted' => conn'[wanted'.path] = wanted'.conn
      BY <1>1, <2>1, <2>2, Zenon
    <3>2. \A l \in 1 .. Len(calls') : ~Changes(calls'[l])
      BY <1>2, <2>1, <2>2
    <3>3. QED BY <3>1, <3>2, Zenon DEF WantedComes
  <2>3. CASE k # 1
    <3>1. k - 1 \in 1 .. Len(calls') /\ calls'[k - 1] = calls[k]
          /\ (k - 1) + 1 = k
      BY <1>1, <2>3
    <3>2. \A l \in (k - 1) + 1 .. Len(calls') : ~Changes(calls'[l])
      BY <1>1, <1>2, <2>1, <3>1
    <3>3. Grants(calls'[k - 1], wanted')
      BY <2>1, <3>1, Zenon
    <3>4. QED BY <3>1, <3>2, <3>3, Zenon DEF WantedComes
  <2>4. QED BY <2>2, <2>3
<1>4. CASE /\ \A l \in 1 .. Len(calls) : ~Changes(calls[l])
           /\ accepted => conn[wanted.path] = wanted.conn
  <2>1. ~Changes(Head(calls))
    BY <1>1, <1>4
  <2>2. accepted' => conn'[wanted'.path] = wanted'.conn
    BY <1>4, <2>1, Zenon
  <2>3. \A l \in 1 .. Len(calls') : ~Changes(calls'[l])
    <3> TAKE l \in 1 .. Len(calls')
    <3>1. l + 1 \in 1 .. Len(calls)
      BY <1>1
    <3>2. QED BY <1>1, <1>4, <3>1
  <2>4. QED BY <2>2, <2>3, Zenon DEF WantedComes
<1>5. QED BY <1>3, <1>4, Zenon DEF WantedComes

LEMMA TwoCalls ==
  ASSUME NEW a \in Wifi!Call, NEW b \in Wifi!Call,
         NEW s, s = (<<a>> \o <<b>>) \o <<>>
  PROVE  Len(s) = 2 /\ s[1] = a /\ s[2] = b
OBVIOUS

LEMMA WantedInit == Wifi!Init => WantedComes
<1> SUFFICES ASSUME Wifi!Init PROVE WantedComes
  OBVIOUS
<1>1. /\ accepted = FALSE /\ devicePath = None /\ mode = currentMode
      /\ selected \in Iface
      /\ calls = Wifi!Find("monitor", selected)
                  \o Wifi!Find("controller", selected) \o Wifi!Switch(mode)
  BY Zenon DEF Wifi!Init
<1>2. Wifi!Switch(mode) = <<>>
  BY <1>1
  DEF Wifi!Switch, Wifi!Enter, Wifi!ConnectToWifi, Wifi!Activate
<1> DEFINE find(by) == [call |-> "find", by |-> by, iface |-> selected]
<1>3. /\ Wifi!Find("monitor", selected) = <<find("monitor")>>
      /\ Wifi!Find("controller", selected) = <<find("controller")>>
  BY DEF Wifi!Find
<1>4. /\ ~Changes(find("monitor")) /\ ~Changes(find("controller"))
      /\ find("monitor") \in Wifi!Call /\ find("controller") \in Wifi!Call
  BY <1>1 DEF Changes, Wifi!Call
<1> HIDE DEF find
<1>5. \A l \in 1 .. Len(calls) : ~Changes(calls[l])
  <2>1. /\ Len(calls) = 2
        /\ calls[1] = find("monitor") /\ calls[2] = find("controller")
    <3>1. calls = (<<find("monitor")>> \o <<find("controller")>>) \o <<>>
      BY <1>1, <1>2, <1>3
    <3>2. QED BY <1>4, <3>1, TwoCalls
  <2>2. QED BY <1>4, <2>1
<1>6. QED BY <1>1, <1>5, Zenon DEF WantedComes

LEMMA OneCall ==
  ASSUME NEW before \in Seq(Wifi!Call), NEW call \in Wifi!Call
  PROVE  before \o <<call>> = Append(before, call)
OBVIOUS

LEMMA WantedAsked ==
  ASSUME Wifi!TypeOK, WantedComes, WifiAsked
  PROVE  WantedComes'
<1>1. ASSUME NEW i \in Iface, Wifi!SetSelectedInterface(i)
      PROVE  WantedComes'
  <2> DEFINE find == [call |-> "find", by |-> "controller", iface |-> i]
  <2>1. /\ calls' = calls \o Wifi!Find("controller", i)
        /\ UNCHANGED <<wanted, accepted, conn>>
    BY <1>1, Zenon DEF Wifi!SetSelectedInterface, Wifi!managerVars
  <2>2. /\ ~Changes(find) /\ Wifi!Find("controller", i) = <<find>>
        /\ find \in Wifi!Call
    BY DEF Changes, Wifi!Find, Wifi!Call
  <2> HIDE DEF find
  <2>3. calls \in Seq(Wifi!Call)
    BY Zenon DEF Wifi!TypeOK
  <2>4. calls' = Append(calls, find)
    BY <2>1, <2>2, <2>3, OneCall
  <2>5. QED BY <2>1, <2>2, <2>4, QueryComes
<1>2. ASSUME NEW m \in Wifi!Mode, Wifi!SetMode(m)
      PROVE  WantedComes'
  BY <1>2, SwitchSends, RequestComes, Zenon DEF Wifi!SetMode
<1>3. ASSUME NEW n \in Network, Wifi!ConnectToNetwork(n)
      PROVE  WantedComes'
  BY <1>3, ConnectSends, RequestComes, Zenon DEF Wifi!ConnectToNetwork
<1>4. CASE Wifi!ApplyHotspot
  <2>1. "hotspot" \in Wifi!Mode /\ Wifi!Target("hotspot") = "hotspot"
    BY DEF Wifi!Mode, Wifi!Target
  <2>2. EndsWith(Wifi!Switch("hotspot"),
                 [conn |-> "hotspot", path |-> devicePath])
    BY <2>1, SwitchSends
  <2>3. QED BY <1>4, <2>2, RequestComes, Zenon DEF Wifi!ApplyHotspot
<1>5. CASE Wifi!DisconnectCurrent
  BY <1>5, DisconnectSends, RequestComes, Zenon DEF Wifi!DisconnectCurrent
<1>6. CASE Wifi!RequestScan
  <2> DEFINE scan == [call |-> "scan", path |-> monitored']
  <2>1. ~Changes(scan)
    BY DEF Changes
  <2>2. /\ calls' = Append(calls, scan) \/ UNCHANGED calls
        /\ UNCHANGED <<wanted, accepted, conn>>
    BY <1>6, Zenon DEF Wifi!RequestScan, Wifi!managerVars
  <2> HIDE DEF scan
  <2>3. QED BY <2>1, <2>2, QueryComes, Zenon
<1>7. QED BY <1>1, <1>2, <1>3, <1>4, <1>5, <1>6, Zenon DEF WifiAsked

LEMMA WantedManaged ==
  ASSUME Wifi!TypeOK, WantedComes, Wifi!NetworkManager
  PROVE  WantedComes'
<1>0. conn \in [Iface -> Wifi!Connection \cup {None}]
  BY Zenon DEF Wifi!TypeOK
<1> DEFINE c == Head(calls)
<1>1. /\ c \in Wifi!Call /\ UNCHANGED wanted
      /\ calls \in Seq(Wifi!Call) /\ calls # <<>> /\ calls' = Tail(calls)
  BY HandlesType, Zenon
  DEF Wifi!NetworkManager, Wifi!Finds, Wifi!Activates, Wifi!Deletes,
      Wifi!Disconnects, Wifi!Scans, Wifi!Untouched
<1>2. ASSUME Wifi!Finds \/ Wifi!Scans
      PROVE  WantedComes'
  <2>1. c.call \in {"find", "scan"} /\ UNCHANGED <<conn, accepted>>
    BY <1>2, Zenon
    DEF Wifi!Finds, Wifi!Scans, Wifi!Handles, Wifi!managerVars
  <2>2. ~Grants(c, wanted)
    BY <2>1 DEF Grants
  <2>3. QED BY <1>1, <2>1, <2>2, FirstHandled, Zenon
<1>3. CASE Wifi!Activates
  <2>1. /\ c.call = "activate"
        /\ accepted' => conn' = [conn EXCEPT ![c.path] = c.conn]
    BY <1>3, Zenon DEF Wifi!Activates, Wifi!Handles
  <2>2. c.path \in Iface
    BY <1>1, <2>1, CallType, Zenon
  <2>3. accepted' => conn'[c.path] = c.conn
    BY <1>0, <2>1, <2>2, Zenon
  <2>4. Grants(c, wanted) => c.path = wanted.path /\ c.conn = wanted.conn
    BY <2>1 DEF Grants
  <2>5. Changes(c)
    BY <2>1 DEF Changes
  <2> HIDE DEF c
  <2>6. QED BY <1>1, <2>3, <2>4, <2>5, FirstHandled, Zenon DEF c
<1>4. CASE Wifi!Deletes
  <2>1. c.call = "delete"
    BY <1>4, Zenon DEF Wifi!Deletes, Wifi!Handles
  <2>2. Changes(c) /\ ~Grants(c, wanted)
    BY <2>1 DEF Changes, Grants
  <2>3. QED BY <1>1, <2>2, FirstHandled, Zenon
<1>5. CASE Wifi!Disconnects
  <2>1. c.call = "disconnect" /\ conn' = [conn EXCEPT ![c.path] = None]
    BY <1>5, Zenon DEF Wifi!Disconnects, Wifi!Handles
  <2>2. c.path \in Iface
    BY <1>1, <2>1, CallType, Zenon
  <2>3. conn'[c.path] = None
    BY <1>0, <2>1, <2>2, Zenon
  <2>4. Grants(c, wanted) => c.path = wanted.path /\ wanted.conn = None
    BY <2>1 DEF Grants
  <2>5. Changes(c)
    BY <2>1 DEF Changes
  <2> HIDE DEF c
  <2>6. QED BY <1>1, <2>3, <2>4, <2>5, FirstHandled, Zenon DEF c
<1>6. QED BY <1>2, <1>3, <1>4, <1>5, Zenon DEF Wifi!NetworkManager

LEMMA WantedStep ==
  Wifi!TypeOK /\ WantedComes /\ [Wifi!Next]_wifiVars => WantedComes'
<1> SUFFICES ASSUME Wifi!TypeOK, WantedComes, [Wifi!Next]_wifiVars
             PROVE  WantedComes'
  OBVIOUS
<1>1. ASSUME UNCHANGED <<calls, conn, wanted, accepted>>
      PROVE  WantedComes'
  BY <1>1 DEF WantedComes
<1>2. CASE Wifi!GuiThread \/ UNCHANGED wifiVars
  BY <1>1, <1>2, Zenon
  DEF Wifi!GuiThread, Wifi!DeviceFound, Wifi!OnDeviceStateChanged,
      Wifi!ScanReplied, Wifi!RefreshAccessPoints, Wifi!managerVars, wifiVars
<1>3. ASSUME NEW i \in Iface, Wifi!ComesUp(i)
      PROVE  WantedComes'
  BY <1>1, <1>3, Zenon DEF Wifi!ComesUp, Wifi!Untouched
<1>4. ASSUME NEW i \in Iface, Wifi!GoesDown(i)
      PROVE  WantedComes'
  <2>1. /\ UNCHANGED <<calls, wanted>>
        /\ conn' = [conn EXCEPT ![i] = None]
        /\ accepted' <=> (accepted /\ wanted.path # i)
    BY <1>4, Zenon DEF Wifi!GoesDown, Wifi!Untouched
  <2>2. conn \in [Iface -> Wifi!Connection \cup {None}]
    BY Zenon DEF Wifi!TypeOK
  <2>3. wanted.path # i => conn'[wanted.path] = conn[wanted.path]
    BY <2>1, <2>2
  <2>4. accepted' => accepted /\ conn'[wanted.path] = conn[wanted.path]
    BY <2>1, <2>3, Zenon
  <2>5. QED BY <2>1, <2>4, Zenon DEF WantedComes
<1>5. QED
  BY <1>2, <1>3, <1>4, WantedAsked, WantedManaged, Zenon
  DEF Wifi!Next, WifiAsked

-----------------------------------------------------------------------------
(* The Bluetooth server: bytes and messages. *)

Size(m) == Bluetooth!Header + m.length

(* As in Bluetooth!Are; and the ends are in order.                         *)
Cut(end, bytes, ms) ==
  /\ end \in [0 .. Len(ms) -> Nat]
  /\ end[0] = 0 /\ end[Len(ms)] = Len(bytes)
  /\ \A k \in 1 .. Len(ms) :
       /\ end[k] = end[k - 1] + Size(ms[k])
       /\ \A i \in 1 .. Size(ms[k]) :
            bytes[end[k - 1] + i] = Bluetooth!Bytes(ms[k])[i]
  /\ \A j, k \in 0 .. Len(ms) : j <= k => end[j] <= end[k]

LEMMA SizeType ==
  ASSUME NEW m \in Bluetooth!Message
  PROVE  /\ Size(m) \in Nat /\ Size(m) >= Bluetooth!Header
         /\ Size(m) <= Bluetooth!Header + MaxLength
         /\ Bluetooth!Header = 4 /\ MaxLength \in Nat
BY ServerAssumption DEF Size, Bluetooth!Header, Bluetooth!Message

LEMMA BytesType ==
  ASSUME NEW m \in Bluetooth!Message
  PROVE  /\ Bluetooth!Bytes(m) \in Seq(Bluetooth!Byte)
         /\ Len(Bluetooth!Bytes(m)) = Size(m)
         /\ \A i \in 1 .. Size(m) :
              Bluetooth!Bytes(m)[i] = [message |-> m, i |-> i]
<1> DEFINE byte(i) == [message |-> m, i |-> i]
<1>1. Bluetooth!Bytes(m) = [i \in 1 .. Size(m) |-> byte(i)]
  BY DEF Bluetooth!Bytes, Size
<1>2. ASSUME NEW i \in 1 .. Size(m) PROVE byte(i) \in Bluetooth!Byte
  <2>1. i \in 1 .. Bluetooth!Header + MaxLength
    BY SizeType
  <2>2. QED BY <2>1 DEF Bluetooth!Byte
<1>3. Size(m) \in Nat
  BY SizeType
<1> HIDE DEF byte
<1>4. /\ Bluetooth!Bytes(m) \in Seq(Bluetooth!Byte)
      /\ Len(Bluetooth!Bytes(m)) = Size(m)
      /\ \A i \in 1 .. Size(m) : Bluetooth!Bytes(m)[i] = byte(i)
  BY <1>1, <1>2, <1>3
<1>5. QED BY <1>4 DEF byte

(* Bytes that can be cut into messages are those of the messages. *)
LEMMA CutIsAre ==
  ASSUME NEW bytes \in Seq(Bluetooth!Byte), NEW ms \in Seq(Bluetooth!Message),
         NEW end, Cut(end, bytes, ms)
  PROVE  Bluetooth!Are(bytes, ms)
<1>1. end \in [0 .. Len(ms) -> 0 .. Len(bytes)]
  BY DEF Cut
<1>2. /\ end[0] = 0 /\ end[Len(ms)] = Len(bytes)
      /\ \A k \in 1 .. Len(ms) :
           /\ end[k] = end[k - 1] + Bluetooth!Header + ms[k].length
           /\ \A i \in 1 .. Bluetooth!Header + ms[k].length :
                bytes[end[k - 1] + i] = Bluetooth!Bytes(ms[k])[i]
  <2>1. ASSUME NEW k \in 1 .. Len(ms)
        PROVE  end[k] = end[k - 1] + Bluetooth!Header + ms[k].length
    <3>1. end[k] \in Nat /\ end[k - 1] \in Nat
      BY <1>1
    <3>2. end[k] = end[k - 1] + (Bluetooth!Header + ms[k].length)
      BY Zenon DEF Cut, Size
    <3>3. ms[k] \in Bluetooth!Message
      OBVIOUS
    <3>4. ms[k].length \in Nat /\ Bluetooth!Header \in Nat
      BY <3>3, ServerAssumption DEF Bluetooth!Message, Bluetooth!Header
    <3>5. QED BY <3>1, <3>2, <3>4
  <2>2. QED BY <2>1, Zenon DEF Cut, Size
<1>3. QED
  BY <1>1, <1>2, Zenon DEF Bluetooth!Are

LEMMA CutNothing == \E end : Cut(end, <<>>, <<>>)
<1> DEFINE end == [k \in 0 .. 0 |-> 0]
<1>1. Cut(end, <<>>, <<>>)
  BY DEF Cut
<1>2. QED BY <1>1

(* A message that is sent is the last one. *)
LEMMA CutLast ==
  ASSUME NEW bytes \in Seq(Bluetooth!Byte), NEW ms \in Seq(Bluetooth!Message),
         NEW m \in Bluetooth!Message, NEW end, Cut(end, bytes, ms)
  PROVE  \E e : Cut(e, bytes \o Bluetooth!Bytes(m), Append(ms, m))
<1> DEFINE n == Len(ms)
           all == bytes \o Bluetooth!Bytes(m)
           ms1 == Append(ms, m)
           e == [k \in 0 .. n + 1 |-> IF k <= n THEN end[k] ELSE end[n] + Size(m)]
<1>1. n \in Nat /\ Size(m) \in Nat /\ Len(bytes) \in Nat
  BY SizeType
<1>2. Len(ms1) = n + 1 /\ ms1[n + 1] = m /\ \A k \in 1 .. n : ms1[k] = ms[k]
  BY AppendProperties
<1>3. /\ Len(all) = Len(bytes) + Size(m)
      /\ \A i \in 1 .. Len(bytes) : all[i] = bytes[i]
      /\ \A i \in 1 .. Size(m) : all[Len(bytes) + i] = Bluetooth!Bytes(m)[i]
  <2> DEFINE b == Bluetooth!Bytes(m)
  <2>1. b \in Seq(Bluetooth!Byte) /\ Len(b) = Size(m)
    BY BytesType
  <2> HIDE DEF b
  <2>2. /\ Len(bytes \o b) = Len(bytes) + Size(m)
        /\ \A i \in 1 .. Len(bytes) : (bytes \o b)[i] = bytes[i]
        /\ \A i \in 1 .. Size(m) : (bytes \o b)[Len(bytes) + i] = b[i]
    BY <1>1, <2>1
  <2>3. QED BY <2>2 DEF b
<1> HIDE DEF ms1, all, n
<1>4. end \in [0 .. n -> Nat] /\ end[0] = 0 /\ end[n] = Len(bytes)
  BY Zenon DEF Cut, n
<1>5. /\ e \in [0 .. n + 1 -> Nat] /\ e[n + 1] = Len(bytes) + Size(m)
      /\ \A k \in 0 .. n : e[k] = end[k]
  BY <1>1, <1>4
<1> HIDE DEF e
<1>6. ASSUME NEW k \in 0 .. n
      PROVE  end[k] \in Nat /\ end[k] <= Len(bytes)
  <2>1. n \in 0 .. n /\ k <= n
    BY <1>1
  <2>2. end[k] <= end[n]
    BY <2>1 DEF Cut, n
  <2>3. QED BY <1>4, <2>2
<1>7. ASSUME NEW j \in 0 .. n + 1, NEW k \in 0 .. n + 1, j <= k
      PROVE  e[j] <= e[k]
  <2>1. CASE k \in 0 .. n
    <3>1. j \in 0 .. n
      BY <1>1, <1>7, <2>1
    <3>2. end[j] <= end[k]
      BY <1>7, <2>1, <3>1 DEF Cut, n
    <3>3. QED BY <1>5, <2>1, <3>1, <3>2
  <2>2. CASE k = n + 1 /\ j \in 0 .. n
    <3>1. e[j] = end[j] /\ e[k] = Len(bytes) + Size(m)
      BY <1>5, <2>2
    <3>2. QED BY <1>1, <1>6, <2>2, <3>1
  <2>3. CASE k = n + 1 /\ j = n + 1
    BY <1>1, <1>5, <2>3
  <2>4. QED BY <1>1, <2>1, <2>2, <2>3
<1>8. ASSUME NEW k \in 1 .. n
      PROVE  /\ e[k] = e[k - 1] + Size(ms1[k])
             /\ \A i \in 1 .. Size(ms1[k]) :
                  all[e[k - 1] + i] = Bluetooth!Bytes(ms1[k])[i]
  <2>0. k \in 0 .. n /\ k - 1 \in 0 .. n
    BY <1>1
  <2>1. e[k] = end[k] /\ e[k - 1] = end[k - 1] /\ ms1[k] = ms[k]
    BY <1>2, <1>5, <2>0
  <2>2. Size(ms[k]) \in Nat
    BY SizeType DEF n
  <2>3. end[k] = end[k - 1] + Size(ms[k])
    BY Zenon DEF Cut, n
  <2>4. ASSUME NEW i \in 1 .. Size(ms[k])
        PROVE  all[end[k - 1] + i] = Bluetooth!Bytes(ms[k])[i]
    <3>1. /\ end[k] \in Nat /\ end[k] <= Len(bytes)
          /\ end[k - 1] \in Nat
      BY <1>6, <2>0
    <3>2. end[k - 1] + i \in 1 .. Len(bytes)
      BY <1>1, <2>2, <2>3, <3>1
    <3>3. bytes[end[k - 1] + i] = Bluetooth!Bytes(ms[k])[i]
      BY Zenon DEF Cut, n
    <3>4. QED BY <1>3, <3>2, <3>3
  <2>5. QED BY <2>1, <2>3, <2>4
<1>9. /\ e[n + 1] = e[(n + 1) - 1] + Size(ms1[n + 1])
      /\ \A i \in 1 .. Size(ms1[n + 1]) :
           all[e[(n + 1) - 1] + i] = Bluetooth!Bytes(ms1[n + 1])[i]
  <2>1. (n + 1) - 1 = n /\ n \in 0 .. n
    BY <1>1
  <2>2. e[n] = Len(bytes)
    BY <1>4, <1>5, <2>1
  <2>3. QED BY <1>2, <1>3, <1>5, <2>1, <2>2
<1>10. \A k \in 1 .. n + 1 : k \in 1 .. n \/ k = n + 1
  BY <1>1
<1>11. e[0] = 0 /\ e[n + 1] = Len(all)
  <2>1. 0 \in 0 .. n
    BY <1>1
  <2>2. e[0] = end[0]
    BY <1>5, <2>1, Zenon
  <2>3. QED BY <1>3, <1>4, <1>5, <2>2, Zenon
<1>12. Cut(e, all, ms1)
  BY <1>2, <1>5, <1>7, <1>8, <1>9, <1>10, <1>11, Zenon DEF Cut
<1>13. QED BY <1>12 DEF all, ms1

(* Bytes begin with the first of the messages, whole. *)
LEMMA CutFirst ==
  ASSUME NEW bytes \in Seq(Bluetooth!Byte), NEW ms \in Seq(Bluetooth!Message),
         NEW end, Cut(end, bytes, ms), bytes # <<>>
  PROVE  /\ ms # <<>> /\ ms[1] \in Bluetooth!Message
         /\ Size(ms[1]) <= Len(bytes) /\ end[1] = Size(ms[1])
         /\ \A i \in 1 .. Size(ms[1]) : bytes[i] = [message |-> ms[1], i |-> i]
<1>1. end[0] = 0 /\ end[Len(ms)] = Len(bytes) /\ end \in [0 .. Len(ms) -> Nat]
  BY Zenon DEF Cut
<1>2. Len(bytes) # 0
  BY EmptySeq
<1>3. ms # <<>>
  BY <1>1, <1>2, EmptySeq
<1>4. Len(ms) \in Nat /\ 1 \in 1 .. Len(ms) /\ 1 - 1 = 0
  BY <1>3, EmptySeq
<1>5. ms[1] \in Bluetooth!Message
  BY <1>4
<1>6. Size(ms[1]) \in Nat
  BY <1>5, SizeType
<1>7. /\ end[1] = end[1 - 1] + Size(ms[1])
      /\ \A i \in 1 .. Size(ms[1]) :
           bytes[end[1 - 1] + i] = Bluetooth!Bytes(ms[1])[i]
  BY <1>4, Zenon DEF Cut
<1>8. end[1] = Size(ms[1])
  BY <1>1, <1>4, <1>6, <1>7
<1>9. Size(ms[1]) <= Len(bytes)
  <2>1. 1 \in 0 .. Len(ms) /\ Len(ms) \in 0 .. Len(ms) /\ 1 <= Len(ms)
    BY <1>4
  <2>2. end[1] <= end[Len(ms)]
    BY <2>1 DEF Cut
  <2>3. QED BY <1>1, <1>8, <2>2
<1>10. ASSUME NEW i \in 1 .. Size(ms[1])
       PROVE  bytes[i] = [message |-> ms[1], i |-> i]
  <2>1. end[1 - 1] + i = i
    BY <1>1, <1>4, <1>6
  <2>2. bytes[i] = Bluetooth!Bytes(ms[1])[i]
    BY <1>7, <2>1, Zenon
  <2>3. QED BY <1>5, <2>2, BytesType, Zenon
<1>11. QED BY <1>3, <1>5, <1>8, <1>9, <1>10

(* What follows the first message is the rest of them. *)
LEMMA CutRest ==
  ASSUME NEW bytes \in Seq(Bluetooth!Byte), NEW ms \in Seq(Bluetooth!Message),
         NEW end, Cut(end, bytes, ms), bytes # <<>>
  PROVE  \E e : Cut(e, SubSeq(bytes, Size(ms[1]) + 1, Len(bytes)), Tail(ms))
<1> DEFINE n == Len(ms) - 1
           d == Size(ms[1])
           rest == SubSeq(bytes, d + 1, Len(bytes))
           ms1 == Tail(ms)
           e == [k \in 0 .. n |-> end[k + 1] - d]
<1>1. /\ ms # <<>> /\ ms[1] \in Bluetooth!Message
      /\ d <= Len(bytes) /\ end[1] = d /\ Len(bytes) \in Nat
  BY CutFirst
<1>2. d \in Nat
  BY <1>1, SizeType
<1>3. /\ n \in Nat /\ Len(ms) = n + 1 /\ Len(ms1) = n
      /\ \A k \in 1 .. n : ms1[k] = ms[k + 1]
  BY <1>1
<1>4. /\ Len(rest) = Len(bytes) - d
      /\ \A i \in 1 .. Len(bytes) - d : rest[i] = bytes[d + i]
  <2> HIDE DEF d
  <2>1. QED BY <1>1, <1>2
<1>5. /\ end \in [0 .. n + 1 -> Nat] /\ end[n + 1] = Len(bytes)
  BY <1>3, Zenon DEF Cut
<1> HIDE DEF n, d, ms1, rest
<1>6. ASSUME NEW k \in 1 .. n + 1
      PROVE  end[k] \in Nat /\ d <= end[k] /\ end[k] <= Len(bytes)
  <2>1. /\ k \in 0 .. Len(ms) /\ 1 \in 0 .. Len(ms) /\ Len(ms) \in 0 .. Len(ms)
        /\ 1 <= k /\ k <= Len(ms)
    BY <1>3
  <2>2. end[1] <= end[k] /\ end[k] <= end[Len(ms)]
    BY <2>1 DEF Cut
  <2>3. QED BY <1>1, <1>3, <1>5, <2>1, <2>2
<1>7. /\ e \in [0 .. n -> Nat]
      /\ \A k \in 0 .. n : e[k] = end[k + 1] - d
  <2>1. ASSUME NEW k \in 0 .. n PROVE end[k + 1] - d \in Nat
    <3>1. k + 1 \in 1 .. n + 1
      BY <1>3
    <3>2. QED BY <1>2, <1>6, <3>1
  <2>2. QED BY <2>1
<1> HIDE DEF e
<1>8. e[0] = 0 /\ e[n] = Len(rest)
  <2>1. 0 \in 0 .. n /\ n \in 0 .. n /\ 0 + 1 = 1
    BY <1>3
  <2>2. e[0] = end[1] - d /\ e[n] = end[n + 1] - d
    BY <1>7, <2>1
  <2>3. QED BY <1>1, <1>2, <1>4, <1>5, <2>2
<1>9. ASSUME NEW j \in 0 .. n, NEW k \in 0 .. n, j <= k
      PROVE  e[j] <= e[k]
  <2>1. j + 1 \in 0 .. Len(ms) /\ k + 1 \in 0 .. Len(ms) /\ j + 1 <= k + 1
    BY <1>3, <1>9
  <2>2. end[j + 1] <= end[k + 1]
    BY <2>1 DEF Cut
  <2>3. j + 1 \in 1 .. n + 1 /\ k + 1 \in 1 .. n + 1
    BY <1>3
  <2>4. end[j + 1] \in Nat /\ end[k + 1] \in Nat
    BY <1>6, <2>3
  <2>5. e[j] = end[j + 1] - d /\ e[k] = end[k + 1] - d
    BY <1>7
  <2>6. QED BY <1>2, <2>2, <2>4, <2>5
<1>10. ASSUME NEW k \in 1 .. n
       PROVE  /\ e[k] = e[k - 1] + Size(ms1[k])
              /\ \A i \in 1 .. Size(ms1[k]) :
                   rest[e[k - 1] + i] = Bluetooth!Bytes(ms1[k])[i]
  <2>1. /\ k \in 0 .. n /\ k - 1 \in 0 .. n /\ (k - 1) + 1 = k /\ (k + 1) - 1 = k
        /\ k + 1 \in 1 .. Len(ms) /\ k \in 1 .. n + 1 /\ k + 1 \in 1 .. n + 1
    BY <1>3
  <2>2. e[k] = end[k + 1] - d /\ e[k - 1] = end[k] - d
    BY <1>7, <2>1
  <2>3. ms1[k] = ms[k + 1] /\ ms[k + 1] \in Bluetooth!Message
    BY <1>3, <2>1
  <2>4. Size(ms[k + 1]) \in Nat
    BY <2>3, SizeType
  <2>5. /\ end[k + 1] = end[(k + 1) - 1] + Size(ms[k + 1])
        /\ \A i \in 1 .. Size(ms[k + 1]) :
             bytes[end[(k + 1) - 1] + i] = Bluetooth!Bytes(ms[k + 1])[i]
    BY <2>1, Zenon DEF Cut
  <2>6. /\ end[k] \in Nat /\ end[k + 1] \in Nat /\ d <= end[k]
        /\ end[k + 1] <= Len(bytes)
    BY <1>6, <2>1
  <2>7. e[k] = e[k - 1] + Size(ms1[k])
    BY <1>2, <2>1, <2>2, <2>3, <2>4, <2>5, <2>6
  <2>8. ASSUME NEW i \in 1 .. Size(ms[k + 1])
        PROVE  rest[e[k - 1] + i] = Bluetooth!Bytes(ms[k + 1])[i]
    <3>1. /\ e[k - 1] + i \in 1 .. Len(bytes) - d
          /\ d + (e[k - 1] + i) = end[(k + 1) - 1] + i
      <4>1. end[k + 1] = end[k] + Size(ms[k + 1]) /\ end[(k + 1) - 1] = end[k]
        BY <2>1, <2>5, Zenon
      <4>2. end[k] - d + i \in 1 .. Len(bytes) - d /\ d + (end[k] - d + i) = end[k] + i
        BY <1>1, <1>2, <2>4, <2>6, <4>1
      <4>3. QED BY <2>2, <4>1, <4>2
    <3>2. rest[e[k - 1] + i] = bytes[d + (e[k - 1] + i)]
      BY <1>4, <3>1
    <3>3. QED BY <2>5, <3>1, <3>2
  <2>9. QED BY <2>3, <2>7, <2>8
<1>11. Cut(e, rest, ms1)
  BY <1>3, <1>7, <1>8, <1>9, <1>10, Zenon DEF Cut
<1>12. QED BY <1>11 DEF rest, ms1, d

-----------------------------------------------------------------------------
(* The Bluetooth server: what is cut off, and what stays. *)

LEMMA RestOfAppend ==
  ASSUME NEW S, NEW s \in Seq(S), NEW x \in S, NEW h \in 0 .. Len(s)
  PROVE  SubSeq(Append(s, x), h + 1, Len(Append(s, x)))
           = Append(SubSeq(s, h + 1, Len(s)), x)
<1> DEFINE a == SubSeq(s, h + 1, Len(s))
           b == SubSeq(Append(s, x), h + 1, Len(s) + 1)
<1>1. /\ Len(Append(s, x)) = Len(s) + 1 /\ Len(s) \in Nat
      /\ Append(s, x) \in Seq(S) /\ Append(s, x)[Len(s) + 1] = x
      /\ \A i \in 1 .. Len(s) : Append(s, x)[i] = s[i]
  BY AppendProperties
<1>2. /\ a \in Seq(S) /\ Len(a) = Len(s) - h
      /\ \A i \in 1 .. Len(s) - h : a[i] = s[h + i]
  BY <1>1
<1>3. /\ b \in Seq(S) /\ Len(b) = Len(s) + 1 - h
      /\ \A i \in 1 .. Len(s) + 1 - h : b[i] = Append(s, x)[h + i]
  BY <1>1
<1> HIDE DEF a, b
<1>4. /\ Append(a, x) \in Seq(S) /\ Len(Append(a, x)) = Len(s) - h + 1
      /\ Append(a, x)[Len(s) - h + 1] = x
      /\ \A i \in 1 .. Len(s) - h : Append(a, x)[i] = a[i]
  BY <1>2
<1>5. ASSUME NEW i \in 1 .. Len(b) PROVE b[i] = Append(a, x)[i]
  <2>1. CASE i \in 1 .. Len(s) - h
    <3>1. h + i \in 1 .. Len(s) /\ i \in 1 .. Len(s) + 1 - h
      BY <1>1, <2>1
    <3>2. QED BY <1>1, <1>2, <1>3, <1>4, <2>1, <3>1
  <2>2. CASE i = Len(s) - h + 1
    <3>1. h + i = Len(s) + 1 /\ i \in 1 .. Len(s) + 1 - h
      BY <1>1, <2>2
    <3>2. b[i] = Append(s, x)[h + i]
      BY <1>3, <3>1
    <3>3. Append(a, x)[i] = x
      BY <1>4, <2>2
    <3>4. QED BY <1>1, <3>1, <3>2, <3>3
  <2>3. i \in 1 .. Len(s) - h \/ i = Len(s) - h + 1
    BY <1>1, <1>3
  <2>4. QED BY <2>1, <2>2, <2>3
<1>6. Len(b) = Len(Append(a, x))
  BY <1>1, <1>3, <1>4
<1>7. b = Append(a, x)
  BY <1>3, <1>4, <1>5, <1>6, SeqEqual
<1>8. QED BY <1>1, <1>7 DEF a, b

(* What has arrived and what has not are the stream, however it is cut.    *)
LEMMA PieceArrives ==
  ASSUME NEW S, NEW before \in Seq(S), NEW s \in Seq(S), NEW n \in 1 .. Len(s)
  PROVE  /\ before \o SubSeq(s, 1, n) \in Seq(S)
         /\ SubSeq(s, n + 1, Len(s)) \in Seq(S)
         /\ (before \o SubSeq(s, 1, n)) \o SubSeq(s, n + 1, Len(s)) = before \o s
         /\ before \o SubSeq(s, 1, n) # <<>>
<1> DEFINE a == SubSeq(s, 1, n)
           b == SubSeq(s, n + 1, Len(s))
<1>1. a \in Seq(S) /\ b \in Seq(S) /\ Len(a) = n /\ n > 0
  OBVIOUS
<1>2. a \o b = s
  <2>1. /\ 1 \in 1 .. Len(s) + 1 /\ n \in 1 - 1 .. Len(s)
        /\ Len(s) \in n .. Len(s)
    OBVIOUS
  <2>2. a \o b = SubSeq(s, 1, Len(s))
    BY <2>1, ConcatAdjacentSubSeq
  <2>3. QED BY <2>2, SubSeqFull
<1> HIDE DEF a, b
<1>3. (before \o a) \o b = before \o (a \o b)
  BY <1>1, ConcatAssociative
<1>4. before \o a \in Seq(S) /\ before \o a # <<>>
  BY <1>1
<1>5. QED BY <1>1, <1>2, <1>3, <1>4 DEF a, b

(* A message is taken off the stream where it is taken off the buffer.     *)
LEMMA RestOfConcat ==
  ASSUME NEW S, NEW b \in Seq(S), NEW t \in Seq(S), NEW d \in 0 .. Len(b)
  PROVE  /\ SubSeq(b, d + 1, Len(b)) \in Seq(S)
         /\ SubSeq(b, d + 1, Len(b)) \o t = SubSeq(b \o t, d + 1, Len(b \o t))
<1> DEFINE c == SubSeq(b, d + 1, Len(b))
           all == b \o t
           e == SubSeq(all, d + 1, Len(all))
<1>1. /\ c \in Seq(S) /\ Len(c) = Len(b) - d
      /\ \A i \in 1 .. Len(b) - d : c[i] = b[d + i]
  OBVIOUS
<1>2. /\ all \in Seq(S) /\ Len(all) = Len(b) + Len(t)
      /\ Len(b) \in Nat /\ Len(t) \in Nat
      /\ \A i \in 1 .. Len(b) + Len(t) :
           all[i] = IF i <= Len(b) THEN b[i] ELSE t[i - Len(b)]
  BY ConcatProperties
<1> HIDE DEF all
<1>3. /\ e \in Seq(S) /\ Len(e) = Len(b) + Len(t) - d
      /\ \A i \in 1 .. Len(b) + Len(t) - d : e[i] = all[d + i]
  BY <1>2
<1> HIDE DEF c, e
<1>4. /\ c \o t \in Seq(S) /\ Len(c \o t) = Len(b) - d + Len(t)
      /\ \A i \in 1 .. Len(b) - d + Len(t) :
           (c \o t)[i] = IF i <= Len(b) - d THEN c[i] ELSE t[i - (Len(b) - d)]
  BY <1>1, <1>2, ConcatProperties
<1>5. ASSUME NEW i \in 1 .. Len(c \o t) PROVE (c \o t)[i] = e[i]
  <2>1. /\ d + i \in 1 .. Len(b) + Len(t) /\ i \in 1 .. Len(b) + Len(t) - d
        /\ i \in 1 .. Len(b) - d + Len(t)
        /\ i - (Len(b) - d) = d + i - Len(b)
    BY <1>2, <1>4
  <2>2. CASE i <= Len(b) - d
    <3>1. i \in 1 .. Len(b) - d /\ d + i <= Len(b)
      BY <1>2, <2>2
    <3>2. (c \o t)[i] = b[d + i]
      BY <1>1, <1>4, <2>1, <2>2, <3>1
    <3>3. e[i] = b[d + i]
      BY <1>2, <1>3, <2>1, <3>1
    <3>4. QED BY <3>2, <3>3
  <2>3. CASE ~(i <= Len(b) - d)
    <3>1. ~(d + i <= Len(b))
      BY <1>2, <2>3
    <3>2. (c \o t)[i] = t[i - (Len(b) - d)]
      BY <1>4, <2>1, <2>3
    <3>3. e[i] = t[d + i - Len(b)]
      BY <1>2, <1>3, <2>1, <3>1
    <3>4. QED BY <2>1, <3>2, <3>3
  <2>4. QED BY <2>2, <2>3
<1>6. Len(c \o t) = Len(e)
  BY <1>2, <1>3, <1>4
<1>7. c \o t = e
  BY <1>3, <1>4, <1>5, <1>6, SeqEqual
<1>8. QED BY <1>1, <1>7 DEF c, e, all

-----------------------------------------------------------------------------
(* The Bluetooth server: types. *)

LEMMA ServerTypeInit == Bluetooth!Init => Bluetooth!TypeOK
<1> SUFFICES ASSUME Bluetooth!Init PROVE Bluetooth!TypeOK
  OBVIOUS
<1>1. /\ client = 0 /\ clean = TRUE /\ sent = <<>> /\ wire = <<>>
      /\ buffer = <<>> /\ handled = <<>> /\ responses = 0
  BY Zenon DEF Bluetooth!Init
<1>2. /\ client \in 0 .. MaxClients /\ responses \in Nat
      /\ Len(sent) <= MaxMessages
  BY <1>1, ServerAssumption
<1>3. /\ sent \in Seq(Bluetooth!Message) /\ wire \in Seq(Bluetooth!Byte)
      /\ buffer \in Seq(Bluetooth!Byte)
      /\ handled \in Seq(Bluetooth!Message \cup Bluetooth!Anything)
  BY <1>1, EmptySeq, Zenon
<1>4. QED BY <1>1, <1>2, <1>3, Zenon DEF Bluetooth!TypeOK

(* What ReadMessage() does: nothing but keep the bytes, or handle what it  *)
(* takes the first of them for.                                            *)
LEMMA ReadCases ==
  ASSUME NEW bytes, Bluetooth!ReadMessage(bytes)
  PROVE  \/ buffer' = bytes /\ UNCHANGED <<handled, responses>>
         \/ \E m \in Bluetooth!Decode(bytes) :
              /\ ~(Len(bytes) < Bluetooth!Header)
              /\ ~(Len(bytes) < m.length + Bluetooth!Header)
              /\ Bluetooth!Handle(m)
              /\ buffer' = SubSeq(bytes, m.length + Bluetooth!Header + 1,
                                  Len(bytes))
BY Zenon DEF Bluetooth!ReadMessage

LEMMA DecodeType ==
  ASSUME NEW bytes \in Seq(Bluetooth!Byte), bytes # <<>>,
         NEW m \in Bluetooth!Decode(bytes)
  PROVE  /\ m \in Bluetooth!Message \cup Bluetooth!Anything
         /\ m.length \in Nat
<1>1. bytes[1] \in Bluetooth!Byte
  OBVIOUS
<1>2. bytes[1].message \in Bluetooth!Message
  BY <1>1 DEF Bluetooth!Byte
<1>3. m \in Bluetooth!Message \cup Bluetooth!Anything
  BY <1>2 DEF Bluetooth!Decode, Bluetooth!Anything
<1>4. m.length \in 0 .. MaxLength
  BY <1>3 DEF Bluetooth!Message, Bluetooth!Anything
<1>5. QED BY <1>3, <1>4, ServerAssumption

LEMMA PhoneSendsMessage ==
  ASSUME Bluetooth!TypeOK, Bluetooth!PhoneSends
  PROVE  \E m \in Bluetooth!Message :
           sent' = Append(sent, m) /\ wire' = wire \o Bluetooth!Bytes(m)
<1>1. PICK kind \in Bluetooth!Kind, length \in 0 .. MaxLength :
        LET m == [client |-> client, n |-> Len(sent) + 1,
                  kind |-> kind, length |-> length]
        IN  sent' = Append(sent, m) /\ wire' = wire \o Bluetooth!Bytes(m)
  BY Zenon DEF Bluetooth!PhoneSends
<1>2. /\ client > 0 /\ client \in 0 .. MaxClients
      /\ Len(sent) < MaxMessages /\ sent \in Seq(Bluetooth!Message)
  BY Zenon DEF Bluetooth!PhoneSends, Bluetooth!TypeOK
<1>3. client \in 1 .. MaxClients /\ Len(sent) + 1 \in 1 .. MaxMessages
  BY <1>2, ServerAssumption
<1>4. [client |-> client, n |-> Len(sent) + 1, kind |-> kind, length |-> length]
        \in Bluetooth!Message
  BY <1>3 DEF Bluetooth!Message
<1>5. QED BY <1>1, <1>4, Zenon

LEMMA ServerReadType ==
  ASSUME Bluetooth!TypeOK, Bluetooth!ReadSocket
  PROVE  Bluetooth!TypeOK'
<1>1. /\ wire \in Seq(Bluetooth!Byte) /\ buffer \in Seq(Bluetooth!Byte)
      /\ handled \in Seq(Bluetooth!Message \cup Bluetooth!Anything)
      /\ responses \in Nat
      /\ UNCHANGED <<client, clean, sent>>
  BY Zenon DEF Bluetooth!TypeOK, Bluetooth!ReadSocket
<1>2. PICK n \in 1 .. Len(wire) :
        /\ Bluetooth!ReadMessage(buffer \o SubSeq(wire, 1, n))
        /\ wire' = SubSeq(wire, n + 1, Len(wire))
  BY Zenon DEF Bluetooth!ReadSocket
<1> DEFINE bytes == buffer \o SubSeq(wire, 1, n)
<1>3. /\ bytes \in Seq(Bluetooth!Byte) /\ bytes # <<>>
      /\ wire' \in Seq(Bluetooth!Byte)
  BY <1>1, <1>2, PieceArrives
<1>4. Bluetooth!ReadMessage(bytes)
  BY <1>2
<1> HIDE DEF bytes
<1>5. /\ buffer' \in Seq(Bluetooth!Byte) /\ responses' \in Nat
      /\ handled' \in Seq(Bluetooth!Message \cup Bluetooth!Anything)
  <2>1. CASE buffer' = bytes /\ UNCHANGED <<handled, responses>>
    BY <1>1, <1>3, <2>1
  <2>2. ASSUME NEW m \in Bluetooth!Decode(bytes),
               ~(Len(bytes) < m.length + Bluetooth!Header),
               Bluetooth!Handle(m),
               buffer' = SubSeq(bytes, m.length + Bluetooth!Header + 1, Len(bytes))
        PROVE  /\ buffer' \in Seq(Bluetooth!Byte) /\ responses' \in Nat
               /\ handled' \in Seq(Bluetooth!Message \cup Bluetooth!Anything)
    <3>1. m \in Bluetooth!Message \cup Bluetooth!Anything /\ m.length \in Nat
      BY <1>3, DecodeType
    <3>2. m.length + Bluetooth!Header \in 0 .. Len(bytes)
      BY <1>3, <2>2, <3>1 DEF Bluetooth!Header
    <3>3. buffer' \in Seq(Bluetooth!Byte)
      BY <1>3, <2>2, <3>2, RestOfConcat
    <3>4. handled' \in Seq(Bluetooth!Message \cup Bluetooth!Anything)
      BY <1>1, <2>2, <3>1, AppendProperties DEF Bluetooth!Handle
    <3>5. responses' = responses + 1 \/ responses' = responses
      BY <2>2, Zenon DEF Bluetooth!Handle
    <3>6. QED BY <1>1, <3>3, <3>4, <3>5
  <2>3. QED BY <1>4, <2>1, <2>2, ReadCases, Zenon
<1>6. QED BY <1>1, <1>3, <1>5, Zenon DEF Bluetooth!TypeOK

LEMMA ServerTypeStep ==
  Bluetooth!TypeOK /\ [Bluetooth!Next]_bluetoothVars => Bluetooth!TypeOK'
<1> SUFFICES ASSUME Bluetooth!TypeOK, [Bluetooth!Next]_bluetoothVars
             PROVE  Bluetooth!TypeOK'
  OBVIOUS
<1>1. CASE Bluetooth!OnClientConnected
  <2>1. /\ client < MaxClients /\ client' = client + 1 /\ sent' = <<>>
        /\ wire' = <<>> /\ handled' = <<>> /\ responses' = 0 /\ UNCHANGED buffer
        /\ client \in 0 .. MaxClients /\ clean' \in BOOLEAN
    BY <1>1, Zenon DEF Bluetooth!OnClientConnected, Bluetooth!TypeOK
  <2>2. /\ client' \in 0 .. MaxClients /\ responses' \in Nat
        /\ Len(sent') <= MaxMessages
    BY <2>1, ServerAssumption
  <2>3. /\ sent' \in Seq(Bluetooth!Message) /\ wire' \in Seq(Bluetooth!Byte)
        /\ handled' \in Seq(Bluetooth!Message \cup Bluetooth!Anything)
    BY <2>1, EmptySeq, Zenon
  <2>4. QED BY <2>1, <2>2, <2>3, Zenon DEF Bluetooth!TypeOK
<1>2. CASE Bluetooth!PhoneSends
  <2>1. PICK m \in Bluetooth!Message :
          sent' = Append(sent, m) /\ wire' = wire \o Bluetooth!Bytes(m)
    BY <1>2, PhoneSendsMessage, Zenon
  <2>2. /\ UNCHANGED <<client, clean, buffer, handled, responses>>
        /\ sent \in Seq(Bluetooth!Message) /\ wire \in Seq(Bluetooth!Byte)
        /\ Len(sent) < MaxMessages
    BY <1>2, Zenon DEF Bluetooth!PhoneSends, Bluetooth!TypeOK
  <2>3. sent' \in Seq(Bluetooth!Message) /\ Len(sent') <= MaxMessages
    BY <2>1, <2>2, ServerAssumption
  <2>4. wire' \in Seq(Bluetooth!Byte)
    BY <2>1, <2>2, BytesType, ConcatProperties
  <2>5. QED BY <2>2, <2>3, <2>4, Zenon DEF Bluetooth!TypeOK
<1>3. CASE UNCHANGED bluetoothVars
  BY <1>3, Zenon DEF bluetoothVars, Bluetooth!TypeOK
<1>4. QED
  BY <1>1, <1>2, <1>3, ServerReadType, Zenon DEF Bluetooth!Next

-----------------------------------------------------------------------------
(* The Bluetooth server: messages are handled as they were sent. *)

Unhandled == SubSeq(sent, Len(handled) + 1, Len(sent))

(* HandledAsSent, with the ends in order. *)
FirstHandledRestOnItsWay ==
  /\ Len(handled) <= Len(sent)
  /\ \A k \in 1 .. Len(handled) : handled[k] = sent[k]
  /\ \E end : Cut(end, buffer \o wire, Unhandled)

ServerInv == clean => FirstHandledRestOnItsWay

LEMMA UnhandledType ==
  ASSUME Bluetooth!TypeOK, FirstHandledRestOnItsWay
  PROVE  /\ Unhandled \in Seq(Bluetooth!Message)
         /\ Len(Unhandled) = Len(sent) - Len(handled)
         /\ Len(handled) \in 0 .. Len(sent)
         /\ sent \in Seq(Bluetooth!Message)
         /\ buffer \in Seq(Bluetooth!Byte) /\ wire \in Seq(Bluetooth!Byte)
<1>1. /\ sent \in Seq(Bluetooth!Message)
      /\ handled \in Seq(Bluetooth!Message \cup Bluetooth!Anything)
      /\ buffer \in Seq(Bluetooth!Byte) /\ wire \in Seq(Bluetooth!Byte)
  BY Zenon DEF Bluetooth!TypeOK
<1>2. Len(handled) \in 0 .. Len(sent)
  BY <1>1 DEF FirstHandledRestOnItsWay
<1>3. QED BY <1>1, <1>2 DEF Unhandled

LEMMA ServerInvImplies ==
  Bluetooth!TypeOK /\ ServerInv => HandledAsSent
<1> SUFFICES ASSUME Bluetooth!TypeOK, ServerInv, clean
             PROVE  /\ Bluetooth!IsPrefix(handled, sent)
                    /\ Bluetooth!Are(buffer \o wire, Unhandled)
  BY Zenon DEF HandledAsSent, Bluetooth!HandledAsSent, Unhandled
<1>1. FirstHandledRestOnItsWay
  BY Zenon DEF ServerInv
<1>2. /\ Unhandled \in Seq(Bluetooth!Message) /\ sent \in Seq(Bluetooth!Message)
      /\ buffer \in Seq(Bluetooth!Byte) /\ wire \in Seq(Bluetooth!Byte)
  BY <1>1, UnhandledType
<1>3. Bluetooth!Are(buffer \o wire, Unhandled)
  <2>1. PICK end : Cut(end, buffer \o wire, Unhandled)
    BY <1>1, Zenon DEF FirstHandledRestOnItsWay
  <2>2. buffer \o wire \in Seq(Bluetooth!Byte)
    BY <1>2
  <2>3. QED BY <1>2, <2>1, <2>2, CutIsAre
<1>4. Bluetooth!IsPrefix(handled, sent)
  <2> DEFINE T == Bluetooth!Message \cup Bluetooth!Anything
  <2>1. /\ handled \in Seq(T) /\ sent \in Seq(T)
        /\ Len(handled) <= Len(sent)
        /\ \A k \in 1 .. Len(handled) : handled[k] = sent[k]
    <3>1. handled \in Seq(T)
      BY Zenon DEF Bluetooth!TypeOK
    <3>2. sent \in Seq(T)
      BY <1>2, SeqMonotonic
    <3>3. QED BY <1>1, <3>1, <3>2, Zenon DEF FirstHandledRestOnItsWay
  <2> HIDE DEF T
  <2>2. SubSeq(handled, 1, Len(handled)) = handled
    BY <2>1, SubSeqFull
  <2>3. SubSeq(sent, 1, Len(handled)) = handled
    <3> DEFINE p == SubSeq(sent, 1, Len(handled))
    <3>1. /\ p \in Seq(T) /\ Len(p) = Len(handled)
          /\ \A k \in 1 .. Len(handled) : p[k] = sent[k]
      BY <2>1
    <3> HIDE DEF p
    <3>2. \A k \in 1 .. Len(p) : p[k] = handled[k]
      BY <2>1, <3>1
    <3>3. p = handled
      BY <2>1, <3>1, <3>2, SeqEqual
    <3>4. QED BY <3>3 DEF p
  <2>4. QED BY <2>1, <2>2, <2>3, Zenon DEF Bluetooth!IsPrefix
<1>5. QED BY <1>3, <1>4

LEMMA ServerInvInit == Bluetooth!Init => ServerInv
<1> SUFFICES ASSUME Bluetooth!Init PROVE FirstHandledRestOnItsWay
  BY DEF ServerInv
<1>1. sent = <<>> /\ wire = <<>> /\ buffer = <<>> /\ handled = <<>>
  BY Zenon DEF Bluetooth!Init
<1>2. buffer \o wire = <<>> /\ Unhandled = <<>>
  BY <1>1 DEF Unhandled
<1>3. Len(handled) <= Len(sent) /\ \A k \in 1 .. Len(handled) : FALSE
  BY <1>1
<1>4. QED BY <1>2, <1>3, CutNothing, Zenon DEF FirstHandledRestOnItsWay

LEMMA ServerConnects ==
  ASSUME Bluetooth!OnClientConnected
  PROVE  ServerInv'
<1>1. /\ sent' = <<>> /\ wire' = <<>> /\ handled' = <<>> /\ buffer' = buffer
      /\ clean' = (buffer = <<>>)
  BY Zenon DEF Bluetooth!OnClientConnected
<1>2. SUFFICES ASSUME buffer' = <<>> PROVE FirstHandledRestOnItsWay'
  BY <1>1, Zenon DEF ServerInv
<1>3. buffer' \o wire' = <<>> /\ Unhandled' = <<>>
  BY <1>1, <1>2 DEF Unhandled
<1>4. Len(handled') <= Len(sent') /\ \A k \in 1 .. Len(handled') : FALSE
  BY <1>1
<1>5. QED BY <1>3, <1>4, CutNothing, Zenon DEF FirstHandledRestOnItsWay

LEMMA ServerHears ==
  ASSUME Bluetooth!TypeOK, ServerInv, Bluetooth!PhoneSends
  PROVE  ServerInv'
<1>1. UNCHANGED <<clean, buffer, handled>>
  BY Zenon DEF Bluetooth!PhoneSends
<1>2. SUFFICES ASSUME FirstHandledRestOnItsWay PROVE FirstHandledRestOnItsWay'
  BY <1>1, Zenon DEF ServerInv
<1>3. PICK m \in Bluetooth!Message :
        sent' = Append(sent, m) /\ wire' = wire \o Bluetooth!Bytes(m)
  BY PhoneSendsMessage, Zenon
<1>4. /\ Unhandled \in Seq(Bluetooth!Message)
      /\ Len(handled) \in 0 .. Len(sent) /\ sent \in Seq(Bluetooth!Message)
      /\ buffer \in Seq(Bluetooth!Byte) /\ wire \in Seq(Bluetooth!Byte)
  BY <1>2, UnhandledType
<1>5. Unhandled' = Append(Unhandled, m)
  BY <1>1, <1>3, <1>4, RestOfAppend, Zenon DEF Unhandled
<1>6. buffer' \o wire' = (buffer \o wire) \o Bluetooth!Bytes(m)
  <2>1. Bluetooth!Bytes(m) \in Seq(Bluetooth!Byte)
    BY BytesType
  <2>2. (buffer \o wire) \o Bluetooth!Bytes(m)
          = buffer \o (wire \o Bluetooth!Bytes(m))
    BY <1>4, <2>1, ConcatAssociative
  <2>3. QED BY <1>1, <1>3, <2>2, Zenon
<1>7. PICK end : Cut(end, buffer \o wire, Unhandled)
  BY <1>2, Zenon DEF FirstHandledRestOnItsWay
<1>8. buffer \o wire \in Seq(Bluetooth!Byte)
  BY <1>4
<1>9. \E e : Cut(e, buffer' \o wire', Unhandled')
  BY <1>4, <1>5, <1>6, <1>7, <1>8, CutLast
<1>10. Len(handled') <= Len(sent')
  BY <1>1, <1>3, <1>4
<1>11. \A k \in 1 .. Len(handled') : handled'[k] = sent'[k]
  <2>1. ASSUME NEW k \in 1 .. Len(handled) PROVE sent'[k] = handled[k]
    <3>1. handled[k] = sent[k]
      BY <1>2, Zenon DEF FirstHandledRestOnItsWay
    <3>2. k \in 1 .. Len(sent)
      BY <1>4
    <3>3. sent'[k] = sent[k]
      BY <1>3, <1>4, <3>2
    <3>4. QED BY <3>1, <3>3
  <2>2. QED BY <1>1, <2>1
<1>12. QED BY <1>9, <1>10, <1>11, Zenon DEF FirstHandledRestOnItsWay

(* When there is a header, it is that of the first message that was not    *)
(* handled, and is taken for that.                                         *)
LEMMA DecodesFirst ==
  ASSUME NEW bytes \in Seq(Bluetooth!Byte), NEW first \in Bluetooth!Message,
         ~(Len(bytes) < Bluetooth!Header),
         \A i \in 1 .. Bluetooth!Header : bytes[i] = [message |-> first, i |-> i],
         NEW m \in Bluetooth!Decode(bytes)
  PROVE  m = first
<1> DEFINE b == Bluetooth!Bytes(first)
           h == Bluetooth!Header
<1>1. /\ b \in Seq(Bluetooth!Byte) /\ Len(b) = Size(first)
      /\ \A i \in 1 .. Size(first) : b[i] = [message |-> first, i |-> i]
      /\ h = 4 /\ h <= Size(first) /\ Size(first) \in Nat
      /\ Len(bytes) \in Nat /\ h <= Len(bytes)
  BY BytesType, SizeType
<1>2. bytes[1] = [message |-> first, i |-> 1]
  BY <1>1
<1>3. bytes[1].message = first
  BY <1>2
<1>4. SubSeq(bytes, 1, h) = SubSeq(b, 1, h)
  <2> DEFINE p == SubSeq(bytes, 1, h)
             q == SubSeq(b, 1, h)
  <2>0. \A i \in 1 .. h : bytes[i] = [message |-> first, i |-> i]
    OBVIOUS
  <2> HIDE DEF b, h
  <2>1. /\ p \in Seq(Bluetooth!Byte) /\ Len(p) = h
        /\ \A i \in 1 .. h : p[i] = bytes[i]
    BY <1>1
  <2>2. /\ q \in Seq(Bluetooth!Byte) /\ Len(q) = h
        /\ \A i \in 1 .. h : q[i] = b[i]
    BY <1>1
  <2> HIDE DEF p, q
  <2>3. ASSUME NEW i \in 1 .. Len(p) PROVE p[i] = q[i]
    <3>1. i \in 1 .. h /\ i \in 1 .. Size(first)
      BY <1>1, <2>1
    <3>2. p[i] = bytes[i] /\ q[i] = b[i]
      BY <2>1, <2>2, <3>1
    <3>3. QED BY <1>1, <2>0, <3>1, <3>2, Zenon
  <2>4. p = q
    BY <2>1, <2>2, <2>3, SeqEqual
  <2>5. QED BY <2>4 DEF p, q
<1>5. Bluetooth!Decode(bytes) = {first}
  BY <1>3, <1>4 DEF Bluetooth!Decode
<1>6. QED BY <1>5

LEMMA ServerHandles ==
  ASSUME Bluetooth!TypeOK, FirstHandledRestOnItsWay,
         NEW bytes \in Seq(Bluetooth!Byte), bytes # <<>>,
         wire' \in Seq(Bluetooth!Byte), bytes \o wire' = buffer \o wire,
         NEW m \in Bluetooth!Decode(bytes), UNCHANGED sent,
         ~(Len(bytes) < Bluetooth!Header),
         ~(Len(bytes) < m.length + Bluetooth!Header),
         Bluetooth!Handle(m),
         buffer' = SubSeq(bytes, m.length + Bluetooth!Header + 1, Len(bytes))
  PROVE  FirstHandledRestOnItsWay'
<1> DEFINE stream == buffer \o wire
           first == Unhandled[1]
<1>1. /\ Unhandled \in Seq(Bluetooth!Message)
      /\ Len(Unhandled) = Len(sent) - Len(handled)
      /\ Len(handled) \in 0 .. Len(sent) /\ sent \in Seq(Bluetooth!Message)
      /\ stream \in Seq(Bluetooth!Byte)
  BY UnhandledType
<1>2. PICK end : Cut(end, stream, Unhandled)
  BY Zenon DEF FirstHandledRestOnItsWay
<1>3. /\ stream = bytes \o wire' /\ stream # <<>>
      /\ \A i \in 1 .. Len(bytes) : stream[i] = bytes[i]
  <2>1. stream = bytes \o wire'
    OBVIOUS
  <2>2. /\ bytes \o wire' # <<>>
        /\ \A i \in 1 .. Len(bytes) : (bytes \o wire')[i] = bytes[i]
    OBVIOUS
  <2>3. QED BY <2>1, <2>2, Zenon
<1> HIDE DEF stream
<1>4. /\ Unhandled # <<>> /\ first \in Bluetooth!Message
      /\ \A i \in 1 .. Size(first) : stream[i] = [message |-> first, i |-> i]
  BY <1>1, <1>2, <1>3, CutFirst
<1>5. m = first
  <2>1. Bluetooth!Header <= Size(first) /\ Size(first) \in Nat
        /\ Bluetooth!Header = 4
    BY <1>4, SizeType
  <2>2. ASSUME NEW i \in 1 .. Bluetooth!Header
        PROVE  bytes[i] = [message |-> first, i |-> i]
    <3>1. i \in 1 .. Size(first) /\ i \in 1 .. Len(bytes)
      BY <2>1
    <3>2. QED BY <1>3, <1>4, <3>1, Zenon
  <2> HIDE DEF first
  <2>3. QED BY <1>4, <2>2, DecodesFirst
<1>6. /\ Len(handled) + 1 \in 1 .. Len(sent)
      /\ first = sent[Len(handled) + 1]
      /\ Tail(Unhandled) = SubSeq(sent, Len(handled) + 2, Len(sent))
  <2>1. /\ Len(handled) + 1 \in 1 .. Len(sent)
        /\ Len(sent) \in Len(handled) + 1 .. Len(sent)
        /\ (Len(handled) + 1) + 1 = Len(handled) + 2
    BY <1>1, <1>4
  <2>2. first = sent[Len(handled) + 1]
    BY <1>1, <2>1 DEF Unhandled
  <2>3. Tail(Unhandled) = SubSeq(sent, (Len(handled) + 1) + 1, Len(sent))
    BY <1>1, <2>1, HeadTailOfSubSeq DEF Unhandled
  <2>4. QED BY <2>1, <2>2, <2>3
<1>7. /\ handled' = Append(handled, m)
      /\ handled \in Seq(Bluetooth!Message \cup Bluetooth!Anything)
  BY Zenon DEF Bluetooth!Handle, Bluetooth!TypeOK
<1>8. /\ Len(handled') = Len(handled) + 1 /\ handled'[Len(handled) + 1] = m
      /\ \A k \in 1 .. Len(handled) : handled'[k] = handled[k]
  BY <1>7
<1>9. Unhandled' = Tail(Unhandled)
  <2>1. Len(handled') + 1 = Len(handled) + 2
    BY <1>1, <1>8
  <2>2. QED BY <1>6, <2>1, Zenon DEF Unhandled
<1>10. buffer' \o wire' = SubSeq(stream, Size(first) + 1, Len(stream))
  <2>1. Size(first) \in Nat /\ Size(first) = m.length + Bluetooth!Header
        /\ Size(first) \in 0 .. Len(bytes)
    <3>1. m.length \in Nat /\ Bluetooth!Header = 4
      BY DecodeType DEF Bluetooth!Header
    <3>2. Size(first) = m.length + Bluetooth!Header
      BY <1>5, <3>1 DEF Size
    <3>3. QED BY <3>1, <3>2
  <2>2. buffer' = SubSeq(bytes, Size(first) + 1, Len(bytes))
    BY <2>1
  <2> HIDE DEF first
  <2>3. QED BY <1>3, <2>1, <2>2, RestOfConcat
<1>11. \E e : Cut(e, buffer' \o wire', Unhandled')
  BY <1>1, <1>2, <1>3, <1>9, <1>10, CutRest
<1>12. Len(handled') <= Len(sent')
  BY <1>1, <1>6, <1>8
<1>13. ASSUME NEW k \in 1 .. Len(handled')
       PROVE  handled'[k] = sent'[k]
  <2>1. k \in 1 .. Len(handled) \/ k = Len(handled) + 1
    BY <1>1, <1>8
  <2>2. CASE k \in 1 .. Len(handled)
    BY <1>8, <2>2 DEF FirstHandledRestOnItsWay
  <2>3. CASE k = Len(handled) + 1
    BY <1>5, <1>6, <1>8, <2>3
  <2>4. QED BY <2>1, <2>2, <2>3
<1>14. QED BY <1>11, <1>12, <1>13, Zenon DEF FirstHandledRestOnItsWay

LEMMA ServerReads ==
  ASSUME Bluetooth!TypeOK, ServerInv, Bluetooth!ReadSocket
  PROVE  ServerInv'
<1>1. UNCHANGED <<clean, sent>>
  BY Zenon DEF Bluetooth!ReadSocket
<1>2. SUFFICES ASSUME FirstHandledRestOnItsWay PROVE FirstHandledRestOnItsWay'
  BY <1>1, Zenon DEF ServerInv
<1>3. PICK n \in 1 .. Len(wire) :
        /\ Bluetooth!ReadMessage(buffer \o SubSeq(wire, 1, n))
        /\ wire' = SubSeq(wire, n + 1, Len(wire))
  BY Zenon DEF Bluetooth!ReadSocket
<1> DEFINE bytes == buffer \o SubSeq(wire, 1, n)
<1>4. buffer \in Seq(Bluetooth!Byte) /\ wire \in Seq(Bluetooth!Byte)
  BY Zenon DEF Bluetooth!TypeOK
<1>5. /\ bytes \in Seq(Bluetooth!Byte) /\ bytes # <<>>
      /\ wire' \in Seq(Bluetooth!Byte)
      /\ bytes \o wire' = buffer \o wire
  <2> DEFINE rest == SubSeq(wire, n + 1, Len(wire))
  <2>1. /\ bytes \in Seq(Bluetooth!Byte) /\ bytes # <<>>
        /\ rest \in Seq(Bluetooth!Byte) /\ bytes \o rest = buffer \o wire
    <3>1. bytes \in Seq(Bluetooth!Byte)
      BY <1>4, PieceArrives
    <3>2. bytes # <<>>
      BY <1>4, PieceArrives
    <3>3. rest \in Seq(Bluetooth!Byte)
      BY <1>4, PieceArrives
    <3>4. bytes \o rest = buffer \o wire
      BY <1>4, PieceArrives
    <3>5. QED BY <3>1, <3>2, <3>3, <3>4
  <2>2. wire' = rest
    BY <1>3
  <2> HIDE DEF bytes, rest
  <2>3. QED BY <2>1, <2>2
<1>6. Bluetooth!ReadMessage(bytes)
  BY <1>3
<1> HIDE DEF bytes
<1>7. CASE buffer' = bytes /\ UNCHANGED <<handled, responses>>
  <2>1. buffer' \o wire' = buffer \o wire /\ Unhandled' = Unhandled
        /\ UNCHANGED <<sent, handled>>
    BY <1>1, <1>5, <1>7 DEF Unhandled
  <2>2. QED BY <1>2, <2>1, Zenon DEF FirstHandledRestOnItsWay
<1>8. ASSUME NEW m \in Bluetooth!Decode(bytes),
             ~(Len(bytes) < Bluetooth!Header),
             ~(Len(bytes) < m.length + Bluetooth!Header),
             Bluetooth!Handle(m),
             buffer' = SubSeq(bytes, m.length + Bluetooth!Header + 1, Len(bytes))
      PROVE  FirstHandledRestOnItsWay'
  BY <1>1, <1>2, <1>5, <1>8, ServerHandles
<1>9. QED BY <1>6, <1>7, <1>8, ReadCases, Zenon

LEMMA ServerInvStep ==
  Bluetooth!TypeOK /\ ServerInv /\ [Bluetooth!Next]_bluetoothVars => ServerInv'
<1> SUFFICES ASSUME Bluetooth!TypeOK, ServerInv, [Bluetooth!Next]_bluetoothVars
             PROVE  ServerInv'
  OBVIOUS
<1>1. CASE UNCHANGED bluetoothVars
  BY <1>1, Zenon
  DEF bluetoothVars, ServerInv, FirstHandledRestOnItsWay, Unhandled
<1>2. QED
  BY <1>1, ServerConnects, ServerHears, ServerReads, Zenon DEF Bluetooth!Next

-----------------------------------------------------------------------------
(* The head unit: whichever part moves, its steps are steps of the part    *)
(* and the others stay as they are.                                        *)

HeadUnitInv ==
  /\ HeadUnitTypeOK
  /\ CheckInv /\ ServerInv /\ WantedComes

LEMMA HeadUnitInvInit == HeadUnitInit => HeadUnitInv
BY UpdateTypeInit, CheckInit, ServerTypeInit, ServerInvInit, WifiTypeInit,
   WantedInit, Zenon
DEF HeadUnitInit, HeadUnitInv, HeadUnitTypeOK

LEMMA HeadUnitParts ==
  ASSUME [HeadUnitNext]_HeadUnitVars
  PROVE  /\ [Next]_vars /\ [Bluetooth!Next]_bluetoothVars
         /\ [Wifi!Next]_wifiVars
         /\ UNCHANGED exercised
BY Zenon DEF HeadUnitNext, HeadUnitVars, updateVars

LEMMA HeadUnitInvStep ==
  HeadUnitInv /\ [HeadUnitNext]_HeadUnitVars => HeadUnitInv'
<1> SUFFICES ASSUME HeadUnitInv, [HeadUnitNext]_HeadUnitVars
             PROVE  HeadUnitInv'
  OBVIOUS
<1>1. exercised' \in {"updates", "bluetooth", "wifi"}
  BY HeadUnitParts, Zenon DEF HeadUnitInv, HeadUnitTypeOK
<1>2. TypeOK' /\ CheckInv'
  BY HeadUnitParts, UpdateTypeStep, CheckStep, Zenon
  DEF HeadUnitInv, HeadUnitTypeOK
<1>3. Bluetooth!TypeOK' /\ ServerInv'
  BY HeadUnitParts, ServerTypeStep, ServerInvStep, Zenon
  DEF HeadUnitInv, HeadUnitTypeOK
<1>4. Wifi!TypeOK' /\ WantedComes'
  BY HeadUnitParts, WifiTypeStep, WantedStep, Zenon
  DEF HeadUnitInv, HeadUnitTypeOK
<1>5. QED
  BY <1>1, <1>2, <1>3, <1>4, Zenon DEF HeadUnitInv, HeadUnitTypeOK

LEMMA HeadUnitInvHolds == HeadUnitSpec => []HeadUnitInv
BY HeadUnitInvInit, HeadUnitInvStep, PTL DEF HeadUnitSpec

-----------------------------------------------------------------------------
(* Theorems. *)

(* Every variable keeps its type: no check makes an attempt too many, and  *)
(* what the server reads and the WiFi's queues hold is what the other side *)
(* can have sent.                                                          *)
THEOREM TypeCorrect == HeadUnitSpec => []HeadUnitTypeOK
<1>1. HeadUnitInv => HeadUnitTypeOK
  BY DEF HeadUnitInv
<1>2. QED BY <1>1, HeadUnitInvHolds, PTL

(* There is never more than one check, in whichever thread or queue, and   *)
(* checking says whether there is one.                                     *)
THEOREM OneCheckAtATimeHolds == HeadUnitSpec => []OneCheckAtATime
<1>1. HeadUnitInv => OneCheckAtATime
  BY DEF HeadUnitInv, CheckInv
<1>2. QED BY <1>1, HeadUnitInvHolds, PTL

(* However the stream of bytes is cut into pieces, the server handles the  *)
(* messages as they were sent, and loses or repeats no byte, unless an     *)
(* earlier phone left a piece of one in the buffer.                        *)
THEOREM HandledAsSentHolds == HeadUnitSpec => []HandledAsSent
<1>1. HeadUnitInv => HandledAsSent
  BY ServerInvImplies DEF HeadUnitInv, HeadUnitTypeOK
<1>2. QED BY <1>1, HeadUnitInvHolds, PTL

(* When the NetworkManager has handled all it was called for, the device   *)
(* carries the connection that was asked for last, if that was accepted:   *)
(* what remains to be handled always ends with the call that grants it.    *)
THEOREM LastRequestStandsHolds == HeadUnitSpec => []LastRequestStands
<1>1. HeadUnitInv => LastRequestStands
  <2> SUFFICES ASSUME WantedComes, calls = <<>>, accepted
               PROVE  conn[wanted.path] = wanted.conn
    BY Zenon DEF HeadUnitInv, LastRequestStands, Wifi!LastRequestStands
  <2>1. ~\E k \in 1 .. Len(calls) : TRUE
    OBVIOUS
  <2>2. QED BY <2>1, Zenon DEF WantedComes
<1>2. QED BY <1>1, HeadUnitInvHolds, PTL
=============================================================================
