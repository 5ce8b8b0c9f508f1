------------------------------ MODULE Settings ------------------------------
(***************************************************************************)
(* Configuration, the view models that edit it (SettingsViewModel,         *)
(* BrightnessViewModel, the password of WifiViewModel), and what main() and *)
(* ServiceFactory read from it.                                            *)
(*                                                                         *)
(* The configuration is read once, at the start.  The view models keep     *)
(* copies of it and compare with those; save() writes all of it, whoever   *)
(* calls.  Without a file the password of the hotspot is drawn at random,  *)
(* and it lasts only if somebody saves.                                    *)
(*                                                                         *)
(* Audio outputs are made at the start, and channels by each session.  All *)
(* of it runs on the GUI thread except sessions and the Bluetooth server,  *)
(* which read.                                                             *)
(***************************************************************************)
EXTENDS Naturals

CONSTANTS
  Typed,     \* passwords the user may type: not numbers of a start
  Levels,    \* brightness, between the bounds of the slider
  None,      \* no file; no password
  MaxBoots,  \* bound: starts
  MaxInputs  \* bound: what the user sets

Channel == {"media", "guidance", "telephony"}
PageKey == Channel \cup {"car", "playback", "video", "headUnit", "firstBoot"}
Part == {"wifi", "bluetooth", "audio"} \* what a start may find and save
Password == (1..MaxBoots) \cup Typed
FullBrightness == 150

VARIABLES
  running,
  file,    \* the configuration as it was last saved
  config,  \* Configuration
  page,    \* SettingsViewModel's copies
  field,   \* WifiViewModel's copy of the password
  popup,   \* the brightness popup is open
  found,   \* the hardware this start has found
  outputs, \* the audio outputs main() has made
  offered, \* the media channels of the running session
  told,    \* the password that phones have been told
  wish,    \* what the user has set last
  onAtStart, \* history: the session's channels the user had on at the start
  boots, inputs

copyVars == <<page, field, popup>>
startVars == <<found, outputs>>
pastVars == <<told, wish, onAtStart>>
vars == <<running, file, config, copyVars, startVars, offered, pastVars, boots,
          inputs>>

Config == [page : [PageKey -> BOOLEAN], password : Password,
           brightness : Levels, known : SUBSET Part]

Constants ==
  /\ None \notin Config /\ None \notin BOOLEAN /\ FullBrightness \in Levels
  /\ MaxBoots \in Nat \ {0} /\ MaxInputs \in Nat

TypeOK ==
  /\ running \in BOOLEAN /\ config \in Config
  /\ file = None \/ file \in Config
  /\ page \in [PageKey -> BOOLEAN] /\ field \in Password /\ popup \in BOOLEAN
  /\ found \subseteq Part /\ outputs \subseteq Channel
  /\ offered \subseteq Channel \cup {"system", "video"}
  /\ told \in Password \cup {None}
  /\ wish \in [PageKey -> BOOLEAN \cup {None}]
  /\ onAtStart \subseteq {"media", "guidance"}
  /\ boots \in 0..MaxBoots /\ inputs \in 0..MaxInputs

-----------------------------------------------------------------------------
(* The constructor of Configuration. *)

(* A password of eight random characters: no two starts draw the same. *)
GenerateRandomString(boot) == boot

Defaults(password) ==
  [page |-> [k \in PageKey |->
               k \in {"media", "guidance", "headUnit", "firstBoot"}],
   password |-> password, brightness |-> FullBrightness, known |-> {}]

(* Every group takes from the file what is there. *)
Loaded(boot) ==
  IF file = None THEN Defaults(GenerateRandomString(boot)) ELSE file

-----------------------------------------------------------------------------
(* main(). *)

(* Fault: the adapter that was found is noted, and not saved. *)
SavedAtBootWifiOnly(start) ==
  IF start.known = Loaded(boots + 1).known \/ "wifi" \notin start.known
  THEN file ELSE start

(* WifiMonitor, BluetoothHandler and VolumeHandler note what they find for *)
(* the first time, and save everything.                                    *)
SavedAtBoot(start) ==
  IF start.known = Loaded(boots + 1).known THEN file ELSE start

(* Made once, before the user can change the settings. *)
AudioOutputs(settings) == {c \in Channel : settings[c]}

Boot(parts) ==
  /\ ~running /\ boots < MaxBoots
  /\ running' = TRUE /\ boots' = boots + 1 /\ found' = parts
  /\ config' = [Loaded(boots + 1) EXCEPT !.known = @ \cup parts]
  /\ file' = SavedAtBoot(config')
  /\ page' = config'.page /\ field' = config'.password /\ popup' = FALSE
  /\ outputs' = AudioOutputs(config'.page)
  /\ offered' = {}
  /\ onAtStart' = {c \in {"media", "guidance"} : wish[c] # FALSE}
  /\ UNCHANGED <<told, wish, inputs>>

(* The user quits, or the power goes: what was not saved is lost. *)
Stop ==
  /\ running /\ running' = FALSE /\ offered' = {}
  /\ UNCHANGED <<file, config, copyVars, startVars, pastVars, boots, inputs>>

-----------------------------------------------------------------------------
(* The user. *)

UserActs == running /\ inputs < MaxInputs /\ inputs' = inputs + 1
Save == file' = config'

(* A setter: nothing for the value of the copy, or the configuration, the  *)
(* file and the copy.                                                      *)
Set(k, value) ==
  /\ UserActs /\ page[k] # value
  /\ config' = [config EXCEPT !.page[k] = value] /\ Save
  /\ page' = [page EXCEPT ![k] = value]
  /\ wish' = [wish EXCEPT ![k] = value]
  /\ UNCHANGED <<running, field, popup, startVars, offered, told, onAtStart,
                 boots>>

SetCar(value) == Set("car", value)
SetMediaPlayback(value) == Set("playback", value)
SetAAChannel(c, value) == Set(c, value)
SetVideo(value) == Set("video", value)
SetHeadUnitMode(value) == Set("headUnit", value)
AcknowledgeFirstBoot == Set("firstBoot", FALSE)

(* The Save button. *)
SaveConfiguration ==
  /\ UserActs /\ file' = config
  /\ UNCHANGED <<running, config, copyVars, startVars, offered, pastVars, boots>>

(* Every key in the field: the hotspot goes on as it is, and phones will   *)
(* be told.                                                                *)
SetHotspotPassword(password) ==
  /\ UserActs /\ password # field /\ field' = password
  /\ config' = [config EXCEPT !.password = password] /\ Save
  /\ told' = None
  /\ UNCHANGED <<running, page, popup, startVars, offered, wish, onAtStart,
                 boots>>

OpenBrightness ==
  /\ running /\ ~popup /\ popup' = TRUE
  /\ UNCHANGED <<running, file, config, page, field, startVars, offered,
                 pastVars, boots, inputs>>

(* The slider moves the screen and the configuration, *)
SetTargetBrightness(level) ==
  /\ UserActs /\ popup /\ level # config.brightness
  /\ config' = [config EXCEPT !.brightness = level]
  /\ UNCHANGED <<running, file, copyVars, startVars, offered, pastVars, boots>>

(* which is saved when the popup closes, five seconds later or by a touch. *)
CloseBrightness ==
  /\ running /\ popup /\ popup' = FALSE /\ file' = config
  /\ UNCHANGED <<running, config, page, field, startVars, offered, pastVars,
                 boots, inputs>>

-----------------------------------------------------------------------------
(* Phones. *)

(* The Bluetooth server answers a WifiInfoRequest. *)
TellPassword ==
  /\ running /\ "bluetooth" \in found /\ told' = config.password
  /\ UNCHANGED <<running, file, config, copyVars, startVars, offered, wish,
                 onAtStart, boots, inputs>>

(* Fault: the outputs are not asked for. *)
MediaSinksUnguarded ==
  {c \in {"media", "guidance"} : config.page[c]} \cup {"system", "video"}

(* createMediaSinkServices(): the channels that are switched on and have an *)
(* output, never telephony, always the system's and the video.             *)
MediaSinks ==
  {c \in {"media", "guidance"} \cap outputs : config.page[c]}
    \cup {"system", "video"}

StartSession ==
  /\ running /\ offered = {} /\ offered' = MediaSinks
  /\ UNCHANGED <<running, file, config, copyVars, startVars, pastVars, boots,
                 inputs>>

EndSession ==
  /\ offered # {} /\ offered' = {}
  /\ UNCHANGED <<running, file, config, copyVars, startVars, pastVars, boots,
                 inputs>>

(* Before the first start: nothing was ever saved. *)
Init ==
  /\ running = FALSE /\ file = None
  /\ config = Defaults(GenerateRandomString(1))
  /\ page = config.page /\ field = config.password /\ popup = FALSE
  /\ found = {} /\ outputs = {} /\ offered = {}
  /\ told = None /\ wish = [k \in PageKey |-> None] /\ onAtStart = {}
  /\ boots = 0 /\ inputs = 0

User ==
  \/ \E value \in BOOLEAN :
       \/ SetCar(value) \/ SetMediaPlayback(value) \/ SetVideo(value)
       \/ SetHeadUnitMode(value)
       \/ \E c \in Channel : SetAAChannel(c, value)
  \/ AcknowledgeFirstBoot \/ SaveConfiguration
  \/ \E password \in Typed : SetHotspotPassword(password)
  \/ OpenBrightness \/ CloseBrightness
  \/ \E level \in Levels : SetTargetBrightness(level)

Next ==
  \/ \E parts \in SUBSET Part : Boot(parts)
  \/ Stop \/ User \/ TellPassword \/ StartSession \/ EndSession

Spec == Init /\ [][Next]_vars

-----------------------------------------------------------------------------
(* Properties. *)

(* Nothing the head unit lives by is in memory only: while it runs, and    *)
(* the brightness popup is closed, the next start would load what it has,  *)
(* unless nothing was ever saved and all is as at first.  What the user    *)
(* set on the page is what the file says, over restarts, and a phone that  *)
(* was told a password, drawn though it was, need not be told again.       *)
SettingsKept ==
  /\ running /\ ~popup =>
       config = IF file = None THEN Defaults(config.password) ELSE file
  /\ running => page = config.page /\ field = config.password
  /\ \A k \in PageKey :
       wish[k] # None => file # None /\ file.page[k] = wish[k]
  /\ told # None => file # None /\ file.password = told

(* A session offers the channels that the user had on when the head unit   *)
(* started, as outputs are made then, and has on now: media and guidance   *)
(* are on until he says otherwise, and what he says holds over restarts    *)
(* and whatever else is saved meanwhile.                                   *)
ChannelsAsSet ==
  [][offered = {} /\ offered' # {} =>
       offered' \cap Channel = {c \in onAtStart : wish[c] # FALSE}]_vars
=============================================================================
