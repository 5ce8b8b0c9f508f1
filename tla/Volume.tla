------------------------------- MODULE Volume -------------------------------
(***************************************************************************)
(* VolumeHandler, PulseAudioHandler and the two AudioDeviceModels: which   *)
(* device plays and which records, how loud, and the lists to choose from. *)
(*                                                                         *)
(* PulseAudioHandler asks the server and waits, with the GUI thread, for   *)
(* the callback.  A slot of the GUI thread is therefore a script of calls: *)
(* each is an action, the server's sinks and sources come and go between   *)
(* them, and a call whose callback never says done stops the thread for    *)
(* good.  The server's events are posted to the GUI thread, which takes    *)
(* them up between scripts.                                                *)
(*                                                                         *)
(* The volume of the microphone has no control in the user interface: it   *)
(* is set at the start only.                                               *)
(***************************************************************************)
EXTENDS Integers, Sequences, SequencesExt

CONSTANTS
  Sinks,      \* names of the sinks there may be,
  Platform,   \* those with "platform-" in them,
  Card,       \* the ALSA card of each (its device.string), or None,
  Sources,    \* and names of the sources
  None,       \* an empty string
  NoDevice,   \* the value of the entry "None" of the lists
  Sliders, Limits, \* where the user leaves a slider and the volume limits
  MaxChanges, \* bound: sinks and sources that come or go
  MaxInputs,  \* bound: what the user does
  MaxRestarts \* bound: times the head unit starts again

Direction == {"sink", "source"}
Names == [d \in Direction |-> IF d = "sink" THEN Sinks ELSE Sources]
Top == 255
Range255 == 0..Top
CaptureVolume == 150 \* of the microphone, between limits that are 0 and Top
Cards == {Card[s] : s \in Sinks} \ {None}

(* Sinks and sources have names of their own: alsa_output..., alsa_input... *)
Constants ==
  /\ IsFiniteSet(Sinks) /\ IsFiniteSet(Sources)
  /\ Sinks \cap Sources = {} /\ {None, NoDevice} \cap (Sinks \cup Sources) = {}
  /\ Sliders \subseteq Range255 /\ Limits \subseteq Range255
  /\ MaxChanges \in Nat /\ MaxInputs \in Nat /\ MaxRestarts \in Nat

VARIABLES
  ready,      \* the context is connected
  present,    \* the server's sinks and sources, in the order they came
  preferred,  \* the sink that was made its default
  soft,       \* the server's volume of each
  hw,         \* the value of each card's volume element
  silent,     \* what is muted: cards, sinks
  cardDevice, \* m_alsaCardDevice
  resolved,   \* m_resolvedSinkName and m_resolvedSourceName
  volume,     \* m_volumeSink
  muted,      \* m_volumeSinkMute
  limits,     \* PlaybackMin and PlaybackMax, which m_sinkMin and m_sinkMax follow
  stored,     \* PlaybackDevice and CaptureDevice
  file,       \* volume, limits and stored as they were last saved
  items,      \* the names in each list
  registered, \* each list is told of changes
  posted,     \* and is to be filled again, so many times
  missed,     \* a change has come between filling and registering
  page,       \* the settings page: the limits to go back to, or None
  modified,   \* _rangeModified
  script,     \* the calls the GUI thread has still to make
  stuck,      \* it waits for a callback that does not come
  chosen,     \* the devices the user has chosen last
  switched,   \* the sink was changed since a volume was set
  changes, inputs, restarts

paVars == <<ready, present, preferred, soft, hw, silent>>
handlerVars == <<cardDevice, resolved, volume, muted, limits, stored>>
listVars == <<items, registered, posted, missed>>
pageVars == <<page, modified>>
countVars == <<changes, inputs, restarts>>
vars == <<paVars, handlerVars, file, listVars, pageVars, script, stuck, chosen,
          switched, countVars>>

Device(d) == Names[d] \cup {None, NoDevice}
Devices ==
  {f \in [Direction -> Device("sink") \cup Device("source")] :
     \A d \in Direction : f[d] \in Device(d)}
Config ==
  [volume : Range255, limits : Range255 \X Range255, stored : Devices]

TypeOK ==
  /\ ready \in BOOLEAN /\ stuck \in BOOLEAN /\ muted \in BOOLEAN
  /\ present \in [Direction -> Seq(Sinks \cup Sources)]
  /\ items \in [Direction -> SUBSET (Sinks \cup Sources)]
  /\ \A d \in Direction :
       Range(present[d]) \subseteq Names[d] /\ items[d] \subseteq Names[d]
  /\ resolved \in Devices /\ stored \in Devices /\ chosen \in Devices
  /\ registered \in [Direction -> BOOLEAN] /\ missed \in [Direction -> BOOLEAN]
  /\ posted \in [Direction -> 0..MaxChanges]
  /\ preferred \in Sinks \cup {None} /\ cardDevice \in Cards \cup {None}
  /\ soft \in [Sinks \cup Sources -> Range255] /\ hw \in [Cards -> Range255]
  /\ silent \subseteq Sinks \cup Cards
  /\ volume \in Range255 /\ limits \in Range255 \X Range255 /\ file \in Config
  /\ page \in {None} \cup (Range255 \X Range255)
  /\ modified \in BOOLEAN /\ switched \in BOOLEAN
  /\ changes \in 0..MaxChanges /\ inputs \in 0..MaxInputs
  /\ restarts \in 0..MaxRestarts

-----------------------------------------------------------------------------
(* Conversions. *)

Clamp(v, lo, hi) == IF v < lo THEN lo ELSE IF v > hi THEN hi ELSE v

(* The slider's place between the limits. *)
PaValue(slider) ==
  Clamp(limits[1] + ((limits[2] - limits[1]) * slider) \div Top, 0, Top)

(* The mixer of the card, as ALSA lists its elements. *)
Mixer ==
  <<[lo |-> 0, hi |-> 1, volume |-> TRUE, switch |-> FALSE],    \* Analogue
    [lo |-> 0, hi |-> 207, volume |-> TRUE, switch |-> TRUE],   \* Digital
    [lo |-> 0, hi |-> 0, volume |-> FALSE, switch |-> TRUE]>>   \* Auto Mute
Width(e) == e.hi - e.lo
VolumeElement ==
  CHOOSE e \in Range(Mixer) : /\ e.volume
                              /\ \A f \in Range(Mixer) :
                                   f.volume => Width(f) <= Width(e)

(* Its range in millibel, of which the lower part is not used.             *)
DbRange == <<-10350, 0>>

(* A level as a value of the element: linear in dB, rounded up.            *)
AlsaVolume(level) ==
  LET floor == IF DbRange[1] > -6000 THEN DbRange[1] ELSE -6000
      target == floor + (2 * (DbRange[2] - floor) * (level - 1) + 254) \div 508
      steps == (target - DbRange[1]) * Width(VolumeElement)
      whole == DbRange[2] - DbRange[1]
  IN IF level = 0 THEN VolumeElement.lo
     ELSE VolumeElement.lo + (steps + whole - 1) \div whole

(* Fault: the first sink of a card stays. *)
NoneBetter(s, t) == FALSE

(* Of the sinks of a card getSinks() keeps the first that is not named     *)
(* after the platform, or the first: no other one replaces it.             *)
Better(s, t) == t \in Platform /\ s \notin Platform
Kept(s) ==
  LET seen == present["sink"]
  IN Card[s] = None
       \/ \E i \in DOMAIN seen :
            /\ seen[i] = s
            /\ \A j \in DOMAIN seen \ {i} : Card[seen[j]] = Card[s] =>
                 IF j < i THEN Better(s, seen[j]) ELSE ~Better(seen[j], s)

Listing(d) ==
  IF ~ready THEN {}
  ELSE IF d = "sink" THEN {s \in Range(present[d]) : Kept(s)}
  ELSE Range(present[d])

-----------------------------------------------------------------------------
(* Scripts. *)

Step(op, d, arg) == [op |-> op, dir |-> d, arg |-> arg]

(* resolveSinkName() and resolveSourceName() of a name. *)
Resolve(d, name) ==
  IF name = None THEN Step("best", d, None) ELSE Step("lookup", d, name)

(* Fault: nothing is sent. *)
ReapplyNothing == <<>>

(* reapplyVolume(). *)
Reapply == IF resolved["sink"] = None THEN <<>>
           ELSE <<Step("volume", "sink", volume)>>

(* main(): the lists are filled and registered, then the VolumeHandler     *)
(* finds its devices and sets their volumes.                               *)
Startup(config) ==
  <<Step("list", "sink", None), Step("register", "sink", None),
    Step("list", "source", None), Step("register", "source", None),
    Resolve("sink", config.stored["sink"]), Step("keep", "sink", None),
    Step("default", "sink", None), Step("volume", "sink", config.volume),
    Resolve("source", config.stored["source"]), Step("keep", "source", None),
    Step("volume", "source", CaptureVolume), Step("save", "source", None)>>

Both(v) == [d \in Direction |-> v]

(* The first start, with what PulseAudio has found. *)
Init ==
  /\ ready \in BOOLEAN
  /\ \E first \in SUBSET Sinks \ {{}} :
       present = [d \in Direction |->
                    SetToSeq(IF d = "sink" THEN first ELSE Sources)]
  /\ preferred = None
  /\ soft = [n \in Sinks \cup Sources |-> Top] /\ hw = [c \in Cards |-> 0]
  /\ silent = {}
  /\ cardDevice = None /\ resolved = Both(None)
  /\ volume = 150 /\ muted = FALSE /\ limits = <<0, Top>>
  /\ stored = Both(None)
  /\ file = [volume |-> 150, limits |-> limits, stored |-> stored]
  /\ items = Both({}) /\ registered = Both(FALSE) /\ posted = Both(0)
  /\ missed = Both(FALSE) /\ page = None /\ modified = FALSE
  /\ script = Startup(file) /\ stuck = FALSE
  /\ chosen = Both(None) /\ switched = FALSE
  /\ changes = 0 /\ inputs = 0 /\ restarts = 0

Is(op) == script # <<>> /\ ~stuck /\ Head(script).op = op
Dir == Head(script).dir
Arg == Head(script).arg
Done == script' = Tail(script)
There(n) == ready /\ n \in Range(present["sink"]) \cup Range(present["source"])

(* getDefaultSink() and getDefaultSource(). *)
ServerDefault(d) ==
  IF ~ready \/ present[d] = <<>> THEN None
  ELSE IF d = "sink" /\ There(preferred) THEN preferred
  ELSE Head(present[d])

-----------------------------------------------------------------------------
(* The calls. *)

(* Fills a list. *)
GetDevices ==
  /\ Is("list") /\ Done
  /\ items' = [items EXCEPT ![Dir] = Listing(Dir)]
  /\ missed' = IF registered[Dir] THEN missed ELSE [missed EXCEPT ![Dir] = FALSE]
  /\ UNCHANGED <<paVars, handlerVars, file, registered, posted, pageVars, stuck,
                 chosen, switched, countVars>>

AddChangedCallback ==
  /\ Is("register") /\ Done
  /\ registered' = [registered EXCEPT ![Dir] = TRUE]
  /\ UNCHANGED <<paVars, handlerVars, file, items, posted, missed, pageVars,
                 stuck, chosen, switched, countVars>>

(* No name is asked for: the server's default, if it is still there at the *)
(* look.                                                                   *)
BestAvailable ==
  /\ Is("best")
  /\ LET best == ServerDefault(Dir)
     IN IF best = None
        THEN Done /\ resolved' = [resolved EXCEPT ![Dir] = None]
        ELSE /\ script' = <<Step("confirm", Dir, best)>> \o Tail(script)
             /\ UNCHANGED resolved
  /\ UNCHANGED <<paVars, cardDevice, volume, muted, limits, stored, file,
                 listVars, pageVars, stuck, chosen, switched, countVars>>

Confirm ==
  /\ Is("confirm") /\ Done
  /\ resolved' = [resolved EXCEPT ![Dir] = IF There(Arg) THEN Arg ELSE None]
  /\ UNCHANGED <<paVars, cardDevice, volume, muted, limits, stored, file,
                 listVars, pageVars, stuck, chosen, switched, countVars>>

(* A name is asked for: the server says that it has no such sink.          *)
Lookup ==
  /\ Is("lookup")
  /\ IF There(Arg)
     THEN Done /\ resolved' = [resolved EXCEPT ![Dir] = Arg]
     ELSE /\ script' = <<Step("fallback", Dir, None)>> \o Tail(script)
          /\ UNCHANGED resolved
  /\ UNCHANGED <<paVars, cardDevice, volume, muted, limits, stored, file,
                 listVars, pageVars, stuck, chosen, switched, countVars>>

Fallback ==
  /\ Is("fallback") /\ Done
  /\ resolved' = [resolved EXCEPT ![Dir] = ServerDefault(Dir)]
  /\ UNCHANGED <<paVars, cardDevice, volume, muted, limits, stored, file,
                 listVars, pageVars, stuck, chosen, switched, countVars>>

Save(v, l, s) == file' = [volume |-> v, limits |-> l, stored |-> s]

(* Fault: what was found is stored in any case. *)
KeepAlways ==
  /\ Is("keep") /\ Done
  /\ stored' = [stored EXCEPT ![Dir] = resolved[Dir]]
  /\ UNCHANGED <<paVars, cardDevice, resolved, volume, muted, limits, file,
                 listVars, pageVars, stuck, chosen, switched, countVars>>

(* At the start what was found is stored, unless the user has chosen: the  *)
(* device may only be late.                                                *)
Keep ==
  /\ Is("keep") /\ Done
  /\ stored' = IF stored[Dir] = None THEN [stored EXCEPT ![Dir] = resolved[Dir]]
               ELSE stored
  /\ UNCHANGED <<paVars, cardDevice, resolved, volume, muted, limits, file,
                 listVars, pageVars, stuck, chosen, switched, countVars>>

(* The end of the start: what was stored is saved. *)
SaveFound ==
  /\ Is("save") /\ Done
  /\ IF stored = file.stored THEN UNCHANGED file ELSE Save(volume, limits, stored)
  /\ UNCHANGED <<paVars, handlerVars, listVars, pageVars, stuck, chosen,
                 switched, countVars>>

(* setDefaultSink(): the server's default, the ALSA card if it has one,    *)
(* and the server's own volume out of the way.  Asked about a sink that is *)
(* gone the server ends the call without eol > 0.                          *)
SetDefaultSink ==
  /\ Is("default")
  /\ LET s == resolved["sink"]
     IN IF s = None \/ ~ready
        THEN Done /\ UNCHANGED <<preferred, soft, cardDevice, stuck>>
        ELSE IF ~There(s)
        THEN /\ stuck' = TRUE
             /\ UNCHANGED <<script, preferred, soft, cardDevice>>
        ELSE /\ Done /\ preferred' = s /\ soft' = [soft EXCEPT ![s] = Top]
             /\ cardDevice' = IF Card[s] = None THEN cardDevice ELSE Card[s]
             /\ UNCHANGED stuck
  /\ UNCHANGED <<ready, present, hw, silent, resolved, volume, muted, limits,
                 stored, file, listVars, pageVars, chosen, switched, countVars>>

CardThere(c) == \E s \in Range(present["sink"]) : Card[s] = c
OnCard == cardDevice # None /\ CardThere(cardDevice)

(* setSinkVolume(), by the card's mixer or the server, and what            *)
(* setVolumeSink() notes when it comes back.                               *)
SetSinkVolume ==
  /\ Is("volume") /\ Dir = "sink"
  /\ LET s == resolved["sink"]
     IN IF ~OnCard /\ ready /\ s # None /\ ~There(s)
        THEN stuck' = TRUE /\ UNCHANGED <<script, hw, soft, volume, switched>>
        ELSE /\ Done /\ volume' = Arg /\ switched' = FALSE
             /\ hw' = IF OnCard
                      THEN [hw EXCEPT ![cardDevice] = AlsaVolume(PaValue(Arg))]
                      ELSE hw
             /\ soft' = IF ~OnCard /\ There(s)
                        THEN [soft EXCEPT ![s] = PaValue(Arg)] ELSE soft
             /\ UNCHANGED stuck
  /\ UNCHANGED <<ready, present, preferred, silent, cardDevice, resolved, muted,
                 limits, stored, file, listVars, pageVars, chosen, countVars>>

(* setSourceVolume() is told when the source is gone. *)
SetSourceVolume ==
  /\ Is("volume") /\ Dir = "source" /\ Done
  /\ LET s == resolved["source"]
     IN soft' = IF There(s) THEN [soft EXCEPT ![s] = Arg] ELSE soft
  /\ UNCHANGED <<ready, present, preferred, hw, silent, handlerVars, file,
                 listVars, pageVars, stuck, chosen, switched, countVars>>

(* setSinkMute(), on the card's switch or the server: nobody waits. *)
SetSinkMute ==
  /\ Is("mute") /\ Done
  /\ LET target == IF OnCard THEN cardDevice ELSE resolved["sink"]
     IN silent' = IF ~OnCard /\ ~There(target) THEN silent
                  ELSE IF Arg THEN silent \cup {target} ELSE silent \ {target}
  /\ muted' = Arg
  /\ UNCHANGED <<ready, present, preferred, soft, hw, cardDevice, resolved,
                 volume, limits, stored, file, listVars, pageVars, stuck,
                 chosen, switched, countVars>>

GuiThread ==
  \/ GetDevices \/ AddChangedCallback \/ BestAvailable \/ Confirm \/ Lookup
  \/ Fallback \/ Keep \/ SaveFound \/ SetDefaultSink \/ SetSinkVolume
  \/ SetSourceVolume \/ SetSinkMute

-----------------------------------------------------------------------------
(* What the GUI thread takes up. *)

Idle == script = <<>> /\ ~stuck
UserActs == Idle /\ inputs < MaxInputs /\ inputs' = inputs + 1

(* A device of a list, or its entry "None". *)
ChooseDevice(d, n) ==
  /\ UserActs /\ page # None /\ n \in items[d] \cup {NoDevice} /\ n # stored[d]
  /\ stored' = [stored EXCEPT ![d] = n] /\ chosen' = [chosen EXCEPT ![d] = n]
  /\ Save(volume, limits, stored')
  /\ script' = IF d = "sink" THEN <<Resolve(d, n), Step("default", d, None)>>
               ELSE <<Resolve(d, n)>>
  /\ switched' = (switched \/ d = "sink")
  /\ UNCHANGED <<paVars, cardDevice, resolved, volume, muted, limits, listVars,
                 pageVars, stuck, changes, restarts>>

MoveVolume(v) ==
  /\ UserActs /\ resolved["sink"] # None
  /\ script' = <<Step("volume", "sink", v)>>
  /\ UNCHANGED <<paVars, handlerVars, file, listVars, pageVars, stuck, chosen,
                 switched, changes, restarts>>

ToggleSinkMute ==
  /\ UserActs /\ resolved["sink"] # None
  /\ script' = <<Step("mute", "sink", ~muted)>>
  /\ UNCHANGED <<paVars, handlerVars, file, listVars, pageVars, stuck, chosen,
                 switched, changes, restarts>>

(* The volume popup closes. *)
SaveSettings ==
  /\ UserActs /\ Save(volume, limits, stored)
  /\ UNCHANGED <<paVars, handlerVars, listVars, pageVars, script, stuck, chosen,
                 switched, changes, restarts>>

(* The settings page fills both lists and notes the limits. *)
OpenSettings ==
  /\ UserActs /\ page = None /\ page' = limits /\ modified' = FALSE
  /\ script' = <<Step("list", "sink", None), Step("list", "source", None)>>
  /\ UNCHANGED <<paVars, handlerVars, file, listVars, stuck, chosen, switched,
                 changes, restarts>>

(* A limit is stored as it moves, and the volume set anew. *)
MoveLimit(l) ==
  /\ UserActs /\ page # None /\ l[1] <= l[2]
  /\ l[1] = limits[1] \/ l[2] = limits[2]
  /\ limits' = l /\ Save(volume, limits', stored) /\ modified' = TRUE
  /\ script' = Reapply
  /\ UNCHANGED <<paVars, cardDevice, resolved, volume, muted, stored, listVars,
                 page, stuck, chosen, switched, changes, restarts>>

PressSave ==
  /\ UserActs /\ page # None /\ Save(volume, limits, stored)
  /\ page' = limits /\ modified' = FALSE
  /\ UNCHANGED <<paVars, handlerVars, listVars, script, stuck, chosen, switched,
                 changes, restarts>>

(* Back takes back what was not saved. *)
PressBack ==
  /\ UserActs /\ page # None /\ page' = None /\ modified' = FALSE
  /\ IF modified
     THEN /\ limits' = page /\ Save(volume, limits', stored)
          /\ script' = Reapply
     ELSE UNCHANGED <<limits, file, script>>
  /\ UNCHANGED <<paVars, cardDevice, resolved, volume, muted, stored, listVars,
                 stuck, chosen, switched, changes, restarts>>

(* What the server's events have posted. *)
Refresh(d) ==
  /\ Idle /\ posted[d] > 0 /\ posted' = [posted EXCEPT ![d] = @ - 1]
  /\ script' = <<Step("list", d, None)>>
  /\ UNCHANGED <<paVars, handlerVars, file, items, registered, missed, pageVars,
                 stuck, chosen, switched, countVars>>

-----------------------------------------------------------------------------
(* The server. *)

(* subscribe_callback(), on the server's thread. *)
Notify(d) ==
  /\ posted' = IF registered[d] THEN [posted EXCEPT ![d] = @ + 1] ELSE posted
  /\ missed' = IF registered[d] THEN missed ELSE [missed EXCEPT ![d] = TRUE]

Appear(d, n) ==
  /\ ready /\ changes < MaxChanges /\ n \in Names[d] \ Range(present[d])
  /\ changes' = changes + 1
  /\ present' = [present EXCEPT ![d] = Append(@, n)] /\ Notify(d)
  /\ UNCHANGED <<ready, preferred, soft, hw, silent, handlerVars, file, items,
                 registered, pageVars, script, stuck, chosen, switched, inputs,
                 restarts>>

Vanish(d, i) ==
  /\ ready /\ changes < MaxChanges
  /\ changes' = changes + 1
  /\ present' = [present EXCEPT ![d] = RemoveAt(@, i)] /\ Notify(d)
  /\ UNCHANGED <<ready, preferred, soft, hw, silent, handlerVars, file, items,
                 registered, pageVars, script, stuck, chosen, switched, inputs,
                 restarts>>

(* The connection is lost: a call that waits is never answered. *)
ContextFails ==
  /\ ready /\ changes < MaxChanges /\ changes' = changes + 1
  /\ ready' = FALSE /\ stuck' \in {stuck, script # <<>>}
  /\ UNCHANGED <<present, preferred, soft, hw, silent, handlerVars, file,
                 listVars, pageVars, script, chosen, switched, inputs, restarts>>

Server ==
  \/ ContextFails
  \/ \E d \in Direction : \/ \E n \in Names[d] : Appear(d, n)
                         \/ \E i \in DOMAIN present[d] : Vanish(d, i)

(* The head unit starts again, with what was saved. *)
Restart ==
  /\ restarts < MaxRestarts /\ restarts' = restarts + 1
  /\ ready' = TRUE /\ script' = Startup(file) /\ stuck' = FALSE
  /\ volume' = file.volume /\ limits' = file.limits /\ stored' = file.stored
  /\ cardDevice' = None /\ resolved' = Both(None) /\ muted' = FALSE
  /\ preferred' = None /\ silent' = {}
  /\ items' = Both({}) /\ registered' = Both(FALSE) /\ posted' = Both(0)
  /\ missed' = Both(FALSE) /\ page' = None /\ modified' = FALSE
  /\ switched' = FALSE
  /\ UNCHANGED <<present, soft, hw, file, chosen, changes, inputs>>

User ==
  \/ \E d \in Direction : \E n \in Device(d) : ChooseDevice(d, n)
  \/ \E v \in Sliders : MoveVolume(v)
  \/ \E lo, hi \in Limits : MoveLimit(<<lo, hi>>)
  \/ ToggleSinkMute \/ SaveSettings \/ OpenSettings \/ PressSave \/ PressBack

Next ==
  \/ GuiThread \/ Server \/ User \/ Restart
  \/ \E d \in Direction : Refresh(d)

(* The GUI thread goes on. *)
Fairness == WF_vars(GuiThread) /\ WF_vars(\E d \in Direction : Refresh(d))
Spec == Init /\ [][Next]_vars /\ Fairness

-----------------------------------------------------------------------------
(* Properties. *)

(* When the lists have caught up they show every sink and source that is   *)
(* there, and of several sinks of a card one, a named one if there is any: *)
(* whatever has come and gone while the GUI thread was busy, unless it was *)
(* between the filling of the list and its registration.                   *)
ListsFollow ==
  (Idle /\ ready /\ posted = Both(0)) =>
    /\ ~missed["source"] => items["source"] = Range(present["source"])
    /\ ~missed["sink"] =>
         LET sinks == Range(present["sink"])
         IN /\ items["sink"] \subseteq sinks
            /\ \A s \in sinks : Card[s] = None => s \in items["sink"]
            /\ \A c \in {Card[s] : s \in sinks} \ {None} :
                 \E s \in items["sink"] :
                   /\ \A t \in items["sink"] : Card[t] = c <=> t = s
                   /\ s \in Platform => \A t \in sinks :
                                          Card[t] = c => t \in Platform

(* The device the user chose stays chosen, in the configuration and in the *)
(* file, over restarts and while it is away: "we must NOT overwrite their  *)
(* preference with the fallback default".                                  *)
PreferenceKept ==
  \A d \in Direction :
    chosen[d] # None => stored[d] = chosen[d] /\ file.stored[d] = chosen[d]

(* A sink with a card plays as loud as slider and limits say, also after   *)
(* Back has taken back a preview of the limits, with the server's own      *)
(* volume at the top; but not from the choice of another sink to the next  *)
(* move of the slider, for nothing sets the volume then.                   *)
HeardAsSet ==
  LET s == resolved["sink"]
  IN (Idle /\ ready /\ s \in Range(present["sink"]) /\ ~switched
        /\ cardDevice # None /\ Card[s] = cardDevice)
       => hw[cardDevice] = AlsaVolume(PaValue(volume)) /\ soft[s] = Top

(* A sink without a card plays as loud by the server's own volume, once it *)
(* was set: "PA soft-volume fallback (non-ALSA sinks ...)", which the name *)
(* of the card selects, "empty on non-ALSA sinks".                         *)
SoftWithoutCard ==
  LET s == resolved["sink"]
  IN (Idle /\ There(s) /\ ~switched /\ Card[s] = None)
       => soft[s] = PaValue(volume)
=============================================================================
