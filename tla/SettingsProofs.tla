--------------------------- MODULE SettingsProofs ---------------------------
(***************************************************************************)
(* Proofs about Settings: the types, that nothing the head unit lives by   *)
(* stays in memory only, and that a session offers the channels the user   *)
(* has on, for any passwords, any levels and any number of starts.         *)
(*                                                                         *)
(* SettingsKept is not inductive: the popup hides the brightness, and why a *)
(* phone was told a password that is on the file is that the start which   *)
(* found Bluetooth saved it.  KeptInv below says both; SwitchesKept says    *)
(* how channels and outputs follow the user's wish.                        *)
(***************************************************************************)
EXTENDS Settings, TLAPS

(* What a configuration is without a file. *)
LEMMA DefaultsType ==
  ASSUME Constants, NEW password \in Password
  PROVE  /\ Defaults(password) \in Config
         /\ Defaults(password).page \in [PageKey -> BOOLEAN]
         /\ Defaults(password).password = password
         /\ Defaults(password).known = {}
         /\ Defaults(password).brightness = FullBrightness
<1>1. [k \in PageKey |-> k \in {"media", "guidance", "headUnit", "firstBoot"}]
        \in [PageKey -> BOOLEAN]
  OBVIOUS
<1>2. QED
  BY <1>1 DEF Defaults, Config, Constants

(* A start has a configuration, with the file or without. *)
LEMMA LoadedType ==
  ASSUME Constants, TypeOK, boots < MaxBoots
  PROVE  Loaded(boots + 1) \in Config
<1>1. GenerateRandomString(boots + 1) \in Password
  BY DEF Constants, TypeOK, GenerateRandomString, Password
<1>2. QED
  BY <1>1, DefaultsType DEF Loaded, TypeOK

(* The bound on inputs holds. *)
LEMMA UserTypes ==
  ASSUME Constants, TypeOK, UserActs
  PROVE  inputs' \in 0..MaxInputs
BY DEF Constants, TypeOK, UserActs

(* A start keeps the types. *)
LEMMA StartTypes ==
  ASSUME Constants, TypeOK, NEW parts \in SUBSET Part, Boot(parts)
  PROVE  TypeOK'
<1>1. Loaded(boots + 1) \in Config
  BY LoadedType DEF Boot
<1>2. config' \in Config
  BY <1>1 DEF Boot, Config
<1>3. file' = None \/ file' \in Config
  BY <1>2 DEF Boot, SavedAtBoot, TypeOK
<1>4. page' \in [PageKey -> BOOLEAN] /\ field' \in Password
  BY <1>2 DEF Boot, Config
<1>5. outputs' \subseteq Channel
  BY DEF Boot, AudioOutputs
<1>6. boots' \in 0..MaxBoots
  BY DEF Boot, TypeOK, Constants
<1>7. QED
  BY <1>2, <1>3, <1>4, <1>5, <1>6 DEF Boot, TypeOK, pastVars

(* A setter of the settings page keeps the types. *)
LEMMA SetTypes ==
  ASSUME Constants, TypeOK, NEW k \in PageKey, NEW value \in BOOLEAN,
         Set(k, value)
  PROVE  TypeOK'
<1>1. inputs' \in 0..MaxInputs
  BY UserTypes DEF Set
<1>2. /\ page' \in [PageKey -> BOOLEAN]
      /\ wish' \in [PageKey -> BOOLEAN \cup {None}]
  BY DEF Set, TypeOK
<1>3. config' \in Config
  <2>1. [config.page EXCEPT ![k] = value] \in [PageKey -> BOOLEAN]
    BY DEF TypeOK, Config
  <2>2. QED
    BY <2>1 DEF Set, TypeOK, Config
<1>4. QED
  BY <1>1, <1>2, <1>3 DEF Set, Save, TypeOK, startVars

(* What the user does is a setter or one of five other actions. *)
LEMMA SetCases ==
  ASSUME User
  PROVE  \/ \E k \in PageKey : \E value \in BOOLEAN : Set(k, value)
         \/ SaveConfiguration \/ OpenBrightness \/ CloseBrightness
         \/ \E password \in Typed : SetHotspotPassword(password)
         \/ \E level \in Levels : SetTargetBrightness(level)
BY DEF User, SetCar, SetMediaPlayback, SetVideo, SetHeadUnitMode, SetAAChannel,
       AcknowledgeFirstBoot, PageKey

(* Every step keeps the types. *)
LEMMA StepTypes ==
  ASSUME Constants, TypeOK, Next
  PROVE  TypeOK'
<1>1. ASSUME NEW k \in PageKey, NEW value \in BOOLEAN, Set(k, value)
      PROVE  TypeOK'
  BY <1>1, SetTypes
<1>2. CASE SaveConfiguration
  BY <1>2, UserTypes
  DEF SaveConfiguration, TypeOK, copyVars, startVars, pastVars
<1>3. CASE OpenBrightness \/ CloseBrightness
  BY <1>3 DEF OpenBrightness, CloseBrightness, TypeOK, startVars, pastVars
<1>4. ASSUME NEW password \in Typed, SetHotspotPassword(password) PROVE TypeOK'
  <2>1. inputs' \in 0..MaxInputs
    BY <1>4, UserTypes DEF SetHotspotPassword
  <2>2. config' \in Config /\ password \in Password
    BY <1>4 DEF SetHotspotPassword, TypeOK, Config, Password
  <2>3. QED
    BY <1>4, <2>1, <2>2 DEF SetHotspotPassword, Save, TypeOK, startVars
<1>5. ASSUME NEW level \in Levels, SetTargetBrightness(level) PROVE TypeOK'
  <2>1. inputs' \in 0..MaxInputs
    BY <1>5, UserTypes DEF SetTargetBrightness
  <2>2. config' \in Config
    BY <1>5 DEF SetTargetBrightness, TypeOK, Config
  <2>3. QED
    BY <1>5, <2>1, <2>2 DEF SetTargetBrightness, TypeOK, copyVars, startVars,
                            pastVars
<1>6. CASE Stop
  BY <1>6 DEF Stop, TypeOK, copyVars, startVars, pastVars
<1>7. CASE TellPassword
  BY <1>7 DEF TellPassword, TypeOK, Config, copyVars, startVars
<1>8. CASE StartSession
  <2>1. offered' \subseteq Channel \cup {"system", "video"}
    BY <1>8 DEF StartSession, MediaSinks, Channel
  <2>2. QED
    BY <1>8, <2>1 DEF StartSession, TypeOK, copyVars, startVars, pastVars
<1>9. CASE EndSession
  BY <1>9 DEF EndSession, TypeOK, copyVars, startVars, pastVars
<1>10. QED
  BY <1>1, <1>2, <1>3, <1>4, <1>5, <1>6, <1>7, <1>8, <1>9, StartTypes, SetCases
  DEF Next

(* The types hold before the first start. *)
LEMMA InitTypes ==
  ASSUME Constants, Init
  PROVE  TypeOK
<1>1. GenerateRandomString(1) \in Password
  BY DEF GenerateRandomString, Password, Constants
<1>2. config \in Config /\ page \in [PageKey -> BOOLEAN] /\ field \in Password
  BY <1>1, DefaultsType DEF Init
<1>3. 0 \in 0..MaxBoots /\ 0 \in 0..MaxInputs
  BY DEF Constants
<1>4. QED
  BY <1>2, <1>3 DEF Init, TypeOK

-----------------------------------------------------------------------------
(* What is kept. *)

(* Alike but for the brightness, which the slider moves unsaved. *)
Alike(c, d) == c.page = d.page /\ c.password = d.password /\ c.known = d.known

(* What the next start would load. *)
NextStart == IF file = None THEN Defaults(config.password) ELSE file

(* While it runs, the copies and the next start are as the configuration. *)
Running ==
  running => /\ Alike(config, NextStart)
             /\ ~popup => config.brightness = NextStart.brightness
             /\ page = config.page /\ field = config.password
             /\ found \subseteq config.known

(* The two histories: the settings page, and the password. *)
WishKept ==
  \A k \in PageKey : wish[k] # None => file # None /\ file.page[k] = wish[k]
ToldKept == told # None => file # None /\ file.password = told

(* The inductive invariant. *)
KeptInv == TypeOK /\ Running /\ WishKept /\ ToldKept

(* Configurations that agree on the brightness too are the same. *)
LEMMA AlikeEqual ==
  ASSUME NEW c \in Config, NEW d \in Config, Alike(c, d),
         c.brightness = d.brightness
  PROVE  c = d
BY DEF Config, Alike

(* The next start would have a configuration. *)
LEMMA NextStartType ==
  ASSUME Constants, TypeOK
  PROVE  NextStart \in Config
BY DefaultsType DEF NextStart, TypeOK, Config

(* After a save, the next start would load what is in memory. *)
LEMMA SavedAll ==
  ASSUME Constants, config' \in Config, file' = config'
  PROVE  NextStart' = config' /\ file' # None
BY DEF NextStart, Constants

(* A start keeps the invariant, whether it saves what it found or not. *)
LEMMA StartKept ==
  ASSUME Constants, KeptInv, NEW parts \in SUBSET Part, Boot(parts)
  PROVE  Running' /\ WishKept' /\ ToldKept'
<1>1. Loaded(boots + 1) \in Config /\ config' \in Config
  BY LoadedType, StartTypes DEF Boot, KeptInv, TypeOK
<1>2. /\ config'.page = Loaded(boots + 1).page
      /\ config'.password = Loaded(boots + 1).password
      /\ config'.brightness = Loaded(boots + 1).brightness
      /\ config'.known = Loaded(boots + 1).known \cup parts
  BY <1>1 DEF Boot, Config
<1>3. CASE file' = config'
  <2>1. NextStart' = config' /\ file' # None
    BY <1>1, <1>3, SavedAll
  <2>2. Running'
    BY <1>2, <2>1 DEF Boot, Running, Alike
  <2>3. file # None => file'.page = file.page /\ file'.password = file.password
    BY <1>2, <1>3 DEF Loaded
  <2>4. QED
    BY <2>1, <2>2, <2>3 DEF Boot, KeptInv, WishKept, ToldKept, pastVars
<1>4. CASE file' = file /\ config'.known = Loaded(boots + 1).known
  <2>1. config' = Loaded(boots + 1)
    BY <1>1, <1>2, <1>4, AlikeEqual DEF Alike
  <2>2. NextStart' = config'
    <3>1. CASE file = None
      <4>1. config' = Defaults(GenerateRandomString(boots + 1))
        BY <2>1, <3>1 DEF Loaded
      <4>2. config'.password = GenerateRandomString(boots + 1)
        BY <4>1 DEF Defaults
      <4>3. QED
        BY <1>4, <3>1, <4>1, <4>2 DEF NextStart
    <3>2. CASE file # None
      BY <1>4, <2>1, <3>2 DEF NextStart, Loaded
    <3>3. QED
      BY <3>1, <3>2
  <2>3. Running'
    BY <1>2, <2>2 DEF Boot, Running, Alike
  <2>4. QED
    BY <1>4, <2>3 DEF Boot, KeptInv, WishKept, ToldKept, pastVars
<1>5. QED
  BY <1>3, <1>4 DEF Boot, SavedAtBoot

(* So does a setter, which saves. *)
LEMMA SetKept ==
  ASSUME Constants, KeptInv, running, NEW k \in PageKey, NEW value \in BOOLEAN,
         Set(k, value)
  PROVE  Running' /\ WishKept' /\ ToldKept'
<1>1. config' \in Config /\ file' = config'
  BY SetTypes DEF KeptInv, TypeOK, Set, Save
<1>2. NextStart' = config' /\ file' # None
  BY <1>1, SavedAll
<1>3. /\ config'.page = [config.page EXCEPT ![k] = value]
      /\ config'.password = config.password
      /\ config'.known = config.known
  BY DEF Set, KeptInv, TypeOK, Config
<1>4. Running'
  BY <1>2, <1>3 DEF Set, KeptInv, Running, Alike, startVars
<1>5. WishKept'
  <2>1. SUFFICES ASSUME NEW j \in PageKey, wish'[j] # None
                 PROVE  file'.page[j] = wish'[j]
    BY <1>2 DEF WishKept
  <2>2. CASE j = k
    BY <1>1, <1>3, <2>2 DEF Set, KeptInv, TypeOK, Config
  <2>3. CASE j # k
    <3>1. wish[j] # None /\ wish'[j] = wish[j]
      BY <2>1, <2>3 DEF Set, KeptInv, TypeOK
    <3>2. config.page[j] = wish[j]
      BY <3>1 DEF KeptInv, WishKept, Running, NextStart, Alike
    <3>3. QED
      BY <1>1, <1>3, <2>3, <3>1, <3>2 DEF KeptInv, TypeOK, Config
  <2>4. QED
    BY <2>2, <2>3
<1>6. ToldKept'
  BY <1>1, <1>2, <1>3
  DEF Set, KeptInv, ToldKept, Running, NextStart, Alike
<1>7. QED
  BY <1>4, <1>5, <1>6

(* So does a save of what is in memory. *)
LEMMA SavedKept ==
  ASSUME Constants, KeptInv, running, running' = running, config' = config,
         file' = config, UNCHANGED <<page, field, startVars, pastVars>>
  PROVE  Running' /\ WishKept' /\ ToldKept'
<1>1. NextStart' = config' /\ file' # None
  BY SavedAll DEF KeptInv, TypeOK
<1>2. file # None => file'.page = file.page /\ file'.password = file.password
  BY DEF KeptInv, Running, NextStart, Alike
<1>3. QED
  BY <1>1, <1>2
  DEF KeptInv, Running, WishKept, ToldKept, Alike, startVars, pastVars

(* So does every step. *)
LEMMA StepKept ==
  ASSUME Constants, KeptInv, Next
  PROVE  Running' /\ WishKept' /\ ToldKept'
<1>1. ASSUME NEW k \in PageKey, NEW value \in BOOLEAN, Set(k, value)
      PROVE  Running' /\ WishKept' /\ ToldKept'
  BY <1>1, SetKept DEF Set, UserActs
<1>2. CASE SaveConfiguration \/ CloseBrightness
  BY <1>2, SavedKept DEF SaveConfiguration, CloseBrightness, UserActs, copyVars
<1>3. CASE OpenBrightness
  BY <1>3 DEF OpenBrightness, KeptInv, Running, WishKept, ToldKept, NextStart,
              startVars, pastVars
<1>4. ASSUME NEW password \in Typed, SetHotspotPassword(password)
      PROVE  Running' /\ WishKept' /\ ToldKept'
  <2>1. /\ config' \in Config /\ file' = config' /\ running
        /\ config'.page = config.page /\ config'.known = config.known
        /\ config'.password = password
    BY <1>4 DEF SetHotspotPassword, Save, UserActs, KeptInv, TypeOK, Config,
                Password
  <2>2. NextStart' = config' /\ file' # None
    BY <2>1, SavedAll
  <2>3. Running'
    BY <1>4, <2>1, <2>2
    DEF SetHotspotPassword, KeptInv, Running, Alike, startVars
  <2>4. WishKept'
    BY <1>4, <2>1, <2>2
    DEF SetHotspotPassword, KeptInv, WishKept, Running, NextStart, Alike
  <2>5. QED
    BY <1>4, <2>3, <2>4 DEF SetHotspotPassword, ToldKept
<1>5. ASSUME NEW level \in Levels, SetTargetBrightness(level)
      PROVE  Running' /\ WishKept' /\ ToldKept'
  <2>1. /\ config'.page = config.page /\ config'.known = config.known
        /\ config'.password = config.password /\ popup' = TRUE
    BY <1>5 DEF SetTargetBrightness, KeptInv, TypeOK, Config, copyVars
  <2>2. NextStart' = NextStart
    BY <1>5, <2>1 DEF SetTargetBrightness, NextStart
  <2>3. QED
    BY <1>5, <2>1, <2>2
    DEF SetTargetBrightness, KeptInv, Running, WishKept, ToldKept, Alike,
        copyVars, startVars, pastVars
<1>6. CASE Stop
  BY <1>6 DEF Stop, KeptInv, Running, WishKept, ToldKept, pastVars
<1>7. CASE TellPassword
  <2>1. file # None /\ file.password = config.password
    BY <1>7, DefaultsType
    DEF TellPassword, KeptInv, TypeOK, Config, Running, NextStart, Alike
  <2>2. QED
    BY <1>7, <2>1
    DEF TellPassword, KeptInv, Running, WishKept, ToldKept, NextStart,
        copyVars, startVars
<1>8. CASE StartSession \/ EndSession
  BY <1>8 DEF StartSession, EndSession, KeptInv, Running, WishKept, ToldKept,
              NextStart, copyVars, startVars, pastVars
<1>9. QED
  BY <1>1, <1>2, <1>3, <1>4, <1>5, <1>6, <1>7, <1>8, StartKept, SetCases
  DEF Next

(* The invariant is inductive. *)
LEMMA KeptStays ==
  ASSUME Constants, KeptInv, [Next]_vars
  PROVE  KeptInv'
<1>1. CASE Next
  BY <1>1, StepTypes, StepKept DEF KeptInv
<1>2. CASE UNCHANGED vars
  BY <1>2 DEF KeptInv, TypeOK, Running, WishKept, ToldKept, NextStart, vars,
              copyVars, startVars, pastVars
<1>3. QED
  BY <1>1, <1>2

(* A configuration that is kept so meets SettingsKept.                     *)
LEMMA SettingsKeptFollows ==
  ASSUME Constants, KeptInv
  PROVE  SettingsKept
<1>1. ASSUME running, ~popup PROVE config = NextStart
  BY <1>1, NextStartType, AlikeEqual DEF KeptInv, TypeOK, Running
<1>2. QED
  BY <1>1
  DEF SettingsKept, KeptInv, Running, WishKept, ToldKept, NextStart

-----------------------------------------------------------------------------
(* What sessions offer. *)

(* The channels that sessions offer if they are on. *)
Switched == {"media", "guidance"}

(* The file, if there is one, has them as the user has set them, and the   *)
(* outputs of this start are those of the channels that were on.           *)
SwitchesKept ==
  /\ file # None => \A c \in Switched : file.page[c] <=> wish[c] # FALSE
  /\ running => outputs \cap Switched = onAtStart

(* So does what the next start would load. *)
LEMMA SwitchesNext ==
  ASSUME Constants, KeptInv, SwitchesKept, NEW c \in Switched
  PROVE  NextStart.page[c] <=> wish[c] # FALSE
<1>1. c \in PageKey
  BY DEF Switched, PageKey, Channel
<1>2. CASE file = None
  <2>1. wish[c] = None
    BY <1>1, <1>2 DEF KeptInv, WishKept
  <2>2. NextStart.page[c] = TRUE
    BY <1>1, <1>2 DEF NextStart, Defaults, Switched
  <2>3. QED
    BY <2>1, <2>2 DEF Constants
<1>3. CASE file # None
  BY <1>3 DEF NextStart, SwitchesKept
<1>4. QED
  BY <1>2, <1>3

(* And so does the configuration while it runs. *)
LEMMA SwitchesNow ==
  ASSUME Constants, KeptInv, SwitchesKept, running, NEW c \in Switched
  PROVE  config.page[c] <=> wish[c] # FALSE
BY SwitchesNext DEF KeptInv, Running, Alike

(* A start keeps this: outputs are made of what it has loaded. *)
LEMMA StartSwitches ==
  ASSUME Constants, KeptInv, SwitchesKept, NEW parts \in SUBSET Part, Boot(parts)
  PROVE  SwitchesKept'
<1>1. Loaded(boots + 1) \in Config
  BY LoadedType DEF Boot, KeptInv
<1>2. config'.page = Loaded(boots + 1).page
  BY <1>1 DEF Boot, Config
<1>3. Loaded(boots + 1).page = NextStart.page
  BY DEF Loaded, NextStart, Defaults
<1>4. ASSUME NEW c \in Switched PROVE config'.page[c] <=> wish[c] # FALSE
  BY <1>2, <1>3, <1>4, SwitchesNext
<1>5. outputs' \cap Switched = onAtStart'
  BY <1>4 DEF Boot, AudioOutputs, Switched, Channel
<1>6. file' # None => \A c \in Switched : file'.page[c] <=> wish[c] # FALSE
  BY <1>4 DEF Boot, SavedAtBoot, SwitchesKept
<1>7. QED
  BY <1>5, <1>6 DEF Boot, SwitchesKept

(* So does a setter. *)
LEMMA SetSwitches ==
  ASSUME Constants, KeptInv, SwitchesKept, running,
         NEW k \in PageKey, NEW value \in BOOLEAN, Set(k, value)
  PROVE  SwitchesKept'
<1>1. /\ file' = config' /\ config.page \in [PageKey -> BOOLEAN]
      /\ config'.page = [config.page EXCEPT ![k] = value]
  BY DEF Set, Save, KeptInv, TypeOK, Config
<1>2. wish' = [wish EXCEPT ![k] = value] /\ DOMAIN wish = PageKey
  BY DEF Set, KeptInv, TypeOK
<1>3. Switched \subseteq PageKey
  BY DEF Switched, PageKey, Channel
<1>4. ASSUME NEW c \in Switched PROVE file'.page[c] <=> wish'[c] # FALSE
  <2>1. CASE c = k
    BY <1>1, <1>2, <1>3, <2>1
  <2>2. CASE c # k
    BY <1>1, <1>2, <1>3, <2>2, SwitchesNow
  <2>3. QED
    BY <2>1, <2>2
<1>5. QED
  BY <1>4 DEF Set, SwitchesKept, startVars

(* So does a save, of a configuration whose page is as it was. *)
LEMMA SavedSwitches ==
  ASSUME Constants, KeptInv, SwitchesKept, running, running' = running,
         file' \in {file, config, config'}, config'.page = config.page,
         UNCHANGED <<outputs, wish, onAtStart>>
  PROVE  SwitchesKept'
BY SwitchesNow DEF SwitchesKept

(* So does every step. *)
LEMMA StepSwitches ==
  ASSUME Constants, KeptInv, SwitchesKept, [Next]_vars
  PROVE  SwitchesKept'
<1>1. ASSUME NEW k \in PageKey, NEW value \in BOOLEAN, Set(k, value)
      PROVE  SwitchesKept'
  BY <1>1, SetSwitches DEF Set, UserActs
<1>2. CASE SaveConfiguration \/ OpenBrightness \/ CloseBrightness
  BY <1>2, SavedSwitches
  DEF SaveConfiguration, OpenBrightness, CloseBrightness, UserActs, startVars,
      pastVars
<1>3. ASSUME NEW password \in Typed, SetHotspotPassword(password)
      PROVE  SwitchesKept'
  <2>1. config'.page = config.page
    BY <1>3 DEF SetHotspotPassword, KeptInv, TypeOK, Config
  <2>2. QED
    BY <1>3, <2>1, SavedSwitches
    DEF SetHotspotPassword, Save, UserActs, startVars
<1>4. ASSUME NEW level \in Levels, SetTargetBrightness(level)
      PROVE  SwitchesKept'
  <2>1. config'.page = config.page
    BY <1>4 DEF SetTargetBrightness, KeptInv, TypeOK, Config
  <2>2. QED
    BY <1>4, <2>1, SavedSwitches
    DEF SetTargetBrightness, UserActs, startVars, pastVars
<1>5. CASE Stop
  BY <1>5 DEF Stop, SwitchesKept, startVars, pastVars
<1>6. CASE TellPassword \/ StartSession \/ EndSession \/ UNCHANGED vars
  <2>1. UNCHANGED <<running, file, outputs, wish, onAtStart>>
    BY <1>6 DEF TellPassword, StartSession, EndSession, startVars, pastVars,
                vars
  <2>2. QED
    BY <2>1 DEF SwitchesKept
<1>7. QED
  BY <1>1, <1>2, <1>3, <1>4, <1>5, <1>6, StartSwitches, SetCases DEF Next

(* Only StartSession begins one, and it offers what the user has on. *)
LEMMA SessionOffers ==
  ASSUME Constants, KeptInv, SwitchesKept, [Next]_vars,
         offered = {}, offered' # {}
  PROVE  offered' \cap Channel = {c \in onAtStart : wish[c] # FALSE}
<1>1. StartSession
  <2>1. ASSUME User PROVE offered' = offered
    BY <2>1, SetCases
    DEF Set, SaveConfiguration, OpenBrightness, CloseBrightness,
        SetHotspotPassword, SetTargetBrightness
  <2>2. ASSUME NEW parts, Boot(parts) PROVE offered' = {}
    BY <2>2 DEF Boot
  <2>3. ASSUME Stop \/ TellPassword \/ EndSession \/ UNCHANGED vars
        PROVE  offered' = {} \/ offered' = offered
    BY <2>3 DEF Stop, TellPassword, EndSession, vars
  <2>4. QED
    BY <2>1, <2>2, <2>3 DEF Next
<1>2. offered' \cap Channel = {c \in Switched \cap outputs : config.page[c]}
  BY <1>1 DEF StartSession, MediaSinks, Switched, Channel
<1>3. outputs \cap Switched = onAtStart
  BY <1>1 DEF StartSession, SwitchesKept
<1>4. QED
  BY <1>1, <1>2, <1>3, SwitchesNow DEF StartSession

-----------------------------------------------------------------------------
(* Both together, as PlatformProofs cites them. *)
SettingsInv == KeptInv /\ SwitchesKept

(* Before the first start nothing is kept, and nothing offered,            *)
LEMMA InitInv ==
  ASSUME Constants, Init
  PROVE  SettingsInv
<1>1. KeptInv
  BY InitTypes DEF Init, KeptInv, Running, WishKept, ToldKept
<1>2. SwitchesKept
  BY DEF Init, SwitchesKept
<1>3. QED
  BY <1>1, <1>2 DEF SettingsInv

(* and every step keeps both.                                              *)
LEMMA StepInv ==
  ASSUME Constants, SettingsInv, [Next]_vars
  PROVE  SettingsInv'
BY KeptStays, StepSwitches DEF SettingsInv

(* A session that begins offers what ChannelsAsSet says.                   *)
LEMMA StepChannels ==
  ASSUME Constants, SettingsInv, [Next]_vars
  PROVE  [offered = {} /\ offered' # {} =>
            offered' \cap Channel = {c \in onAtStart : wish[c] # FALSE}]_vars
BY SessionOffers DEF SettingsInv
=============================================================================
