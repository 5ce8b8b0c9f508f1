---------------------------- MODULE VolumeProofs ----------------------------
(***************************************************************************)
(* Proofs about Volume, for any sinks, sources, cards and limits and any   *)
(* number of changes, inputs and restarts: the types, that the lists show  *)
(* what is there, that the user's choice of devices is kept, and that a    *)
(* card is heard as loud as slider and limits say.                         *)
(*                                                                         *)
(* What is heard is not inductive: between a change and the call that acts *)
(* on it the two disagree.  So the invariants below say which calls are    *)
(* pending in the script of the GUI thread then; and as a volume that is   *)
(* set before its sink is the server's default one would not be heard,     *)
(* they say in which order.                                                *)
(***************************************************************************)
EXTENDS Volume, SequenceTheorems, FiniteSetTheorems, WellFoundedInduction, TLAPS

-----------------------------------------------------------------------------
(* Scripts. *)

Ops ==
  {"list", "register", "best", "confirm", "lookup", "fallback", "keep",
   "default", "volume", "mute", "save"}
Args == Range255 \cup BOOLEAN \cup Device("sink") \cup Device("source")

(* The calls a script is made of. *)
Steps ==
  {t \in [op : Ops, dir : Direction, arg : Args] :
     /\ t.op = "volume" => t.arg \in Range255
     /\ t.op = "mute" => t.arg \in BOOLEAN
     /\ t.op \in {"lookup", "confirm"} => t.arg \in Device(t.dir)}

(* Calls that find the sink, that make it the server's default, that set   *)
(* its volume, and that fill a list.                                       *)
Finds(t) == t.op \in {"best", "confirm", "lookup", "fallback"} /\ t.dir = "sink"
Defaults(t) == t.op = "default"
Sets(t) == t.op = "volume" /\ t.dir = "sink"
Lists(t, d) == t.op = "list" /\ t.dir = d

(* A sink that was found is made the default later, and its volume is set  *)
(* after that.                                                             *)
Ordered(s) ==
  \A i \in 1..Len(s) :
    /\ Finds(s[i]) => \E j \in (i + 1)..Len(s) : Defaults(s[j])
    /\ Sets(s[i]) => \A j \in i..Len(s) : ~Finds(s[j]) /\ ~Defaults(s[j])

Defaulting(s) == \E i \in 1..Len(s) : Defaults(s[i])
Setting(s) == \E i \in 1..Len(s) : Sets(s[i])
Filling(s, d) == \E i \in 1..Len(s) : Lists(s[i], d)

-----------------------------------------------------------------------------
(* The invariants. *)

Scripted == script \in Seq(Steps) /\ Ordered(script)
Counted == \A d \in Direction : posted[d] <= changes

(* The sink that was found is the one whose card is known, and the server  *)
(* leaves its volume to the card.                                          *)
DefaultSet ==
  LET s == resolved["sink"]
  IN (ready /\ ~Defaulting(script) /\ s \in Sinks /\ Card[s] # None)
       => cardDevice = Card[s] /\ soft[s] = Top

(* Once it is the default its volume is set, unless it was just chosen. *)
SetThen == Defaulting(script) => Setting(script) \/ switched

(* Its card plays at the volume that was set last. *)
VolumeSet ==
  LET s == resolved["sink"]
  IN (/\ ready /\ ~Defaulting(script) /\ ~Setting(script) /\ ~switched
      /\ s \in Sinks /\ Card[s] # None)
       => hw[Card[s]] = AlsaVolume(PaValue(volume))

(* A list that is not to be filled again is as the server has it. *)
ListsFilled ==
  \A d \in Direction :
    (ready /\ ~Filling(script, d) /\ posted[d] = 0 /\ ~missed[d])
      => items[d] = Listing(d)

(* The inductive invariant. *)
VolumeInv ==
  /\ TypeOK /\ Scripted /\ Counted
  /\ DefaultSet /\ SetThen /\ VolumeSet /\ ListsFilled /\ PreferenceKept

-----------------------------------------------------------------------------
(* Lemmas about scripts. *)

(* A step of one of the kinds. *)
LEMMA StepTypes ==
  ASSUME NEW d \in Direction
  PROVE  /\ \A op \in Ops \ {"volume", "mute", "lookup", "confirm"} :
              Step(op, d, None) \in Steps
         /\ \A v \in Range255 : Step("volume", d, v) \in Steps
         /\ \A m \in BOOLEAN : Step("mute", d, m) \in Steps
         /\ \A n \in Device(d) : /\ Step("lookup", d, n) \in Steps
                                 /\ Step("confirm", d, n) \in Steps
<1>1. /\ None \in Args /\ Range255 \subseteq Args /\ BOOLEAN \subseteq Args
      /\ Device(d) \subseteq Args
  BY DEF Args, Device, Direction
<1>2. QED
  BY <1>1 DEF Step, Steps, Ops

(* What a step is. *)
LEMMA StepFields ==
  ASSUME NEW t \in Steps
  PROVE  /\ t.op \in Ops /\ t.dir \in Direction
         /\ t.op = "volume" => t.arg \in Range255
         /\ t.op = "mute" => t.arg \in BOOLEAN
         /\ t.op \in {"lookup", "confirm"} => t.arg \in Device(t.dir)
BY DEF Steps

(* When its first call is done the rest of a script is still in order, and *)
(* only that call is not pending any more.                                 *)
LEMMA TailOrdered ==
  ASSUME NEW s \in Seq(Steps), s # <<>>, Ordered(s)
  PROVE  /\ Head(s) \in Steps /\ Head(s) = s[1]
         /\ Tail(s) \in Seq(Steps) /\ Ordered(Tail(s))
         /\ Defaulting(s) => Defaults(Head(s)) \/ Defaulting(Tail(s))
         /\ Defaulting(Tail(s)) => Defaulting(s)
         /\ Setting(s) => Sets(Head(s)) \/ Setting(Tail(s))
         /\ \A d \in Direction :
              Filling(s, d) => Lists(Head(s), d) \/ Filling(Tail(s), d)
<1>1. /\ Head(s) \in Steps /\ Head(s) = s[1] /\ Tail(s) \in Seq(Steps)
      /\ Len(s) \in Nat /\ Len(Tail(s)) = Len(s) - 1
      /\ \A i \in 1..Len(Tail(s)) : Tail(s)[i] = s[i + 1]
  BY HeadTailProperties, LenProperties
<1>2. \A i \in 2..Len(s) : i - 1 \in 1..Len(Tail(s)) /\ s[i] = Tail(s)[i - 1]
  BY <1>1
<1>3. Ordered(Tail(s))
  <2>1. SUFFICES ASSUME NEW i \in 1..Len(Tail(s))
                 PROVE  /\ Finds(Tail(s)[i]) =>
                             \E j \in (i + 1)..Len(Tail(s)) : Defaults(Tail(s)[j])
                        /\ Sets(Tail(s)[i]) => \A j \in i..Len(Tail(s)) :
                             ~Finds(Tail(s)[j]) /\ ~Defaults(Tail(s)[j])
    BY DEF Ordered
  <2>2. i + 1 \in 1..Len(s) /\ Tail(s)[i] = s[i + 1]
    BY <1>1
  <2>3. ASSUME Finds(s[i + 1])
        PROVE  \E j \in (i + 1)..Len(Tail(s)) : Defaults(Tail(s)[j])
    <3>1. PICK j \in (i + 1 + 1)..Len(s) : Defaults(s[j])
      BY <2>2, <2>3 DEF Ordered
    <3>2. j - 1 \in (i + 1)..Len(Tail(s)) /\ Tail(s)[j - 1] = s[j]
      BY <1>1, <1>2, <3>1
    <3>3. QED
      BY <3>1, <3>2
  <2>4. ASSUME Sets(s[i + 1]), NEW j \in i..Len(Tail(s))
        PROVE  ~Finds(Tail(s)[j]) /\ ~Defaults(Tail(s)[j])
    <3>1. j + 1 \in (i + 1)..Len(s) /\ Tail(s)[j] = s[j + 1]
      BY <1>1, <2>4
    <3>2. QED
      BY <2>2, <2>4, <3>1 DEF Ordered
  <2>5. QED
    BY <2>2, <2>3, <2>4
<1>4. \A i \in 1..Len(s) : i = 1 \/ i \in 2..Len(s)
  BY <1>1
<1>5. \A i \in 1..Len(Tail(s)) : i + 1 \in 1..Len(s) /\ Tail(s)[i] = s[i + 1]
  BY <1>1
<1>6. QED
  BY <1>1, <1>2, <1>3, <1>4, <1>5, Zenon DEF Defaulting, Setting, Filling

(* Nor does it disturb the order that another call of the same use is made *)
(* in the place of the first.                                              *)
LEMMA ReplacedOrdered ==
  ASSUME NEW s \in Seq(Steps), s # <<>>, Ordered(s), NEW t \in Steps,
         Finds(t) <=> Finds(Head(s)), ~Sets(t), ~Defaults(t),
         ~Defaults(Head(s)), ~Sets(Head(s)),
         \A d \in Direction : ~Lists(Head(s), d)
  PROVE  /\ <<t>> \o Tail(s) \in Seq(Steps) /\ Ordered(<<t>> \o Tail(s))
         /\ Defaulting(s) <=> Defaulting(<<t>> \o Tail(s))
         /\ Setting(s) => Setting(<<t>> \o Tail(s))
         /\ \A d \in Direction : Filling(s, d) => Filling(<<t>> \o Tail(s), d)
<1> DEFINE r == <<t>> \o Tail(s)
<1>1. /\ Head(s) = s[1] /\ Tail(s) \in Seq(Steps)
      /\ Len(s) \in Nat /\ Len(Tail(s)) = Len(s) - 1
      /\ \A i \in 1..Len(Tail(s)) : Tail(s)[i] = s[i + 1]
  BY HeadTailProperties, LenProperties
<1>2. /\ <<t>> \in Seq(Steps) /\ Len(<<t>>) = 1 /\ <<t>>[1] = t
  OBVIOUS
<1>3. /\ r \in Seq(Steps) /\ Len(r) = 1 + Len(Tail(s))
      /\ \A i \in 1..(1 + Len(Tail(s))) :
           r[i] = IF i <= 1 THEN t ELSE Tail(s)[i - 1]
  BY <1>1, <1>2, ConcatProperties
<1>4. /\ Len(r) = Len(s) /\ 1 \in 1..Len(s) /\ r[1] = t
      /\ \A i \in 2..Len(s) : r[i] = s[i]
  <2>1. Len(s) >= 1
    BY <1>1, EmptySeq
  <2>2. ASSUME NEW i \in 2..Len(s) PROVE r[i] = s[i]
    <3>1. r[i] = Tail(s)[i - 1]
      BY <1>1, <1>3, <2>2
    <3>2. i - 1 \in 1..Len(Tail(s)) /\ i - 1 + 1 = i
      BY <1>1, <2>2
    <3>3. QED
      BY <1>1, <3>1, <3>2
  <2>3. QED
    BY <1>1, <1>3, <2>1, <2>2
<1> HIDE DEF r
<1>5. \A i \in 1..Len(s) : i = 1 \/ i \in 2..Len(s)
  BY <1>1
<1>6. Ordered(r)
  <2>1. SUFFICES ASSUME NEW i \in 1..Len(s)
                 PROVE  /\ Finds(r[i]) => \E j \in (i + 1)..Len(s) : Defaults(r[j])
                        /\ Sets(r[i]) => \A j \in i..Len(s) :
                                           ~Finds(r[j]) /\ ~Defaults(r[j])
    BY <1>4 DEF Ordered
  <2>2. Finds(r[i]) <=> Finds(s[i])
    BY <1>1, <1>4, <1>5
  <2>3. ASSUME Finds(s[i]) PROVE \E j \in (i + 1)..Len(s) : Defaults(r[j])
    <3>1. PICK j \in (i + 1)..Len(s) : Defaults(s[j])
      BY <2>3 DEF Ordered
    <3>2. j \in 2..Len(s)
      BY <1>1, <3>1
    <3>3. QED
      BY <1>4, <3>1, <3>2
  <2>4. ASSUME Sets(r[i]), NEW j \in i..Len(s) PROVE ~Finds(r[j]) /\ ~Defaults(r[j])
    <3>1. i \in 2..Len(s) /\ j \in 2..Len(s)
      BY <1>1, <1>4, <1>5, <2>4
    <3>2. QED
      BY <1>4, <2>4, <3>1 DEF Ordered
  <2>5. QED
    BY <2>2, <2>3, <2>4
<1>7. QED
  BY <1>1, <1>3, <1>4, <1>5, <1>6, Zenon DEF r, Defaulting, Setting, Filling

(* Finding a device is of one of two kinds. *)
LEMMA ResolveTypes ==
  ASSUME NEW d \in Direction, NEW n \in Device(d)
  PROVE  /\ Resolve(d, n) \in Steps
         /\ Resolve(d, n).op \in {"best", "lookup"} /\ Resolve(d, n).dir = d
<1>1. Step("best", d, None) \in Steps /\ Step("lookup", d, n) \in Steps
  BY StepTypes DEF Ops
<1>2. QED
  BY <1>1 DEF Resolve, Step

(* At a start both lists are to be filled, and the sink to be found, made  *)
(* the default and set, in that order.                                     *)
LEMMA StartupOrdered ==
  ASSUME NEW config \in Config
  PROVE  /\ Startup(config) \in Seq(Steps) /\ Ordered(Startup(config))
         /\ Defaulting(Startup(config)) /\ Setting(Startup(config))
         /\ \A d \in Direction : Filling(Startup(config), d)
<1> DEFINE s == Startup(config)
           sink == Resolve("sink", config.stored["sink"])
           source == Resolve("source", config.stored["source"])
<1>1. "sink" \in Direction /\ "source" \in Direction
  BY DEF Direction
<1>2. /\ config.stored["sink"] \in Device("sink")
      /\ config.stored["source"] \in Device("source")
      /\ config.volume \in Range255 /\ CaptureVolume \in Range255
  BY <1>1 DEF Config, Devices, CaptureVolume, Range255, Top
<1>3. /\ sink \in Steps /\ sink.op \in {"best", "lookup"} /\ sink.dir = "sink"
      /\ source \in Steps /\ source.op \in {"best", "lookup"}
      /\ source.dir = "source"
  BY <1>1, <1>2, ResolveTypes
<1>4. /\ \A d \in Direction : /\ Step("list", d, None) \in Steps
                              /\ Step("register", d, None) \in Steps
                              /\ Step("keep", d, None) \in Steps
      /\ Step("default", "sink", None) \in Steps
      /\ Step("save", "source", None) \in Steps
      /\ Step("volume", "sink", config.volume) \in Steps
      /\ Step("volume", "source", CaptureVolume) \in Steps
  BY <1>1, <1>2, StepTypes DEF Ops
<1> HIDE DEF sink, source
<1>5. s = <<Step("list", "sink", None), Step("register", "sink", None),
            Step("list", "source", None), Step("register", "source", None),
            sink, Step("keep", "sink", None),
            Step("default", "sink", None), Step("volume", "sink", config.volume),
            source, Step("keep", "source", None),
            Step("volume", "source", CaptureVolume),
            Step("save", "source", None)>>
  BY DEF Startup, sink, source
<1> HIDE DEF s
<1>6. s \in Seq(Steps) /\ Len(s) = 12
  BY <1>1, <1>3, <1>4, <1>5
<1>7. /\ s[1] = Step("list", "sink", None) /\ s[2] = Step("register", "sink", None)
      /\ s[3] = Step("list", "source", None)
      /\ s[4] = Step("register", "source", None)
      /\ s[5] = sink /\ s[6] = Step("keep", "sink", None)
      /\ s[7] = Step("default", "sink", None)
      /\ s[8] = Step("volume", "sink", config.volume)
      /\ s[9] = source /\ s[10] = Step("keep", "source", None)
      /\ s[11] = Step("volume", "source", CaptureVolume)
      /\ s[12] = Step("save", "source", None)
  BY <1>5
<1>8. /\ Lists(s[1], "sink") /\ Lists(s[3], "source")
      /\ Defaults(s[7]) /\ Sets(s[8])
      /\ \A i \in 1..12 : Finds(s[i]) => i = 5
      /\ \A i \in 1..12 : Sets(s[i]) => i = 8
      /\ \A i \in 1..12 : Defaults(s[i]) => i = 7
  <2>1. Lists(s[1], "sink") /\ Lists(s[3], "source")
    BY <1>7 DEF Lists, Step
  <2>2. Defaults(s[7]) /\ Sets(s[8])
    BY <1>7 DEF Defaults, Sets, Step
  <2>3. /\ ~Finds(s[1]) /\ ~Finds(s[2]) /\ ~Finds(s[3]) /\ ~Finds(s[4])
        /\ ~Finds(s[6]) /\ ~Finds(s[7]) /\ ~Finds(s[8]) /\ ~Finds(s[9])
        /\ ~Finds(s[10]) /\ ~Finds(s[11]) /\ ~Finds(s[12])
    BY <1>3, <1>7 DEF Finds, Step
  <2>4. /\ ~Sets(s[1]) /\ ~Sets(s[2]) /\ ~Sets(s[3]) /\ ~Sets(s[4])
        /\ ~Sets(s[5]) /\ ~Sets(s[6]) /\ ~Sets(s[7]) /\ ~Sets(s[9])
        /\ ~Sets(s[10]) /\ ~Sets(s[11]) /\ ~Sets(s[12])
    BY <1>3, <1>7 DEF Sets, Step
  <2>5. /\ ~Defaults(s[1]) /\ ~Defaults(s[2]) /\ ~Defaults(s[3])
        /\ ~Defaults(s[4]) /\ ~Defaults(s[5]) /\ ~Defaults(s[6])
        /\ ~Defaults(s[8]) /\ ~Defaults(s[9]) /\ ~Defaults(s[10])
        /\ ~Defaults(s[11]) /\ ~Defaults(s[12])
    BY <1>3, <1>7 DEF Defaults, Step
  <2>6. \A i \in 1..12 : \/ i = 1 \/ i = 2 \/ i = 3 \/ i = 4 \/ i = 5 \/ i = 6
                         \/ i = 7 \/ i = 8 \/ i = 9 \/ i = 10 \/ i = 11 \/ i = 12
    OBVIOUS
  <2>7. QED
    BY <2>1, <2>2, <2>3, <2>4, <2>5, <2>6, Zenon
<1>9. Ordered(s)
  BY <1>6, <1>8 DEF Ordered
<1>10. Defaulting(s) /\ Setting(s)
  BY <1>6, <1>8 DEF Defaulting, Setting
<1>11. \A d \in Direction : Filling(s, d)
  BY <1>6, <1>8 DEF Filling, Direction
<1>12. QED
  BY <1>6, <1>9, <1>10, <1>11 DEF s

(* A script of one call. *)
LEMMA OneOrdered ==
  ASSUME NEW t \in Steps, ~Finds(t)
  PROVE  /\ <<t>> \in Seq(Steps) /\ Ordered(<<t>>)
         /\ Setting(<<t>>) <=> Sets(t)
         /\ Defaulting(<<t>>) <=> Defaults(t)
         /\ \A d \in Direction : Filling(<<t>>, d) <=> Lists(t, d)
<1>1. <<t>> \in Seq(Steps) /\ Len(<<t>>) = 1 /\ <<t>>[1] = t
  OBVIOUS
<1>2. \A i \in 1..1 : i = 1
  OBVIOUS
<1>3. Sets(t) => ~Defaults(t)
  BY DEF Sets, Defaults
<1>4. QED
  BY <1>1, <1>2, <1>3 DEF Ordered, Setting, Defaulting, Filling

(* The scripts of a choice, of a sink and of a source. *)
LEMMA ChoiceOrdered ==
  ASSUME NEW t \in Steps, t.op \in {"best", "lookup"}
  PROVE  /\ t.dir = "sink" =>
              LET s == <<t, Step("default", "sink", None)>>
              IN s \in Seq(Steps) /\ Ordered(s) /\ Defaulting(s)
         /\ t.dir = "source" =>
              <<t>> \in Seq(Steps) /\ Ordered(<<t>>) /\ ~Defaulting(<<t>>)
<1>1. ASSUME t.dir = "sink"
      PROVE  LET s == <<t, Step("default", "sink", None)>>
             IN s \in Seq(Steps) /\ Ordered(s) /\ Defaulting(s)
  <2> DEFINE s == <<t, Step("default", "sink", None)>>
  <2>1. Step("default", "sink", None) \in Steps
    BY StepTypes DEF Ops, Direction
  <2>2. /\ s \in Seq(Steps) /\ Len(s) = 2 /\ s[1] = t
        /\ s[2] = Step("default", "sink", None)
    BY <2>1
  <2>3. Defaults(s[2]) /\ ~Sets(s[1]) /\ ~Sets(s[2]) /\ ~Finds(s[2])
    BY <2>2 DEF Defaults, Sets, Finds, Step
  <2>4. \A i \in 1..2 : i = 1 \/ i = 2
    OBVIOUS
  <2>5. 2 \in 1..2 /\ 2 \in (1 + 1)..2
    OBVIOUS
  <2> HIDE DEF s
  <2>6. Ordered(s) /\ Defaulting(s)
    BY <2>2, <2>3, <2>4, <2>5, Zenon DEF Ordered, Defaulting
  <2>7. QED
    BY <2>2, <2>6 DEF s
<1>2. ASSUME t.dir = "source"
      PROVE  <<t>> \in Seq(Steps) /\ Ordered(<<t>>) /\ ~Defaulting(<<t>>)
  <2>1. ~Finds(t) /\ ~Defaults(t)
    BY <1>2 DEF Finds, Defaults
  <2>2. QED
    BY <2>1, OneOrdered
<1>3. QED
  BY <1>1, <1>2

(* The settings page fills both lists. *)
LEMMA BothListsOrdered ==
  LET s == <<Step("list", "sink", None), Step("list", "source", None)>>
  IN s \in Seq(Steps) /\ Ordered(s) /\ ~Defaulting(s)
<1> DEFINE s == <<Step("list", "sink", None), Step("list", "source", None)>>
<1>1. Step("list", "sink", None) \in Steps /\ Step("list", "source", None) \in Steps
  BY StepTypes DEF Ops, Direction
<1>2. s \in Seq(Steps) /\ Len(s) = 2
  BY <1>1
<1>3. \A i \in 1..2 : ~Finds(s[i]) /\ ~Sets(s[i]) /\ ~Defaults(s[i])
  BY DEF Finds, Sets, Defaults, Step
<1>4. QED
  BY <1>2, <1>3 DEF Ordered, Defaulting

(* No script at all. *)
LEMMA NothingOrdered ==
  /\ <<>> \in Seq(Steps) /\ Ordered(<<>>) /\ ~Defaulting(<<>>) /\ ~Setting(<<>>)
  /\ \A d : ~Filling(<<>>, d)
BY DEF Ordered, Defaulting, Setting, Filling

-----------------------------------------------------------------------------
(* Lemmas about conversions. *)

(* The element of the mixer whose range is the widest. *)
LEMMA VolumeElementIs ==
  VolumeElement = [lo |-> 0, hi |-> 207, volume |-> TRUE, switch |-> TRUE]
<1> DEFINE analogue == [lo |-> 0, hi |-> 1, volume |-> TRUE, switch |-> FALSE]
           digital == [lo |-> 0, hi |-> 207, volume |-> TRUE, switch |-> TRUE]
           auto == [lo |-> 0, hi |-> 0, volume |-> FALSE, switch |-> TRUE]
           Widest(e) == e.volume /\ \A f \in Range(Mixer) :
                                      f.volume => Width(f) <= Width(e)
<1>1. Mixer = <<analogue, digital, auto>>
  BY DEF Mixer
<1>2. DOMAIN Mixer = 1..3 /\ Mixer[1] = analogue /\ Mixer[2] = digital
        /\ Mixer[3] = auto
  BY <1>1
<1>3. \A i \in 1..3 : i = 1 \/ i = 2 \/ i = 3
  OBVIOUS
<1>4. /\ Width(analogue) = 1 /\ Width(digital) = 207 /\ analogue.volume
      /\ digital.volume /\ ~auto.volume
  BY DEF Width
<1> HIDE DEF analogue, digital, auto
<1>5. Range(Mixer) = {analogue, digital, auto}
  BY <1>2, <1>3 DEF Range
<1>6. Widest(digital) /\ ~Widest(analogue) /\ ~Widest(auto)
  BY <1>4, <1>5
<1> HIDE DEF Widest
<1>7. VolumeElement = CHOOSE e \in Range(Mixer) : Widest(e)
  BY DEF VolumeElement, Widest
<1>8. VolumeElement \in Range(Mixer) /\ Widest(VolumeElement)
  BY <1>5, <1>6, <1>7
<1>9. QED
  BY <1>5, <1>6, <1>8 DEF digital

(* So far up the range is so far up the values. *)
LEMMA ScaledType ==
  ASSUME NEW a \in Int, 0 <= a, a <= 10350
  PROVE  (a * 207 + 10350 - 1) \div 10350 \in 0..207
<1> DEFINE x == a * 207 + 10349
<1>1. x \in Int /\ 0 <= x /\ x < 10350 * 208
  BY SMT
<1>2. \A y \in Int : 0 <= y /\ y < 10350 * 208 => y \div 10350 \in 0..207
  BY SMT
<1>3. a * 207 + 10350 - 1 = x
  BY SMT
<1>4. QED
  BY <1>1, <1>2, <1>3, SMT

(* A value of the card's element is one of its range. *)
LEMMA AlsaVolumeType ==
  ASSUME NEW level \in Range255
  PROVE  AlsaVolume(level) \in Range255
<1>1. level \in 0..255
  BY SMT DEF Range255, Top
<1>2. VolumeElement.lo = 0 /\ Width(VolumeElement) = 207
  BY VolumeElementIs, SMT DEF Width
<1>3. DbRange[1] = -10350 /\ DbRange[2] = 0
  BY SMT DEF DbRange
<1>4. CASE level = 0
  BY <1>2, <1>4, SMT DEF AlsaVolume, Range255, Top
<1>5. CASE level # 0
  <2> DEFINE above == -6000 + (2 * 6000 * (level - 1) + 254) \div 508 + 10350
  <2>1. above \in Int /\ 0 <= above /\ above <= 10350
    BY <1>1, <1>5, SMT
  <2>2. AlsaVolume(level) = (above * 207 + 10350 - 1) \div 10350
    BY <1>1, <1>2, <1>3, <1>5, SMT DEF AlsaVolume
  <2> HIDE DEF above
  <2>3. (above * 207 + 10350 - 1) \div 10350 \in 0..207
    BY <2>1, ScaledType, SMT
  <2>4. QED
    BY <2>2, <2>3, SMT DEF Range255, Top
<1>6. QED
  BY <1>4, <1>5, SMT

(* So is a volume between the limits. *)
LEMMA PaValueType ==
  ASSUME limits \in Range255 \X Range255, NEW slider \in Range255
  PROVE  PaValue(slider) \in Range255
<1>1. limits[1] \in Int /\ limits[2] \in Int /\ slider \in Int
  BY DEF Range255, Top
<1>2. (limits[2] - limits[1]) * slider \in Int
  BY <1>1
<1>3. limits[1] + ((limits[2] - limits[1]) * slider) \div Top \in Int
  BY <1>1, <1>2 DEF Top
<1>4. \A v \in Int : Clamp(v, 0, Top) \in Range255
  BY DEF Clamp, Range255, Top
<1>5. QED
  BY <1>3, <1>4 DEF PaValue

(* A set in some order is a sequence over it. *)
LEMMA SetToSeqType ==
  ASSUME NEW S, IsFiniteSet(S)
  PROVE  SetToSeq(S) \in Seq(S)
<1> DEFINE n == Cardinality(S)
           f == SetToSeq(S)
<1>1. n \in Nat /\ ExistsBijection(1..n, S)
  BY FS_CardinalityType
<1>2. PICK g \in [1..n -> S] : IsInjective(g)
  BY <1>1 DEF ExistsBijection, Bijection, Injection
<1>3. f \in [1..n -> S]
  BY <1>2 DEF SetToSeq
<1>4. QED
  BY <1>1, <1>3, SeqDef

(* What is left of a sequence without one of its elements. *)
LEMMA RemoveAtType ==
  ASSUME NEW S, NEW s \in Seq(S), NEW i \in DOMAIN s
  PROVE  RemoveAt(s, i) \in Seq(S)
<1>1. i \in 1..Len(s) /\ Len(s) \in Nat /\ DOMAIN s = 1..Len(s)
  BY LenProperties
<1>2. SubSeq(s, 1, i - 1) \in Seq(S)
  <2>1. \A j \in 1..(i - 1) : s[j] \in S
    BY <1>1, ElementOfSeq
  <2>2. QED
    BY <1>1, <2>1, SubSeqProperties
<1>3. SubSeq(s, i + 1, Len(s)) \in Seq(S)
  <2>1. \A j \in (i + 1)..Len(s) : s[j] \in S
    BY <1>1, ElementOfSeq
  <2>2. QED
    BY <1>1, <2>1, SubSeqProperties
<1>4. QED
  BY <1>2, <1>3, ConcatProperties DEF RemoveAt

(* Elements of a sequence over a set are in the set. *)
LEMMA RangeWithin ==
  ASSUME NEW S, NEW s \in Seq(S)
  PROVE  Range(s) \subseteq S
BY LenProperties, ElementOfSeq DEF Range

(* What is there by a name that may be a sink's is a sink, and likewise.   *)
LEMMA ThereTypes ==
  ASSUME Constants, TypeOK, NEW d \in Direction, NEW n \in Device(d), There(n)
  PROVE  n \in Names[d] /\ n \in Range(present[d])
<1>1. /\ Names["sink"] = Sinks /\ Names["source"] = Sources
      /\ "sink" \in Direction /\ "source" \in Direction
      /\ d = "sink" \/ d = "source"
  BY DEF Names, Direction
<1>2. Range(present["sink"]) \subseteq Sinks /\ Range(present["source"]) \subseteq Sources
  BY <1>1 DEF TypeOK
<1>3. n \in Range(present["sink"]) \cup Range(present["source"])
  BY DEF There
<1>4. n \notin {None, NoDevice} /\ Sinks \cap Sources = {}
  BY <1>2, <1>3 DEF Constants
<1>5. QED
  BY <1>1, <1>2, <1>3, <1>4 DEF Device

(* What the server offers by default can be found. *)
LEMMA ServerDefaultType ==
  ASSUME Constants, TypeOK, NEW d \in Direction
  PROVE  ServerDefault(d) \in Device(d)
<1>1. CASE ~ready \/ present[d] = <<>>
  BY <1>1 DEF ServerDefault, Device
<1>2. CASE ready /\ present[d] # <<>>
  <2>1. present[d] \in Seq(Sinks \cup Sources) /\ Range(present[d]) \subseteq Names[d]
    BY DEF TypeOK
  <2>2. Head(present[d]) \in Range(present[d])
    <3>1. Head(present[d]) = present[d][1] /\ 1 \in DOMAIN present[d]
      BY <1>2, <2>1, LenProperties, EmptySeq
    <3>2. QED
      BY <3>1 DEF Range
  <2>3. Head(present[d]) \in Device(d)
    BY <2>1, <2>2 DEF Device
  <2>4. preferred \in Device("sink")
    BY DEF TypeOK, Device, Names, Direction
  <2>5. QED
    BY <1>2, <2>3, <2>4, Zenon DEF ServerDefault
<1>3. QED
  BY <1>1, <1>2 DEF TypeOK

-----------------------------------------------------------------------------
(* Types, in four groups of variables. *)

PaTypes ==
  /\ ready \in BOOLEAN
  /\ present \in [Direction -> Seq(Sinks \cup Sources)]
  /\ \A d \in Direction : Range(present[d]) \subseteq Names[d]
  /\ preferred \in Sinks \cup {None}
  /\ soft \in [Sinks \cup Sources -> Range255] /\ hw \in [Cards -> Range255]
  /\ silent \subseteq Sinks \cup Cards
HandlerTypes ==
  /\ cardDevice \in Cards \cup {None} /\ resolved \in Devices
  /\ volume \in Range255 /\ muted \in BOOLEAN
  /\ limits \in Range255 \X Range255 /\ stored \in Devices
ListTypes ==
  /\ items \in [Direction -> SUBSET (Sinks \cup Sources)]
  /\ \A d \in Direction : items[d] \subseteq Names[d]
  /\ registered \in [Direction -> BOOLEAN] /\ missed \in [Direction -> BOOLEAN]
  /\ posted \in [Direction -> 0..MaxChanges]
RestTypes ==
  /\ stuck \in BOOLEAN /\ file \in Config
  /\ page \in {None} \cup (Range255 \X Range255) /\ modified \in BOOLEAN
  /\ chosen \in Devices /\ switched \in BOOLEAN
  /\ changes \in 0..MaxChanges /\ inputs \in 0..MaxInputs
  /\ restarts \in 0..MaxRestarts

LEMMA TypeGroups ==
  /\ TypeOK <=> PaTypes /\ HandlerTypes /\ ListTypes /\ RestTypes
  /\ TypeOK' <=> PaTypes' /\ HandlerTypes' /\ ListTypes' /\ RestTypes'
<1>1. TypeOK <=> PaTypes /\ HandlerTypes /\ ListTypes /\ RestTypes
  BY Zenon DEF TypeOK, PaTypes, HandlerTypes, ListTypes, RestTypes
<1>2. TypeOK' <=> PaTypes' /\ HandlerTypes' /\ ListTypes' /\ RestTypes'
  BY Zenon DEF TypeOK, PaTypes, HandlerTypes, ListTypes, RestTypes
<1>3. QED
  BY <1>1, <1>2

(* A group that does not move keeps its types. *)
LEMMA UnmovedTypes ==
  ASSUME TypeOK
  PROVE  /\ UNCHANGED paVars => PaTypes'
         /\ UNCHANGED handlerVars => HandlerTypes'
         /\ UNCHANGED listVars => ListTypes'
         /\ UNCHANGED <<stuck, file, pageVars, chosen, switched, countVars>>
              => RestTypes'
<1>1. PaTypes /\ HandlerTypes /\ ListTypes /\ RestTypes
  BY TypeGroups
<1>2. UNCHANGED paVars => PaTypes'
  BY <1>1 DEF PaTypes, paVars
<1>3. UNCHANGED handlerVars => HandlerTypes'
  BY <1>1 DEF HandlerTypes, handlerVars
<1>4. UNCHANGED listVars => ListTypes'
  BY <1>1 DEF ListTypes, listVars
<1>5. UNCHANGED <<stuck, file, pageVars, chosen, switched, countVars>>
        => RestTypes'
  BY <1>1 DEF RestTypes, pageVars, countVars
<1>6. QED
  BY <1>2, <1>3, <1>4, <1>5

(* The first call of a script. *)
LEMMA HeadTypes ==
  ASSUME Scripted, script # <<>>
  PROVE  /\ Head(script) \in Steps /\ Dir \in Direction /\ Head(script).op \in Ops
         /\ Head(script).op = "volume" => Arg \in Range255
         /\ Head(script).op = "mute" => Arg \in BOOLEAN
         /\ Head(script).op \in {"lookup", "confirm"} => Arg \in Device(Dir)
<1>1. Head(script) \in Steps
  BY HeadTailProperties DEF Scripted
<1>2. QED
  BY <1>1, StepFields DEF Dir, Arg

(* A device is replaced by another one. *)
LEMMA DevicesExcept ==
  ASSUME NEW f \in Devices, NEW d \in Direction, NEW n \in Device(d)
  PROVE  [f EXCEPT ![d] = n] \in Devices
BY DEF Devices, Device, Direction, Names

LEMMA ListCallsTypes ==
  ASSUME Constants, TypeOK, Scripted, GetDevices \/ AddChangedCallback
  PROVE  TypeOK'
<1>1. Dir \in Direction
  BY HeadTypes DEF GetDevices, AddChangedCallback, Is
<1>2. Listing(Dir) \subseteq Names[Dir] /\ Names[Dir] \subseteq Sinks \cup Sources
  BY <1>1 DEF Listing, TypeOK, Names, Direction
<1>3. ListTypes
  BY TypeGroups
<1>4. ListTypes'
  <2>1. CASE GetDevices
    <3>1. /\ items' = [items EXCEPT ![Dir] = Listing(Dir)]
          /\ missed' = missed \/ missed' = [missed EXCEPT ![Dir] = FALSE]
          /\ UNCHANGED <<registered, posted>>
      BY <2>1, Zenon DEF GetDevices
    <3>2. missed' \in [Direction -> BOOLEAN]
      BY <1>1, <1>3, <3>1 DEF ListTypes
    <3>3. /\ items' \in [Direction -> SUBSET (Sinks \cup Sources)]
          /\ \A d \in Direction : items'[d] \subseteq Names[d]
      BY <1>1, <1>2, <1>3, <3>1 DEF ListTypes
    <3>4. QED
      BY <1>3, <3>1, <3>2, <3>3, Zenon DEF ListTypes
  <2>2. CASE AddChangedCallback
    <3>1. /\ registered' = [registered EXCEPT ![Dir] = TRUE]
          /\ UNCHANGED <<items, posted, missed>>
      BY <2>2, Zenon DEF AddChangedCallback
    <3>2. registered' \in [Direction -> BOOLEAN]
      BY <1>1, <1>3, <3>1 DEF ListTypes
    <3>3. QED
      BY <1>3, <3>1, <3>2, Zenon DEF ListTypes
  <2>3. QED
    BY <2>1, <2>2
<1>5. UNCHANGED <<paVars, handlerVars>> 
        /\ UNCHANGED <<stuck, file, pageVars, chosen, switched, countVars>>
  BY Zenon DEF GetDevices, AddChangedCallback
<1>6. QED
  BY <1>4, <1>5, TypeGroups, UnmovedTypes

(* The calls that find a device. *)
LEMMA FindingTypes ==
  ASSUME Constants, TypeOK, Scripted,
         BestAvailable \/ Confirm \/ Lookup \/ Fallback
  PROVE  TypeOK' /\ \A d \in Direction : d # Dir => resolved'[d] = resolved[d]
<1>1. Dir \in Direction /\ (~Is("best") /\ ~Is("fallback") => Arg \in Device(Dir))
  BY HeadTypes DEF BestAvailable, Confirm, Lookup, Fallback, Is
<1>2. ServerDefault(Dir) \in Device(Dir) /\ None \in Device(Dir)
  BY <1>1, ServerDefaultType DEF Device
<1>3. \/ resolved' = resolved
      \/ \E n \in Device(Dir) : resolved' = [resolved EXCEPT ![Dir] = n]
  <2>1. CASE BestAvailable
    BY <1>2, <2>1, Zenon DEF BestAvailable
  <2>2. CASE Confirm
    <3>1. Arg \in Device(Dir)
      BY <1>1, <2>2 DEF Confirm, Is
    <3>2. QED
      BY <1>2, <2>2, <3>1 DEF Confirm
  <2>3. CASE Lookup
    <3>1. Arg \in Device(Dir)
      BY <1>1, <2>3 DEF Lookup, Is
    <3>2. QED
      BY <2>3, <3>1, Zenon DEF Lookup
  <2>4. CASE Fallback
    BY <1>2, <2>4, Zenon DEF Fallback
  <2>5. QED
    BY <2>1, <2>2, <2>3, <2>4
<1>4. resolved' \in Devices /\ \A d \in Direction : d # Dir => resolved'[d] = resolved[d]
  <2>1. resolved \in Devices
    BY Zenon DEF TypeOK
  <2>2. resolved' \in Devices
    BY <1>1, <1>3, <2>1, DevicesExcept, Zenon
  <2>3. DOMAIN resolved = Direction
    BY <2>1 DEF Devices
  <2>4. QED
    BY <1>1, <1>3, <2>2, <2>3, SMT
<1>5. /\ UNCHANGED <<paVars, cardDevice, volume, muted, limits, stored, listVars>>
      /\ UNCHANGED <<stuck, file, pageVars, chosen, switched, countVars>>
  BY Zenon DEF BestAvailable, Confirm, Lookup, Fallback
<1>6. HandlerTypes'
  BY <1>4, <1>5, TypeGroups, Zenon DEF HandlerTypes
<1>7. QED
  BY <1>4, <1>5, <1>6, TypeGroups, UnmovedTypes

LEMMA KeepTypes ==
  ASSUME Constants, TypeOK, Scripted, Keep
  PROVE  TypeOK'
<1>1. Dir \in Direction
  BY HeadTypes DEF Keep, Is
<1>2. stored \in Devices /\ resolved[Dir] \in Device(Dir)
  BY <1>1 DEF TypeOK, Devices
<1>3. stored' = stored \/ stored' = [stored EXCEPT ![Dir] = resolved[Dir]]
  BY Zenon DEF Keep
<1>4. stored' \in Devices
  BY <1>1, <1>2, <1>3, DevicesExcept
<1>5. /\ UNCHANGED <<paVars, cardDevice, resolved, volume, muted, limits, listVars>>
      /\ UNCHANGED <<stuck, file, pageVars, chosen, switched, countVars>>
  BY Zenon DEF Keep
<1>6. HandlerTypes'
  BY <1>4, <1>5, TypeGroups, Zenon DEF HandlerTypes
<1>7. QED
  BY <1>5, <1>6, TypeGroups, UnmovedTypes

(* What is saved is a configuration. *)
LEMMA SavedType ==
  ASSUME NEW v \in Range255, NEW l \in Range255 \X Range255, NEW s \in Devices,
         Save(v, l, s)
  PROVE  /\ file' \in Config
         /\ file'.volume = v /\ file'.limits = l /\ file'.stored = s
BY DEF Save, Config

LEMMA SaveFoundTypes ==
  ASSUME Constants, TypeOK, SaveFound
  PROVE  TypeOK'
<1>1. HandlerTypes /\ RestTypes
  BY TypeGroups
<1>2. file' \in Config
  BY <1>1, SavedType DEF SaveFound, HandlerTypes, RestTypes
<1>3. UNCHANGED <<paVars, handlerVars, listVars, pageVars, stuck, chosen,
                  switched, countVars>>
  BY Zenon DEF SaveFound
<1>4. RestTypes'
  BY <1>1, <1>2, <1>3, Zenon DEF RestTypes, pageVars, countVars
<1>5. QED
  BY <1>3, <1>4, TypeGroups, UnmovedTypes

(* The card of a sink is one of the cards. *)
LEMMA CardTypes ==
  ASSUME NEW s \in Sinks
  PROVE  Card[s] = None \/ Card[s] \in Cards
BY DEF Cards

LEMMA SinkTypes ==
  ASSUME Constants, TypeOK
  PROVE  /\ "sink" \in Direction /\ "source" \in Direction
         /\ resolved["sink"] \in Device("sink")
         /\ resolved["source"] \in Device("source")
         /\ There(resolved["sink"]) =>
              /\ resolved["sink"] \in Sinks
              /\ resolved["sink"] \in Range(present["sink"])
         /\ There(resolved["source"]) => resolved["source"] \in Sources
<1>1. "sink" \in Direction /\ "source" \in Direction
  BY DEF Direction
<1>2. /\ resolved["sink"] \in Device("sink")
      /\ resolved["source"] \in Device("source")
  BY <1>1 DEF TypeOK, Devices
<1>3. Names["sink"] = Sinks /\ Names["source"] = Sources
  BY DEF Names, Direction
<1>4. QED
  BY <1>1, <1>2, <1>3, ThereTypes

LEMMA SetDefaultSinkTypes ==
  ASSUME Constants, TypeOK, SetDefaultSink
  PROVE  TypeOK'
<1> DEFINE s == resolved["sink"]
<1>1. /\ UNCHANGED <<ready, present, hw, silent, resolved, volume, muted, limits,
                     stored, listVars>>
      /\ UNCHANGED <<file, pageVars, chosen, switched, countVars>>
  BY Zenon DEF SetDefaultSink
<1>2. \/ UNCHANGED <<preferred, soft, cardDevice, stuck>>
      \/ stuck' = TRUE /\ UNCHANGED <<preferred, soft, cardDevice>>
      \/ /\ There(s) /\ preferred' = s /\ soft' = [soft EXCEPT ![s] = Top]
         /\ cardDevice' = cardDevice \/ (Card[s] # None /\ cardDevice' = Card[s])
         /\ UNCHANGED stuck
  BY Zenon DEF SetDefaultSink
<1>3. There(s) => s \in Sinks
  BY SinkTypes
<1> HIDE DEF s
<1>4. PaTypes /\ HandlerTypes /\ RestTypes
  BY TypeGroups
<1>5. /\ preferred' \in Sinks \cup {None}
      /\ soft' \in [Sinks \cup Sources -> Range255]
      /\ cardDevice' \in Cards \cup {None}
      /\ stuck' \in BOOLEAN
  <2>1. Top \in Range255
    BY DEF Range255, Top
  <2>2. There(s) => (Card[s] # None => Card[s] \in Cards)
    BY <1>3, CardTypes
  <2>3. QED
    BY <1>2, <1>3, <1>4, <2>1, <2>2 DEF PaTypes, HandlerTypes, RestTypes
<1>6. PaTypes' /\ HandlerTypes' /\ RestTypes'
  BY <1>1, <1>4, <1>5, Zenon
  DEF PaTypes, HandlerTypes, RestTypes, pageVars, countVars
<1>7. QED
  BY <1>1, <1>6, TypeGroups, UnmovedTypes

(* What the setting of the volume does. *)
LEMMA SetSinkVolumeDoes ==
  ASSUME SetSinkVolume
  PROVE  LET s == resolved["sink"]
         IN /\ Is("volume") /\ Dir = "sink"
            /\ UNCHANGED <<ready, present, preferred, silent, cardDevice,
                           resolved, muted, limits, stored, listVars>>
            /\ UNCHANGED <<file, pageVars, chosen, countVars>>
            /\ \/ /\ ~OnCard /\ ~There(s) /\ stuck' = TRUE
                  /\ UNCHANGED <<script, hw, soft, volume, switched>>
               \/ /\ Done /\ volume' = Arg /\ switched' = FALSE /\ UNCHANGED stuck
                  /\ OnCard => /\ soft' = soft
                               /\ hw' = [hw EXCEPT ![cardDevice] =
                                           AlsaVolume(PaValue(Arg))]
                  /\ ~OnCard => hw' = hw
                  /\ ~OnCard /\ There(s) =>
                       soft' = [soft EXCEPT ![s] = PaValue(Arg)]
                  /\ ~There(s) => soft' = soft
<1> DEFINE s == resolved["sink"]
<1>1. /\ Is("volume") /\ Dir = "sink"
      /\ UNCHANGED <<ready, present, preferred, silent, cardDevice,
                     resolved, muted, limits, stored, listVars>>
      /\ UNCHANGED <<file, pageVars, chosen, countVars>>
  BY Zenon DEF SetSinkVolume
<1>2. CASE ~OnCard /\ ready /\ s # None /\ ~There(s)
  BY <1>1, <1>2, Zenon DEF SetSinkVolume
<1>3. CASE ~(~OnCard /\ ready /\ s # None /\ ~There(s))
  <2>1. /\ Done /\ volume' = Arg /\ switched' = FALSE /\ UNCHANGED stuck
        /\ hw' = IF OnCard
                 THEN [hw EXCEPT ![cardDevice] = AlsaVolume(PaValue(Arg))]
                 ELSE hw
        /\ soft' = IF ~OnCard /\ There(s)
                   THEN [soft EXCEPT ![s] = PaValue(Arg)] ELSE soft
    BY <1>3, Zenon DEF SetSinkVolume
  <2>2. QED
    BY <1>1, <2>1, Zenon
<1>4. QED
  BY <1>2, <1>3, Zenon

LEMMA SetVolumeTypes ==
  ASSUME Constants, TypeOK, Scripted, SetSinkVolume \/ SetSourceVolume
  PROVE  TypeOK'
<1>1. Arg \in Range255
  BY HeadTypes DEF SetSinkVolume, SetSourceVolume, Is
<1>2. AlsaVolume(PaValue(Arg)) \in Range255 /\ PaValue(Arg) \in Range255
  BY <1>1, PaValueType, AlsaVolumeType DEF TypeOK
<1>3. PaTypes /\ HandlerTypes /\ RestTypes
  BY TypeGroups
<1>4. /\ There(resolved["sink"]) => resolved["sink"] \in Sinks
      /\ There(resolved["source"]) => resolved["source"] \in Sources
  BY SinkTypes
<1>5. OnCard => cardDevice \in Cards
  BY <1>3 DEF OnCard, HandlerTypes
<1>6. CASE SetSinkVolume
  <2>1. /\ UNCHANGED <<ready, present, preferred, silent, cardDevice, resolved,
                       muted, limits, stored, listVars>>
        /\ UNCHANGED <<file, pageVars, chosen, countVars>>
    BY <1>6, SetSinkVolumeDoes, Zenon
  <2>2. /\ stuck' = TRUE \/ stuck' = stuck
        /\ switched' = FALSE \/ switched' = switched
        /\ volume' = Arg \/ volume' = volume
        /\ \/ hw' = hw
           \/ OnCard /\ hw' = [hw EXCEPT ![cardDevice] =
                                          AlsaVolume(PaValue(Arg))]
        /\ \/ soft' = soft
           \/ /\ There(resolved["sink"])
              /\ soft' = [soft EXCEPT ![resolved["sink"]] = PaValue(Arg)]
    BY <1>6, SetSinkVolumeDoes, Zenon
  <2>3. hw' \in [Cards -> Range255] /\ soft' \in [Sinks \cup Sources -> Range255]
    BY <1>2, <1>3, <1>4, <1>5, <2>2 DEF PaTypes
  <2>4. volume' \in Range255
    BY <1>1, <1>3, <2>2, Zenon DEF HandlerTypes
  <2>5. stuck' \in BOOLEAN /\ switched' \in BOOLEAN
    BY <1>3, <2>2 DEF RestTypes
  <2>6. PaTypes' /\ HandlerTypes' /\ RestTypes'
    BY <1>3, <2>1, <2>3, <2>4, <2>5, Zenon
    DEF PaTypes, HandlerTypes, RestTypes, pageVars, countVars
  <2>7. QED
    BY <2>1, <2>6, TypeGroups, UnmovedTypes
<1>7. CASE SetSourceVolume
  <2>1. /\ UNCHANGED <<ready, present, preferred, hw, silent, handlerVars,
                       listVars>>
        /\ UNCHANGED <<stuck, file, pageVars, chosen, switched, countVars>>
    BY <1>7, Zenon DEF SetSourceVolume
  <2>2. \/ soft' = soft
        \/ /\ There(resolved["source"])
           /\ soft' = [soft EXCEPT ![resolved["source"]] = Arg]
    BY <1>7, Zenon DEF SetSourceVolume
  <2>3. soft' \in [Sinks \cup Sources -> Range255]
    BY <1>1, <1>3, <1>4, <2>2 DEF PaTypes
  <2>4. PaTypes'
    BY <1>3, <2>1, <2>3, Zenon DEF PaTypes
  <2>5. QED
    BY <2>1, <2>4, TypeGroups, UnmovedTypes
<1>8. QED
  BY <1>6, <1>7

LEMMA SetSinkMuteTypes ==
  ASSUME Constants, TypeOK, Scripted, SetSinkMute
  PROVE  TypeOK'
<1> DEFINE target == IF OnCard THEN cardDevice ELSE resolved["sink"]
<1>1. Arg \in BOOLEAN
  BY HeadTypes DEF SetSinkMute, Is
<1>2. /\ UNCHANGED <<ready, present, preferred, soft, hw, cardDevice, resolved,
                     volume, limits, stored, listVars>>
      /\ UNCHANGED <<stuck, file, pageVars, chosen, switched, countVars>>
      /\ muted' = Arg
  BY Zenon DEF SetSinkMute
<1>3. \/ silent' = silent
      \/ (OnCard \/ There(target)) /\ silent' = silent \cup {target}
      \/ silent' = silent \ {target}
  BY Zenon DEF SetSinkMute
<1>4. PaTypes /\ HandlerTypes
  BY TypeGroups
<1>5. OnCard \/ There(target) => target \in Sinks \cup Cards
  BY <1>4, SinkTypes DEF OnCard, HandlerTypes
<1> HIDE DEF target
<1>6. silent' \subseteq Sinks \cup Cards
  BY <1>3, <1>4, <1>5 DEF PaTypes
<1>7. PaTypes' /\ HandlerTypes'
  BY <1>1, <1>2, <1>4, <1>6, Zenon DEF PaTypes, HandlerTypes
<1>8. QED
  BY <1>2, <1>7, TypeGroups, UnmovedTypes

LEMMA ChooseDeviceTypes ==
  ASSUME Constants, TypeOK, NEW d \in Direction, NEW n \in Device(d),
         ChooseDevice(d, n)
  PROVE  TypeOK'
<1>1. HandlerTypes /\ RestTypes
  BY TypeGroups
<1>2. /\ UNCHANGED <<paVars, cardDevice, resolved, volume, muted, limits, listVars>>
      /\ UNCHANGED <<pageVars, stuck, changes, restarts>>
      /\ stored' = [stored EXCEPT ![d] = n] /\ chosen' = [chosen EXCEPT ![d] = n]
      /\ Save(volume, limits, stored') /\ switched' = (switched \/ d = "sink")
      /\ inputs < MaxInputs /\ inputs' = inputs + 1
  BY Zenon DEF ChooseDevice, UserActs
<1>3. stored' \in Devices /\ chosen' \in Devices
  BY <1>1, <1>2, DevicesExcept DEF HandlerTypes, RestTypes
<1>4. file' \in Config
  BY <1>1, <1>2, <1>3, SavedType DEF HandlerTypes
<1>5. inputs' \in 0..MaxInputs
  BY <1>1, <1>2 DEF RestTypes, Constants
<1>6. switched' \in BOOLEAN
  BY <1>2
<1>7. HandlerTypes' /\ RestTypes'
  BY <1>1, <1>2, <1>3, <1>4, <1>5, <1>6, Zenon
  DEF HandlerTypes, RestTypes, pageVars
<1>8. QED
  BY <1>2, <1>7, TypeGroups, UnmovedTypes

(* The other things the user does. *)
LEMMA UserTypes ==
  ASSUME Constants, TypeOK,
         \/ \E v \in Sliders : MoveVolume(v)
         \/ \E lo, hi \in Limits : MoveLimit(<<lo, hi>>)
         \/ ToggleSinkMute \/ SaveSettings \/ OpenSettings \/ PressSave
         \/ PressBack
  PROVE  TypeOK'
<1>1. HandlerTypes /\ RestTypes
  BY TypeGroups
<1>2. /\ inputs < MaxInputs /\ inputs' = inputs + 1
      /\ UNCHANGED <<paVars, cardDevice, resolved, volume, muted, stored, listVars>>
      /\ UNCHANGED <<stuck, chosen, switched, changes, restarts>>
  BY Zenon
  DEF MoveVolume, MoveLimit, ToggleSinkMute, SaveSettings, OpenSettings,
      PressSave, PressBack, UserActs, handlerVars
<1>3. inputs' \in 0..MaxInputs
  BY <1>1, <1>2 DEF RestTypes, Constants
<1>4. /\ limits' \in Range255 \X Range255 /\ file' \in Config
      /\ page' \in {None} \cup (Range255 \X Range255) /\ modified' \in BOOLEAN
  <2>1. CASE \E v \in Sliders : MoveVolume(v)
    BY <1>1, <2>1, Zenon
    DEF MoveVolume, HandlerTypes, RestTypes, handlerVars, pageVars
  <2>2. CASE ToggleSinkMute
    BY <1>1, <2>2, Zenon
    DEF ToggleSinkMute, HandlerTypes, RestTypes, handlerVars, pageVars
  <2>3. CASE SaveSettings
    <3>1. UNCHANGED <<limits, page, modified>> /\ Save(volume, limits, stored)
      BY <2>3, Zenon DEF SaveSettings, handlerVars, pageVars
    <3>2. QED
      BY <1>1, <3>1, SavedType DEF HandlerTypes, RestTypes
  <2>4. CASE OpenSettings
    <3>1. UNCHANGED <<limits, file>> /\ page' = limits /\ modified' = FALSE
      BY <2>4, Zenon DEF OpenSettings, handlerVars
    <3>2. QED
      BY <1>1, <3>1 DEF HandlerTypes, RestTypes
  <2>5. CASE PressSave
    <3>1. /\ UNCHANGED limits /\ page' = limits /\ modified' = FALSE
          /\ Save(volume, limits, stored)
      BY <2>5, Zenon DEF PressSave, handlerVars
    <3>2. QED
      BY <1>1, <3>1, SavedType DEF HandlerTypes, RestTypes
  <2>6. CASE PressBack
    <3>1. /\ page' = None /\ modified' = FALSE /\ page # None
          /\ \/ limits' = page /\ Save(volume, limits', stored)
             \/ UNCHANGED <<limits, file>>
      BY <2>6, Zenon DEF PressBack
    <3>2. limits' \in Range255 \X Range255
      BY <1>1, <3>1 DEF HandlerTypes, RestTypes
    <3>3. file' \in Config
      BY <1>1, <3>1, <3>2, SavedType DEF HandlerTypes, RestTypes
    <3>4. QED
      BY <3>1, <3>2, <3>3
  <2>7. ASSUME NEW lo \in Limits, NEW hi \in Limits, MoveLimit(<<lo, hi>>)
        PROVE  /\ limits' \in Range255 \X Range255 /\ file' \in Config
               /\ page' \in {None} \cup (Range255 \X Range255)
               /\ modified' \in BOOLEAN
    <3>1. /\ limits' = <<lo, hi>> /\ modified' = TRUE /\ page' = page
          /\ Save(volume, limits', stored)
      BY <2>7, Zenon DEF MoveLimit
    <3>2. limits' \in Range255 \X Range255
      BY <3>1 DEF Constants
    <3>3. QED
      BY <1>1, <3>1, <3>2, SavedType DEF HandlerTypes, RestTypes
  <2>8. QED
    BY <2>1, <2>2, <2>3, <2>4, <2>5, <2>6, <2>7
<1>5. HandlerTypes' /\ RestTypes'
  BY <1>1, <1>2, <1>3, <1>4, Zenon DEF HandlerTypes, RestTypes, pageVars
<1>6. QED
  BY <1>2, <1>5, TypeGroups, UnmovedTypes

LEMMA RefreshTypes ==
  ASSUME Constants, TypeOK, NEW d \in Direction, Refresh(d)
  PROVE  TypeOK' /\ posted' = [posted EXCEPT ![d] = @ - 1]
<1>1. ListTypes
  BY TypeGroups
<1>2. /\ posted[d] > 0 /\ posted' = [posted EXCEPT ![d] = @ - 1]
      /\ UNCHANGED <<items, registered, missed>>
      /\ UNCHANGED <<paVars, handlerVars>>
      /\ UNCHANGED <<stuck, file, pageVars, chosen, switched, countVars>>
  BY Zenon DEF Refresh
<1>3. posted' \in [Direction -> 0..MaxChanges]
  BY <1>1, <1>2 DEF ListTypes, Constants
<1>4. ListTypes'
  BY <1>1, <1>2, <1>3, Zenon DEF ListTypes
<1>5. QED
  BY <1>2, <1>4, TypeGroups, UnmovedTypes

(* What the server's events do to the lists. *)
LEMMA NotifyTypes ==
  ASSUME Constants, TypeOK, Counted, NEW d \in Direction, Notify(d),
         UNCHANGED <<items, registered>>, changes < MaxChanges,
         changes' = changes + 1
  PROVE  ListTypes' /\ Counted'
<1>1. ListTypes /\ changes \in 0..MaxChanges
  BY TypeGroups DEF RestTypes
<1>2. posted[d] \in 0..MaxChanges /\ posted[d] <= changes /\ MaxChanges \in Nat
  BY <1>1 DEF ListTypes, Counted, Constants
<1>3. \/ posted' = posted \/ posted' = [posted EXCEPT ![d] = @ + 1]
  BY Zenon DEF Notify
<1>4. missed' = missed \/ missed' = [missed EXCEPT ![d] = TRUE]
  BY Zenon DEF Notify
<1>5. posted[d] + 1 \in 0..MaxChanges
  BY <1>1, <1>2
<1>6. posted' \in [Direction -> 0..MaxChanges]
  BY <1>1, <1>3, <1>5 DEF ListTypes
<1>7. missed' \in [Direction -> BOOLEAN]
  BY <1>1, <1>4 DEF ListTypes
<1>8. ListTypes'
  BY <1>1, <1>6, <1>7, Zenon DEF ListTypes
<1>9. ASSUME NEW e \in Direction PROVE posted'[e] <= changes'
  <2>1. posted[e] \in Int /\ posted[e] <= changes
    BY <1>1 DEF ListTypes, Counted
  <2>2. posted'[e] = posted[e] \/ posted'[e] = posted[e] + 1
    BY <1>1, <1>3 DEF ListTypes
  <2>3. QED
    BY <1>1, <2>1, <2>2
<1>10. QED
  BY <1>8, <1>9 DEF Counted

LEMMA AppearTypes ==
  ASSUME Constants, TypeOK, Counted, NEW d \in Direction, NEW n \in Names[d],
         Appear(d, n)
  PROVE  TypeOK' /\ Counted'
<1>1. /\ changes < MaxChanges /\ changes' = changes + 1
      /\ present' = [present EXCEPT ![d] = Append(@, n)] /\ Notify(d)
      /\ UNCHANGED <<ready, preferred, soft, hw, silent, handlerVars, items,
                     registered>>
      /\ UNCHANGED <<stuck, file, pageVars, chosen, switched, inputs, restarts>>
  BY Zenon DEF Appear
<1>2. PaTypes /\ RestTypes
  BY TypeGroups
<1>3. n \in Sinks \cup Sources
  BY DEF Names, Direction
<1>4. present[d] \in Seq(Sinks \cup Sources) /\ Range(present[d]) \subseteq Names[d]
  BY <1>2 DEF PaTypes
<1>5. Append(present[d], n) \in Seq(Sinks \cup Sources)
  BY <1>3, <1>4
<1>6. Range(Append(present[d], n)) \subseteq Names[d]
  <2>1. present[d] \in Seq(Names[d])
    BY <1>4, SeqOfRange, SeqMonotonic
  <2>2. Append(present[d], n) \in Seq(Names[d])
    BY <2>1, AppendProperties
  <2>3. QED
    BY <2>2, RangeWithin
<1>7. /\ present' \in [Direction -> Seq(Sinks \cup Sources)]
      /\ \A e \in Direction : Range(present'[e]) \subseteq Names[e]
  BY <1>1, <1>2, <1>5, <1>6 DEF PaTypes
<1>8. changes' \in 0..MaxChanges
  BY <1>1, <1>2 DEF RestTypes, Constants
<1>9. PaTypes' /\ RestTypes'
  BY <1>1, <1>2, <1>7, <1>8, Zenon DEF PaTypes, RestTypes, pageVars
<1>10. QED
  BY <1>1, <1>9, NotifyTypes, TypeGroups, UnmovedTypes

LEMMA VanishTypes ==
  ASSUME Constants, TypeOK, Counted, NEW d \in Direction,
         NEW i \in DOMAIN present[d], Vanish(d, i)
  PROVE  TypeOK' /\ Counted'
<1>1. /\ changes < MaxChanges /\ changes' = changes + 1
      /\ present' = [present EXCEPT ![d] = RemoveAt(@, i)] /\ Notify(d)
      /\ UNCHANGED <<ready, preferred, soft, hw, silent, handlerVars, items,
                     registered>>
      /\ UNCHANGED <<stuck, file, pageVars, chosen, switched, inputs, restarts>>
  BY Zenon DEF Vanish
<1>2. PaTypes /\ RestTypes
  BY TypeGroups
<1>3. present[d] \in Seq(Sinks \cup Sources) /\ Range(present[d]) \subseteq Names[d]
  BY <1>2 DEF PaTypes
<1>4. RemoveAt(present[d], i) \in Seq(Sinks \cup Sources)
  BY <1>3, RemoveAtType
<1>5. Range(RemoveAt(present[d], i)) \subseteq Names[d]
  <2>1. present[d] \in Seq(Names[d])
    BY <1>3, SeqOfRange, SeqMonotonic
  <2>2. RemoveAt(present[d], i) \in Seq(Names[d])
    BY <2>1, RemoveAtType
  <2>3. QED
    BY <2>2, RangeWithin
<1>6. /\ present' \in [Direction -> Seq(Sinks \cup Sources)]
      /\ \A e \in Direction : Range(present'[e]) \subseteq Names[e]
  BY <1>1, <1>2, <1>4, <1>5 DEF PaTypes
<1>7. changes' \in 0..MaxChanges
  BY <1>1, <1>2 DEF RestTypes, Constants
<1>8. PaTypes' /\ RestTypes'
  BY <1>1, <1>2, <1>6, <1>7, Zenon DEF PaTypes, RestTypes, pageVars
<1>9. QED
  BY <1>1, <1>8, NotifyTypes, TypeGroups, UnmovedTypes

LEMMA ContextFailsTypes ==
  ASSUME Constants, TypeOK, ContextFails
  PROVE  TypeOK'
<1>1. /\ changes < MaxChanges /\ changes' = changes + 1 /\ ready' = FALSE
      /\ stuck' = stuck \/ stuck' = (script # <<>>)
      /\ UNCHANGED <<present, preferred, soft, hw, silent, handlerVars, listVars>>
      /\ UNCHANGED <<file, pageVars, chosen, switched, inputs, restarts>>
  BY DEF ContextFails
<1>2. PaTypes /\ RestTypes
  BY TypeGroups
<1>3. changes' \in 0..MaxChanges /\ stuck' \in BOOLEAN /\ ready' \in BOOLEAN
  <2>1. changes \in 0..MaxChanges /\ MaxChanges \in Nat /\ stuck \in BOOLEAN
    BY <1>2, Zenon DEF RestTypes, Constants
  <2>2. changes' = changes + 1 /\ changes < MaxChanges
    BY <1>1
  <2>3. changes' \in 0..MaxChanges
    BY <2>1, <2>2
  <2>4. stuck' \in BOOLEAN /\ ready' \in BOOLEAN
    BY <1>1, <2>1, Zenon
  <2>5. QED
    BY <2>3, <2>4
<1>4. PaTypes' /\ RestTypes'
  BY <1>1, <1>2, <1>3, Zenon DEF PaTypes, RestTypes, pageVars
<1>5. QED
  BY <1>1, <1>4, TypeGroups, UnmovedTypes

(* The same value for both devices. *)
LEMMA BothTypes ==
  /\ Both(None) \in Devices
  /\ Both({}) \in [Direction -> SUBSET (Sinks \cup Sources)]
  /\ \A d \in Direction : Both({})[d] \subseteq Names[d]
  /\ Both(FALSE) \in [Direction -> BOOLEAN]
  /\ MaxChanges \in Nat => Both(0) \in [Direction -> 0..MaxChanges]
  /\ \A d \in Direction : Both(0)[d] = 0 /\ Both(FALSE)[d] = FALSE /\ Both(None)[d] = None
BY DEF Both, Devices, Device

LEMMA RestartTypes ==
  ASSUME Constants, TypeOK, Restart
  PROVE  TypeOK'
<1>1. PaTypes /\ HandlerTypes /\ RestTypes
  BY TypeGroups
<1>2. /\ ready' = TRUE /\ preferred' = None /\ silent' = {}
      /\ UNCHANGED <<present, soft, hw>>
      /\ volume' = file.volume /\ limits' = file.limits /\ stored' = file.stored
      /\ cardDevice' = None /\ resolved' = Both(None) /\ muted' = FALSE
      /\ items' = Both({}) /\ registered' = Both(FALSE) /\ posted' = Both(0)
      /\ missed' = Both(FALSE) /\ page' = None /\ modified' = FALSE
      /\ stuck' = FALSE /\ switched' = FALSE
      /\ UNCHANGED <<file, chosen, changes, inputs>>
      /\ restarts < MaxRestarts /\ restarts' = restarts + 1
  BY Zenon DEF Restart
<1>3. /\ file.volume \in Range255 /\ file.limits \in Range255 \X Range255
      /\ file.stored \in Devices
  BY <1>1 DEF RestTypes, Config
<1>4. restarts' \in 0..MaxRestarts
  BY <1>1, <1>2 DEF RestTypes, Constants
<1>5. PaTypes'
  <2>1. {} \subseteq Sinks \cup Cards /\ TRUE \in BOOLEAN /\ None \in Sinks \cup {None}
    OBVIOUS
  <2>2. QED
    BY <1>1, <1>2, <2>1, Zenon DEF PaTypes
<1>6. HandlerTypes'
  <2>1. None \in Cards \cup {None} /\ FALSE \in BOOLEAN
    OBVIOUS
  <2>2. QED
    BY <1>2, <1>3, <2>1, BothTypes, Zenon DEF HandlerTypes
<1>7. ListTypes'
  BY <1>2, BothTypes, Zenon DEF ListTypes, Constants
<1>8. RestTypes'
  <2>1. None \in {None} \cup (Range255 \X Range255) /\ FALSE \in BOOLEAN
    OBVIOUS
  <2>2. QED
    BY <1>1, <1>2, <1>4, <2>1, Zenon DEF RestTypes
<1>9. QED
  BY <1>5, <1>6, <1>7, <1>8, TypeGroups

LEMMA InitTypes ==
  ASSUME Constants, Init
  PROVE  TypeOK
<1>1. PICK first \in SUBSET Sinks :
        present = [d \in Direction |->
                     SetToSeq(IF d = "sink" THEN first ELSE Sources)]
  BY DEF Init
<1>2. IsFiniteSet(first) /\ IsFiniteSet(Sources)
  BY FS_Subset DEF Constants
<1>3. SetToSeq(first) \in Seq(first) /\ SetToSeq(Sources) \in Seq(Sources)
  BY <1>2, SetToSeqType
<1>4. SetToSeq(first) \in Seq(Sinks)
  BY <1>3, SeqMonotonic
<1>5. /\ Range(SetToSeq(first)) \subseteq Sinks
      /\ Range(SetToSeq(Sources)) \subseteq Sources
  BY <1>3, <1>4, RangeWithin
<1>6. /\ SetToSeq(first) \in Seq(Sinks \cup Sources)
      /\ SetToSeq(Sources) \in Seq(Sinks \cup Sources)
  BY <1>3, <1>4, SeqMonotonic
<1>7. /\ present \in [Direction -> Seq(Sinks \cup Sources)]
      /\ \A d \in Direction : Range(present[d]) \subseteq Names[d]
  <2>1. ASSUME NEW d \in Direction
        PROVE  /\ present[d] \in Seq(Sinks \cup Sources)
               /\ Range(present[d]) \subseteq Names[d]
    <3>1. CASE d = "sink"
      BY <1>1, <1>5, <1>6, <3>1 DEF Names
    <3>2. CASE d # "sink"
      BY <1>1, <1>5, <1>6, <3>2 DEF Names
    <3>3. QED
      BY <3>1, <3>2
  <2>2. QED
    BY <1>1, <2>1
<1>8. /\ Top \in Range255 /\ 0 \in Range255 /\ 150 \in Range255
      /\ <<0, Top>> \in Range255 \X Range255
  BY DEF Range255, Top
<1>9. /\ soft = [n \in Sinks \cup Sources |-> Top] /\ hw = [c \in Cards |-> 0]
      /\ ready \in BOOLEAN /\ preferred = None /\ silent = {}
  BY Zenon DEF Init
<1>10. PaTypes
  BY <1>7, <1>8, <1>9 DEF PaTypes
<1>11. /\ cardDevice = None /\ resolved = Both(None) /\ volume = 150
       /\ muted = FALSE /\ limits = <<0, Top>> /\ stored = Both(None)
       /\ file = [volume |-> 150, limits |-> limits, stored |-> stored]
       /\ items = Both({}) /\ registered = Both(FALSE) /\ posted = Both(0)
       /\ missed = Both(FALSE) /\ page = None /\ modified = FALSE
       /\ stuck = FALSE /\ chosen = Both(None) /\ switched = FALSE
       /\ changes = 0 /\ inputs = 0 /\ restarts = 0
  BY Zenon DEF Init
<1>12. HandlerTypes
  <2>1. None \in Cards \cup {None} /\ FALSE \in BOOLEAN
    OBVIOUS
  <2>2. QED
    BY <1>8, <1>11, <2>1, BothTypes, Zenon DEF HandlerTypes
<1>13. ListTypes
  BY <1>11, BothTypes, Zenon DEF ListTypes, Constants
<1>14. file \in Config
  BY <1>8, <1>11, BothTypes DEF Config
<1>15. 0 \in 0..MaxChanges /\ 0 \in 0..MaxInputs /\ 0 \in 0..MaxRestarts
  BY DEF Constants
<1>16. RestTypes
  <2>1. None \in {None} \cup (Range255 \X Range255) /\ FALSE \in BOOLEAN
    OBVIOUS
  <2>2. QED
    BY <1>11, <1>14, <1>15, <2>1, BothTypes, Zenon DEF RestTypes
<1>17. QED
  BY <1>10, <1>12, <1>13, <1>16, TypeGroups

-----------------------------------------------------------------------------
(* How a script goes on and how one begins. *)

(* A call of the GUI thread is waited for, is done, or is followed by      *)
(* another one that finds the same device.                                 *)
LEMMA CallEnds ==
  ASSUME Constants, TypeOK, Scripted, GuiThread
  PROVE  /\ script # <<>> /\ ~stuck
         /\ \/ script' = script
            \/ script' = Tail(script)
            \/ \E t \in Steps :
                 /\ script' = <<t>> \o Tail(script)
                 /\ t.op \in {"confirm", "fallback"} /\ t.dir = Dir
                 /\ Head(script).op \in {"best", "lookup"}
<1>1. script # <<>> /\ ~stuck
  BY Zenon
  DEF GuiThread, GetDevices, AddChangedCallback, BestAvailable, Confirm, Lookup,
      Fallback, Keep, SaveFound, SetDefaultSink, SetSinkVolume, SetSourceVolume,
      SetSinkMute, Is
<1>2. CASE ~(BestAvailable \/ Lookup)
  <2>1. script' = script \/ script' = Tail(script)
    <3>1. CASE SetSinkVolume
      BY <3>1, SetSinkVolumeDoes, Zenon DEF Done
    <3>2. CASE ~SetSinkVolume
      BY <1>2, <3>2, Zenon
      DEF GuiThread, GetDevices, AddChangedCallback, Confirm, Fallback, Keep,
          SaveFound, SetDefaultSink, SetSourceVolume, SetSinkMute, Done
    <3>3. QED
      BY <3>1, <3>2
  <2>2. QED
    BY <1>1, <2>1
<1>3. Dir \in Direction
  BY <1>1, HeadTypes
<1>4. CASE BestAvailable
  <2> DEFINE best == ServerDefault(Dir)
  <2>1. best \in Device(Dir)
    BY <1>3, ServerDefaultType
  <2>2. Step("confirm", Dir, best) \in Steps
    BY <1>3, <2>1, StepTypes
  <2>3. Step("confirm", Dir, best).op = "confirm" /\ Step("confirm", Dir, best).dir = Dir
    BY DEF Step
  <2>4. \/ script' = Tail(script)
        \/ script' = <<Step("confirm", Dir, best)>> \o Tail(script)
    BY <1>4, Zenon DEF BestAvailable, Done
  <2>5. Head(script).op = "best"
    BY <1>4, Zenon DEF BestAvailable, Is
  <2>6. QED
    BY <1>1, <2>2, <2>3, <2>4, <2>5
<1>5. CASE Lookup
  <2>1. Step("fallback", Dir, None) \in Steps
    BY <1>3, StepTypes DEF Ops
  <2>2. Step("fallback", Dir, None).op = "fallback" /\ Step("fallback", Dir, None).dir = Dir
    BY DEF Step
  <2>3. \/ script' = Tail(script)
        \/ script' = <<Step("fallback", Dir, None)>> \o Tail(script)
    BY <1>5, Zenon DEF Lookup, Done
  <2>4. Head(script).op = "lookup"
    BY <1>5, Zenon DEF Lookup, Is
  <2>5. QED
    BY <1>1, <2>1, <2>2, <2>3, <2>4
<1>6. QED
  BY <1>2, <1>4, <1>5

(* What is pending stays pending but for the call that is made. *)
GoesOn ==
  /\ Scripted'
  /\ Defaulting(script) => Defaults(Head(script)) \/ Defaulting(script')
  /\ Defaulting(script') => Defaulting(script)
  /\ Setting(script) => Sets(Head(script)) \/ Setting(script')
  /\ \A d \in Direction :
       Filling(script, d) => Lists(Head(script), d) \/ Filling(script', d)

(* The first call of a script is pending. *)
LEMMA FirstPending ==
  ASSUME Constants, TypeOK, Scripted, GuiThread
  PROVE  /\ Defaults(Head(script)) => Defaulting(script)
         /\ Sets(Head(script)) => Setting(script)
         /\ \A d \in Direction : Lists(Head(script), d) => Filling(script, d)
<1>1. script # <<>>
  BY CallEnds
<1>2. script \in Seq(Steps) /\ Ordered(script)
  BY DEF Scripted
<1>3. Head(script) = script[1] /\ 1 \in 1..Len(script)
  <2>1. Len(script) \in Nat /\ Len(script) >= 1
    BY <1>1, <1>2, EmptySeq, LenProperties
  <2>2. QED
    BY <1>1, <1>2, <2>1, TailOrdered
<1>4. QED
  BY <1>3, Zenon DEF Defaulting, Setting, Filling

(* So it is; and what is found will be the server's default.               *)
LEMMA ScriptGoesOn ==
  ASSUME Constants, TypeOK, Scripted, GuiThread
  PROVE  /\ GoesOn
         /\ Finds(Head(script)) => Defaulting(script')
         /\ Sets(Head(script)) => ~Defaulting(script)
<1>1. /\ script # <<>> /\ script \in Seq(Steps) /\ Ordered(script)
      /\ Len(script) \in Nat
  BY CallEnds, LenProperties DEF Scripted
<1>2. /\ Head(script) \in Steps /\ Head(script) = script[1] /\ 1 \in 1..Len(script)
  <2>1. Len(script) >= 1
    BY <1>1, EmptySeq
  <2>2. QED
    BY <1>1, <2>1, TailOrdered
<1>3. Sets(Head(script)) => ~Defaulting(script)
  BY <1>1, <1>2 DEF Ordered, Defaulting
<1>4. Finds(Head(script)) => Defaulting(script)
  <2>1. ASSUME Finds(script[1]) PROVE Defaulting(script)
    <3>1. PICK j \in (1 + 1)..Len(script) : Defaults(script[j])
      BY <1>1, <1>2, <2>1 DEF Ordered
    <3>2. j \in 1..Len(script)
      BY <1>1
    <3>3. QED
      BY <3>1, <3>2 DEF Defaulting
  <2>2. QED
    BY <1>2, <2>1
<1>5. Finds(Head(script)) => ~Defaults(Head(script))
  BY DEF Finds, Defaults
<1>6. GoesOn
  <2>1. CASE script' = script
    BY <1>1, <2>1 DEF Scripted, GoesOn
  <2>2. CASE script' = Tail(script)
    <3>1. Scripted'
      BY <1>1, <2>2, TailOrdered DEF Scripted
    <3>2. QED
      BY <1>1, <2>2, <3>1, TailOrdered DEF GoesOn
  <2>3. ASSUME NEW t \in Steps,
               script' = <<t>> \o Tail(script),
               t.op \in {"confirm", "fallback"}, t.dir = Dir,
               Head(script).op \in {"best", "lookup"}
        PROVE  GoesOn
    <3>1. /\ Finds(t) <=> Finds(Head(script))
          /\ ~Sets(t) /\ ~Defaults(t)
          /\ ~Defaults(Head(script)) /\ ~Sets(Head(script))
          /\ \A d \in Direction : ~Lists(Head(script), d)
      BY <2>3 DEF Finds, Sets, Defaults, Lists, Dir
    <3> DEFINE r == <<t>> \o Tail(script)
    <3>2. /\ r \in Seq(Steps) /\ Ordered(r)
          /\ Defaulting(script) <=> Defaulting(r)
          /\ Setting(script) => Setting(r)
          /\ \A d \in Direction : Filling(script, d) => Filling(r, d)
      BY <1>1, <3>1, ReplacedOrdered
    <3>3. script' = r
      BY <2>3
    <3> HIDE DEF r
    <3>4. QED
      BY <3>2, <3>3 DEF Scripted, GoesOn
  <2>4. QED
    BY <2>1, <2>2, <2>3, CallEnds
<1>7. QED
  BY <1>3, <1>4, <1>5, <1>6 DEF GoesOn

(* A volume that is set anew is, if there is a sink. *)
LEMMA ReapplyOrdered ==
  ASSUME TypeOK
  PROVE  /\ Reapply \in Seq(Steps) /\ Ordered(Reapply) /\ ~Defaulting(Reapply)
         /\ resolved["sink"] # None => Setting(Reapply)
<1>1. volume \in Range255 /\ "sink" \in Direction
  BY DEF TypeOK, Direction
<1>2. Step("volume", "sink", volume) \in Steps
  BY <1>1, StepTypes
<1>3. /\ ~Finds(Step("volume", "sink", volume))
      /\ Sets(Step("volume", "sink", volume))
      /\ ~Defaults(Step("volume", "sink", volume))
  BY DEF Finds, Sets, Defaults, Step
<1>4. CASE resolved["sink"] = None
  BY <1>4, NothingOrdered DEF Reapply
<1>5. CASE resolved["sink"] # None
  BY <1>2, <1>3, <1>5, OneOrdered DEF Reapply
<1>6. QED
  BY <1>4, <1>5

(* What the user begins: a sink that is chosen is made the default, and    *)
(* limits that have moved are heard.                                       *)
Begins ==
  /\ script' \in Seq(Steps) /\ Ordered(script')
  /\ Defaulting(script') => switched'
  /\ switched => switched'
  /\ limits' = limits \/ resolved["sink"] = None \/ Setting(script')

LEMMA UserScripts ==
  ASSUME Constants, TypeOK, Scripted, User
  PROVE  /\ script = <<>> /\ Scripted' /\ Begins
         /\ UNCHANGED <<paVars, cardDevice, resolved, volume, muted, listVars,
                        stuck, changes, restarts>>
<1>1. /\ script = <<>>
      /\ UNCHANGED <<paVars, cardDevice, resolved, volume, muted, listVars,
                     stuck, changes, restarts>>
  BY Zenon
  DEF User, ChooseDevice, MoveVolume, MoveLimit, ToggleSinkMute, SaveSettings,
      OpenSettings, PressSave, PressBack, UserActs, Idle, handlerVars
<1>2. ~Defaulting(script) /\ Ordered(script) /\ script \in Seq(Steps)
  BY <1>1, NothingOrdered
<1>3. "sink" \in Direction /\ "source" \in Direction
  BY DEF Direction
<1>4. SUFFICES Begins
  BY <1>1 DEF Scripted, Begins
<1>5. ASSUME NEW d \in Direction, NEW n \in Device(d), ChooseDevice(d, n)
      PROVE  Begins
  <2> DEFINE t == Resolve(d, n)
  <2>1. t \in Steps /\ t.op \in {"best", "lookup"} /\ t.dir = d
    BY ResolveTypes
  <2>2. /\ script' = IF d = "sink" THEN <<t, Step("default", d, None)>> ELSE <<t>>
        /\ switched' = (switched \/ d = "sink") /\ limits' = limits
    BY <1>5, Zenon DEF ChooseDevice
  <2> HIDE DEF t
  <2>3. CASE d = "sink"
    <3>1. script' = <<t, Step("default", "sink", None)>>
      BY <2>2, <2>3, Zenon
    <3>2. script' \in Seq(Steps) /\ Ordered(script')
      BY <2>1, <2>3, <3>1, ChoiceOrdered, Zenon
    <3>3. switched'
      BY <2>2, <2>3, Zenon
    <3>4. QED
      BY <2>2, <3>2, <3>3, Zenon DEF Begins
  <2>4. CASE d # "sink"
    <3>1. d = "source" /\ script' = <<t>>
      BY <2>2, <2>4 DEF Direction
    <3>2. script' \in Seq(Steps) /\ Ordered(script') /\ ~Defaulting(script')
      BY <2>1, <3>1, ChoiceOrdered, Zenon
    <3>3. QED
      BY <2>2, <3>2, Zenon DEF Begins
  <2>5. QED
    BY <2>3, <2>4
<1>6. ASSUME NEW v \in Sliders, MoveVolume(v) PROVE Begins
  <2>1. Step("volume", "sink", v) \in Steps
    BY <1>3, StepTypes DEF Constants
  <2>2. ~Finds(Step("volume", "sink", v)) /\ ~Defaults(Step("volume", "sink", v))
    BY DEF Finds, Defaults, Step
  <2>3. /\ script' = <<Step("volume", "sink", v)>>
        /\ UNCHANGED <<switched, limits>>
    BY <1>6, Zenon DEF MoveVolume, handlerVars
  <2>4. script' \in Seq(Steps) /\ Ordered(script') /\ ~Defaulting(script')
    BY <2>1, <2>2, <2>3, OneOrdered, Zenon
  <2>5. QED
    BY <2>3, <2>4, Zenon DEF Begins
<1>7. ASSUME NEW lo \in Limits, NEW hi \in Limits, MoveLimit(<<lo, hi>>)
      PROVE  Begins
  <2>1. script' = Reapply /\ UNCHANGED switched
    BY <1>7, Zenon DEF MoveLimit
  <2>2. QED
    BY <2>1, ReapplyOrdered, Zenon DEF Begins
<1>8. CASE ToggleSinkMute
  <2>1. (~muted) \in BOOLEAN
    BY DEF TypeOK
  <2>2. Step("mute", "sink", ~muted) \in Steps
    BY <1>3, <2>1, StepTypes
  <2>3. /\ ~Finds(Step("mute", "sink", ~muted))
        /\ ~Defaults(Step("mute", "sink", ~muted))
    BY DEF Finds, Defaults, Step
  <2>4. /\ script' = <<Step("mute", "sink", ~muted)>>
        /\ UNCHANGED <<switched, limits>>
    BY <1>8, Zenon DEF ToggleSinkMute, handlerVars
  <2>5. script' \in Seq(Steps) /\ Ordered(script') /\ ~Defaulting(script')
    BY <2>2, <2>3, <2>4, OneOrdered, Zenon
  <2>6. QED
    BY <2>4, <2>5, Zenon DEF Begins
<1>9. CASE SaveSettings \/ PressSave
  <2>1. UNCHANGED <<script, switched, limits>>
    BY <1>9, Zenon DEF SaveSettings, PressSave, handlerVars
  <2>2. QED
    BY <1>2, <2>1, Zenon DEF Begins
<1>10. CASE OpenSettings
  <2>1. /\ script' = <<Step("list", "sink", None), Step("list", "source", None)>>
        /\ UNCHANGED <<switched, limits>>
    BY <1>10, Zenon DEF OpenSettings, handlerVars
  <2>2. QED
    BY <2>1, BothListsOrdered, Zenon DEF Begins
<1>11. CASE PressBack
  <2>1. /\ UNCHANGED switched
        /\ script' = Reapply \/ UNCHANGED <<limits, script>>
    BY <1>11, Zenon DEF PressBack
  <2>2. CASE script' = Reapply
    BY <2>1, <2>2, ReapplyOrdered, Zenon DEF Begins
  <2>3. CASE UNCHANGED <<limits, script>>
    BY <1>2, <2>1, <2>3, Zenon DEF Begins
  <2>4. QED
    BY <2>1, <2>2, <2>3
<1>12. QED
  BY <1>5, <1>6, <1>7, <1>8, <1>9, <1>10, <1>11, Zenon DEF User

(* A list is filled again. *)
LEMMA RefreshScripts ==
  ASSUME NEW d \in Direction, Refresh(d)
  PROVE  /\ script = <<>> /\ Scripted' /\ ~Defaulting(script')
         /\ Filling(script', d)
         /\ UNCHANGED <<paVars, handlerVars, file, items, registered, missed,
                        pageVars, stuck, chosen, switched, countVars>>
<1>1. Step("list", d, None) \in Steps
  BY StepTypes DEF Ops
<1>2. /\ ~Finds(Step("list", d, None)) /\ ~Defaults(Step("list", d, None))
      /\ Lists(Step("list", d, None), d)
  BY DEF Finds, Defaults, Lists, Step
<1>3. script' = <<Step("list", d, None)>> /\ script = <<>>
  BY Zenon DEF Refresh, Idle
<1>4. /\ script' \in Seq(Steps) /\ Ordered(script') /\ ~Defaulting(script')
      /\ Filling(script', d)
  BY <1>1, <1>2, <1>3, OneOrdered, Zenon
<1>5. UNCHANGED <<paVars, handlerVars, file, items, registered, missed,
                  pageVars, stuck, chosen, switched, countVars>>
  BY Zenon DEF Refresh
<1>6. QED
  BY <1>3, <1>4, <1>5 DEF Scripted

-----------------------------------------------------------------------------
(* Every step keeps the invariants. *)

(* Of the actions of the GUI thread each leaves most of the state alone.   *)
LEMMA GuiThreadLeaves ==
  ASSUME GuiThread
  PROVE  UNCHANGED <<ready, present, limits, posted, chosen, countVars>>
<1>1. CASE SetSinkVolume
  BY <1>1, SetSinkVolumeDoes, Zenon DEF listVars
<1>2. CASE ~SetSinkVolume
  BY <1>2, Zenon
  DEF GuiThread, GetDevices, AddChangedCallback, BestAvailable, Confirm, Lookup,
      Fallback, Keep, SaveFound, SetDefaultSink, SetSourceVolume, SetSinkMute,
      paVars, handlerVars, listVars
<1>3. QED
  BY <1>1, <1>2

LEMMA GuiThreadTypes ==
  ASSUME Constants, TypeOK, Scripted, Counted, GuiThread
  PROVE  TypeOK' /\ Counted'
<1>1. TypeOK'
  BY ListCallsTypes, FindingTypes, KeepTypes, SaveFoundTypes,
     SetDefaultSinkTypes, SetVolumeTypes, SetSinkMuteTypes, Zenon DEF GuiThread
<1>2. UNCHANGED <<ready, present, limits, posted, chosen, countVars>>
  BY GuiThreadLeaves
<1>3. Counted'
  BY <1>2 DEF Counted, countVars
<1>4. QED
  BY <1>1, <1>2, <1>3

LEMMA TypesStep ==
  ASSUME Constants, TypeOK, Scripted, Counted, [Next]_vars
  PROVE  TypeOK' /\ Counted'
<1>1. CASE GuiThread
  BY <1>1, GuiThreadTypes
<1>2. CASE Server
  <2>1. CASE ContextFails
    <3>1. posted' = posted /\ changes' = changes + 1
      BY <2>1, Zenon DEF ContextFails, listVars
    <3>2. changes \in Int /\ \A d \in Direction : posted[d] \in Int
      BY TypeGroups DEF ListTypes, RestTypes
    <3>3. Counted'
      BY <3>1, <3>2 DEF Counted
    <3>4. QED
      BY <2>1, <3>3, ContextFailsTypes
  <2>2. QED
    BY <1>2, <2>1, AppearTypes, VanishTypes, Zenon DEF Server
<1>3. CASE User
  <2>1. TypeOK'
    BY <1>3, ChooseDeviceTypes, UserTypes, Zenon DEF User
  <2>2. UNCHANGED <<posted, changes>>
    BY <1>3, UserScripts DEF listVars
  <2>3. QED
    BY <2>1, <2>2 DEF Counted
<1>4. CASE Restart
  <2>1. posted' = Both(0) /\ changes' = changes /\ changes \in Nat
    BY <1>4, TypeGroups DEF Restart, RestTypes
  <2>2. \A d \in Direction : Both(0)[d] = 0
    BY BothTypes
  <2>3. Counted'
    BY <2>1, <2>2 DEF Counted
  <2>4. QED
    BY <1>4, <2>3, RestartTypes
<1>5. ASSUME NEW d \in Direction, Refresh(d) PROVE TypeOK' /\ Counted'
  <2>1. posted' = [posted EXCEPT ![d] = @ - 1] /\ changes' = changes
    BY <1>5, RefreshScripts, RefreshTypes DEF countVars
  <2>2. /\ posted \in [Direction -> 0..MaxChanges] /\ changes \in 0..MaxChanges
        /\ \A e \in Direction : posted[e] <= changes
    BY TypeGroups, Zenon DEF ListTypes, RestTypes, Counted
  <2>3. posted' \in [Direction -> Int] /\ \A e \in Direction : posted'[e] <= posted[e]
    BY <2>1, <2>2
  <2>4. Counted'
    BY <2>1, <2>2, <2>3 DEF Counted
  <2>5. QED
    BY <1>5, <2>4, RefreshTypes
<1>6. CASE UNCHANGED vars
  <2>1. UNCHANGED <<paVars, handlerVars, listVars, changes>>
          /\ UNCHANGED <<stuck, file, pageVars, chosen, switched, countVars>>
    BY <1>6 DEF vars, countVars
  <2>2. TypeOK'
    BY <2>1, UnmovedTypes, TypeGroups, Zenon
  <2>3. Counted'
    BY <2>1 DEF listVars, Counted
  <2>4. QED
    BY <2>2, <2>3
<1>7. QED
  BY <1>1, <1>2, <1>3, <1>4, <1>5, <1>6, Zenon DEF Next

LEMMA ScriptedStep ==
  ASSUME Constants, TypeOK, Scripted, [Next]_vars
  PROVE  Scripted'
<1>1. CASE GuiThread
  BY <1>1, ScriptGoesOn DEF GoesOn
<1>2. CASE User
  BY <1>2, UserScripts
<1>3. CASE Restart
  <2>1. file \in Config /\ script' = Startup(file)
    BY <1>3, TypeGroups, Zenon DEF Restart, RestTypes
  <2>2. QED
    BY <2>1, StartupOrdered DEF Scripted
<1>4. CASE \E d \in Direction : Refresh(d)
  BY <1>4, RefreshScripts
<1>5. CASE Server \/ UNCHANGED vars
  <2>1. script' = script
    BY <1>5, Zenon DEF Server, ContextFails, Appear, Vanish, vars
  <2>2. QED
    BY <2>1 DEF Scripted
<1>6. QED
  BY <1>1, <1>2, <1>3, <1>4, <1>5, Zenon DEF Next

(* What the server does to the rest. *)
LEMMA ServerLeaves ==
  ASSUME Server
  PROVE  /\ ready /\ ready' \in {TRUE, FALSE}
         /\ UNCHANGED <<preferred, soft, hw, silent, handlerVars, file, items,
                        registered, pageVars, script, chosen, switched>>
<1>1. UNCHANGED <<preferred, soft, hw, silent, handlerVars, file, items,
                  registered, pageVars, script, chosen, switched>>
  BY Zenon DEF Server, ContextFails, Appear, Vanish, listVars
<1>2. ready /\ (ready' = FALSE \/ ready' = ready)
  BY Zenon DEF Server, ContextFails, Appear, Vanish
<1>3. QED
  BY <1>1, <1>2

(* When the head unit starts everything is to be found and set. *)
LEMMA RestartPending ==
  ASSUME Constants, TypeOK, Restart
  PROVE  /\ Scripted' /\ Defaulting(script') /\ Setting(script')
         /\ \A d \in Direction : Filling(script', d)
<1>1. file \in Config /\ script' = Startup(file)
  BY TypeGroups, Zenon DEF Restart, RestTypes
<1>2. QED
  BY <1>1, StartupOrdered DEF Scripted

(* A call that neither makes a sink the default nor sets its volume. *)
LEMMA OtherCalls ==
  ASSUME Constants, TypeOK, Scripted, GuiThread, ~SetDefaultSink, ~SetSinkVolume
  PROVE  /\ ~Defaults(Head(script)) /\ ~Sets(Head(script))
         /\ UNCHANGED <<cardDevice, hw, volume, switched>>
         /\ \A s \in Sinks : soft'[s] = soft[s]
         /\ resolved'["sink"] = resolved["sink"] \/ Finds(Head(script))
<1>1. UNCHANGED <<cardDevice, hw, volume, switched>>
  BY Zenon
  DEF GuiThread, GetDevices, AddChangedCallback, BestAvailable, Confirm, Lookup,
      Fallback, Keep, SaveFound, SetSourceVolume, SetSinkMute, paVars, handlerVars
<1>2. ~Defaults(Head(script)) /\ ~Sets(Head(script))
  BY DEF GuiThread, GetDevices, AddChangedCallback, BestAvailable, Confirm,
      Lookup, Fallback, Keep, SaveFound, SetSourceVolume, SetSinkMute, Is,
      Defaults, Sets, Dir
<1>3. \A s \in Sinks : soft'[s] = soft[s]
  <2>1. CASE SetSourceVolume
    <3>1. \/ soft' = soft
          \/ /\ There(resolved["source"])
             /\ soft' = [soft EXCEPT ![resolved["source"]] = Arg]
      BY <2>1, Zenon DEF SetSourceVolume
    <3>2. There(resolved["source"]) => resolved["source"] \in Sources
      BY SinkTypes
    <3>3. Sinks \cap Sources = {} /\ soft \in [Sinks \cup Sources -> Range255]
      BY TypeGroups, Zenon DEF Constants, PaTypes
    <3>4. QED
      BY <3>1, <3>2, <3>3
  <2>2. CASE ~SetSourceVolume
    <3>1. soft' = soft
      BY <2>2, Zenon
      DEF GuiThread, GetDevices, AddChangedCallback, BestAvailable, Confirm,
          Lookup, Fallback, Keep, SaveFound, SetSinkMute, paVars
    <3>2. QED
      BY <3>1
  <2>3. QED
    BY <2>1, <2>2
<1>4. resolved'["sink"] = resolved["sink"] \/ Finds(Head(script))
  <2>1. CASE BestAvailable \/ Confirm \/ Lookup \/ Fallback
    <3>1. \A d \in Direction : d # Dir => resolved'[d] = resolved[d]
      BY <2>1, FindingTypes
    <3>2. Head(script).op \in {"best", "confirm", "lookup", "fallback"}
      BY <2>1 DEF BestAvailable, Confirm, Lookup, Fallback, Is
    <3>3. QED
      BY <3>1, <3>2 DEF Finds, Dir, Direction
  <2>2. CASE ~(BestAvailable \/ Confirm \/ Lookup \/ Fallback)
    BY <2>2, Zenon
    DEF GuiThread, GetDevices, AddChangedCallback, Keep, SaveFound,
        SetSourceVolume, SetSinkMute, handlerVars
  <2>3. QED
    BY <2>1, <2>2
<1>5. QED
  BY <1>1, <1>2, <1>3, <1>4

(* What making a sink the default does. *)
LEMMA SetDefaultSinkDoes ==
  ASSUME Constants, TypeOK, SetDefaultSink
  PROVE  LET s == resolved["sink"]
         IN /\ Defaults(Head(script)) /\ ~Sets(Head(script))
            /\ UNCHANGED <<ready, present, hw, resolved, volume, limits, switched>>
            /\ \/ ready => script' = script \/ s = None
               \/ /\ s \in Sinks /\ soft'[s] = Top
                  /\ Card[s] # None => cardDevice' = Card[s]
<1> DEFINE s == resolved["sink"]
<1>1. /\ UNCHANGED <<ready, present, hw, resolved, volume, limits, switched>>
      /\ Head(script).op = "default"
  BY Zenon DEF SetDefaultSink, Is
<1>2. Defaults(Head(script)) /\ ~Sets(Head(script))
  BY <1>1 DEF Defaults, Sets
<1>3. CASE s = None \/ ~ready
  BY <1>1, <1>2, <1>3, Zenon
<1>4. CASE ~(s = None \/ ~ready) /\ ~There(s)
  <2>1. script' = script
    BY <1>4, Zenon DEF SetDefaultSink
  <2>2. QED
    BY <1>1, <1>2, <2>1, Zenon
<1>5. CASE ~(s = None \/ ~ready) /\ There(s)
  <2>1. s \in Sinks
    BY <1>5, SinkTypes
  <2>2. /\ soft' = [soft EXCEPT ![s] = Top]
        /\ Card[s] # None => cardDevice' = Card[s]
    BY <1>5, Zenon DEF SetDefaultSink
  <2>3. soft \in [Sinks \cup Sources -> Range255]
    BY TypeGroups, Zenon DEF PaTypes
  <2>4. soft'[s] = Top
    BY <2>1, <2>2, <2>3
  <2>5. QED
    BY <1>1, <1>2, <2>1, <2>2, <2>4, Zenon
<1>6. QED
  BY <1>3, <1>4, <1>5, Zenon

(* The volume of the sink is set by its card, once that is known. *)
LEMMA SetOnCard ==
  ASSUME Constants, TypeOK, Scripted, DefaultSet, SetSinkVolume,
         ready, ~UNCHANGED <<script, hw, soft, volume, switched>>,
         resolved["sink"] \in Sinks, Card[resolved["sink"]] # None
  PROVE  /\ OnCard /\ cardDevice = Card[resolved["sink"]] /\ soft' = soft
         /\ volume' = Arg /\ Arg \in Range255
         /\ hw' = [hw EXCEPT ![cardDevice] = AlsaVolume(PaValue(Arg))]
<1> DEFINE s == resolved["sink"]
<1>1. Sets(Head(script)) /\ GuiThread
  BY SetSinkVolumeDoes, Zenon DEF GuiThread, Is, Sets, Dir
<1>2. ~Defaulting(script)
  BY <1>1, ScriptGoesOn
<1>3. cardDevice = Card[s]
  BY <1>2 DEF DefaultSet
<1>4. OnCard
  <2>1. ASSUME ~OnCard PROVE FALSE
    <3>1. s # None
      BY DEF Constants
    <3>2. There(s)
      BY <2>1, <3>1, Zenon DEF SetSinkVolume
    <3>3. s \in Range(present["sink"])
      BY <3>2, SinkTypes
    <3>4. QED
      BY <1>3, <2>1, <3>3, Zenon DEF OnCard, CardThere
  <2>2. QED
    BY <2>1
<1>5. Arg \in Range255
  BY HeadTypes, SetSinkVolumeDoes, Zenon DEF Is
<1>6. QED
  BY <1>3, <1>4, <1>5, SetSinkVolumeDoes, Zenon

LEMMA DefaultSetStep ==
  ASSUME Constants, TypeOK, Scripted, DefaultSet, [Next]_vars
  PROVE  DefaultSet'
<1> DEFINE s == resolved["sink"]
<1>1. SUFFICES ASSUME ready', ~Defaulting(script'), s' \in Sinks, Card[s'] # None
               PROVE  cardDevice' = Card[s'] /\ soft'[s'] = Top
  BY Zenon DEF DefaultSet
<1>2. CASE GuiThread
  <2>1. GoesOn /\ ready
    BY <1>1, <1>2, ScriptGoesOn, CallEnds, Zenon
    DEF GuiThread, GetDevices, AddChangedCallback, BestAvailable, Confirm, Lookup,
        Fallback, Keep, SaveFound, SetDefaultSink, SetSinkVolume, SetSourceVolume,
        SetSinkMute, paVars
  <2>2. CASE SetDefaultSink
    <3>1. s' = s /\ s # None
      BY <1>1, <2>2, SetDefaultSinkDoes DEF Constants
    <3>2. script' # script
      BY <1>1, <1>2, <2>2, SetDefaultSinkDoes, FirstPending, Zenon
    <3>3. QED
      BY <1>1, <2>1, <2>2, <3>1, <3>2, SetDefaultSinkDoes, Zenon
  <2>3. CASE SetSinkVolume
    <3>1. ~Defaulting(script)
      BY <1>1, <2>1, <2>3, SetSinkVolumeDoes DEF GoesOn, Is, Defaults
    <3>2. s' = s /\ cardDevice' = cardDevice
      BY <2>3, SetSinkVolumeDoes
    <3>3. cardDevice = Card[s] /\ soft[s] = Top
      BY <1>1, <2>1, <3>1, <3>2, Zenon DEF DefaultSet
    <3>4. soft' = soft
      BY <1>1, <2>1, <2>3, <3>2, SetOnCard, Zenon
    <3>5. QED
      BY <3>2, <3>3, <3>4, Zenon
  <2>4. CASE ~SetDefaultSink /\ ~SetSinkVolume
    <3>1. ~Defaulting(script) /\ s' = s
      BY <1>1, <1>2, <2>1, <2>4, OtherCalls, ScriptGoesOn, Zenon DEF GoesOn
    <3>2. cardDevice = Card[s] /\ soft[s] = Top
      BY <1>1, <2>1, <3>1, Zenon DEF DefaultSet
    <3>3. QED
      BY <1>1, <1>2, <2>4, <3>1, <3>2, OtherCalls
  <2>5. QED
    BY <2>2, <2>3, <2>4
<1>3. CASE Server
  <2>1. ready /\ UNCHANGED <<script, resolved, cardDevice, soft>>
    BY <1>3, ServerLeaves, Zenon DEF handlerVars
  <2>2. QED
    BY <1>1, <2>1, Zenon DEF DefaultSet
<1>4. CASE User
  <2>1. ~Defaulting(script) /\ UNCHANGED <<ready, resolved, cardDevice, soft>>
    BY <1>4, UserScripts, NothingOrdered, Zenon DEF paVars
  <2>2. QED
    BY <1>1, <2>1, Zenon DEF DefaultSet
<1>5. CASE Restart
  BY <1>1, <1>5, RestartPending
<1>6. CASE \E d \in Direction : Refresh(d)
  <2>1. ~Defaulting(script) /\ UNCHANGED <<ready, resolved, cardDevice, soft>>
    BY <1>6, RefreshScripts, NothingOrdered, Zenon DEF paVars, handlerVars
  <2>2. QED
    BY <1>1, <2>1, Zenon DEF DefaultSet
<1>7. CASE UNCHANGED vars
  <2>1. UNCHANGED <<ready, script, resolved, cardDevice, soft>>
    BY <1>7, Zenon DEF vars, paVars, handlerVars
  <2>2. QED
    BY <1>1, <2>1, Zenon DEF DefaultSet
<1>8. QED
  BY <1>2, <1>3, <1>4, <1>5, <1>6, <1>7, Zenon DEF Next

LEMMA SetThenStep ==
  ASSUME Constants, TypeOK, Scripted, SetThen, [Next]_vars
  PROVE  SetThen'
<1>1. SUFFICES ASSUME Defaulting(script') PROVE Setting(script') \/ switched'
  BY Zenon DEF SetThen
<1>2. CASE GuiThread
  <2>1. GoesOn /\ Defaulting(script) /\ ~Sets(Head(script))
    BY <1>1, <1>2, ScriptGoesOn DEF GoesOn
  <2>2. ~SetSinkVolume
    BY <2>1, Zenon DEF SetSinkVolume, Is, Dir, Sets
  <2>3. switched' = switched
    BY <1>2, <2>2, OtherCalls, SetDefaultSinkDoes
  <2>4. QED
    BY <2>1, <2>3, Zenon DEF SetThen, GoesOn
<1>3. CASE Server
  BY <1>1, <1>3, ServerLeaves DEF SetThen
<1>4. CASE User
  BY <1>1, <1>4, UserScripts DEF Begins
<1>5. CASE Restart
  BY <1>5, RestartPending
<1>6. CASE \E d \in Direction : Refresh(d)
  BY <1>1, <1>6, RefreshScripts
<1>7. CASE UNCHANGED vars
  <2>1. UNCHANGED <<script, switched>>
    BY <1>7, Zenon DEF vars
  <2>2. QED
    BY <1>1, <2>1, Zenon DEF SetThen
<1>8. QED
  BY <1>2, <1>3, <1>4, <1>5, <1>6, <1>7, Zenon DEF Next

(* Between the same limits a slider means the same. *)
LEMMA SameValue ==
  ASSUME limits' = limits
  PROVE  PaValue(volume)' = PaValue(volume')
BY DEF PaValue

LEMMA VolumeSetStep ==
  ASSUME Constants, TypeOK, Scripted, DefaultSet, SetThen, VolumeSet, [Next]_vars
  PROVE  VolumeSet'
<1> DEFINE s == resolved["sink"]
           AsSet == hw'[Card[s']] = AlsaVolume(PaValue(volume)')
<1>1. SUFFICES ASSUME ready', ~Defaulting(script'), ~Setting(script'), ~switched',
                      s' \in Sinks, Card[s'] # None
               PROVE  AsSet
  BY Zenon DEF VolumeSet
<1>2. ASSUME ready, ~Defaulting(script), ~Setting(script), ~switched,
             UNCHANGED <<s, hw, volume, limits>>
      PROVE  AsSet
  <2>1. hw[Card[s]] = AlsaVolume(PaValue(volume))
    BY <1>1, <1>2, Zenon DEF VolumeSet
  <2>2. PaValue(volume)' = PaValue(volume)
    BY <1>2, SameValue, Zenon
  <2>3. QED
    BY <1>2, <2>1, <2>2, Zenon
<1>3. CASE GuiThread
  <2>1. GoesOn /\ ready /\ limits' = limits
    BY <1>1, <1>3, ScriptGoesOn, GuiThreadLeaves, Zenon
  <2>2. CASE SetDefaultSink
    <3>1. s' = s /\ s # None /\ switched' = switched /\ ~Sets(Head(script))
      BY <1>1, <2>2, SetDefaultSinkDoes DEF Constants
    <3>2. Defaulting(script)
      BY <1>3, <2>2, SetDefaultSinkDoes, FirstPending, Zenon
    <3>3. QED
      BY <1>1, <2>1, <3>1, <3>2, Zenon DEF SetThen, GoesOn
  <2>3. CASE SetSinkVolume
    <3>1. s' = s
      BY <2>3, SetSinkVolumeDoes
    <3>2. Setting(script)
      BY <1>3, <2>3, FirstPending, Zenon DEF SetSinkVolume, Is, Dir, Sets
    <3>3. script' # script
      BY <1>1, <3>2
    <3>4. /\ cardDevice = Card[s] /\ volume' = Arg
          /\ hw' = [hw EXCEPT ![cardDevice] = AlsaVolume(PaValue(Arg))]
      BY <1>1, <2>1, <2>3, <3>1, <3>3, SetOnCard, Zenon
    <3>5. hw \in [Cards -> Range255] /\ Card[s] \in Cards
      BY <1>1, <3>1, CardTypes, TypeGroups DEF PaTypes
    <3>6. PaValue(volume)' = PaValue(Arg)
      BY <2>1, <3>4, SameValue, Zenon
    <3>7. hw'[Card[s]] = AlsaVolume(PaValue(Arg))
      BY <3>4, <3>5
    <3>8. QED
      BY <3>1, <3>6, <3>7, Zenon
  <2>4. CASE ~SetDefaultSink /\ ~SetSinkVolume
    <3>1. /\ ~Defaults(Head(script)) /\ ~Sets(Head(script))
          /\ UNCHANGED <<hw, volume, switched>>
          /\ s' = s \/ Finds(Head(script))
      BY <1>3, <2>4, OtherCalls
    <3>2. s' = s
      BY <1>1, <1>3, <3>1, ScriptGoesOn, Zenon
    <3>3. QED
      BY <1>1, <1>2, <2>1, <3>1, <3>2, Zenon DEF GoesOn
  <2>5. QED
    BY <2>2, <2>3, <2>4
<1>4. CASE Server
  <2>1. ready /\ UNCHANGED <<script, switched, s, hw, volume, limits>>
    BY <1>4, ServerLeaves, Zenon DEF handlerVars
  <2>2. QED
    BY <1>1, <1>2, <2>1, Zenon
<1>5. CASE User
  <2>1. /\ ~Defaulting(script) /\ ~Setting(script)
        /\ UNCHANGED <<ready, s, hw, volume>>
    BY <1>5, UserScripts, NothingOrdered, Zenon DEF paVars
  <2>2. limits' = limits /\ ~switched
    BY <1>1, <1>5, <2>1, UserScripts DEF Begins, Constants
  <2>3. QED
    BY <1>1, <1>2, <2>1, <2>2, Zenon
<1>6. CASE Restart
  BY <1>1, <1>6, RestartPending
<1>7. CASE \E d \in Direction : Refresh(d)
  <2>1. /\ ~Defaulting(script) /\ ~Setting(script)
        /\ UNCHANGED <<ready, s, hw, volume, limits, switched>>
    BY <1>7, RefreshScripts, NothingOrdered, Zenon DEF paVars, handlerVars
  <2>2. QED
    BY <1>1, <1>2, <2>1, Zenon
<1>8. CASE UNCHANGED vars
  <2>1. UNCHANGED <<ready, script, switched, s, hw, volume, limits>>
    BY <1>8, Zenon DEF vars, paVars, handlerVars
  <2>2. QED
    BY <1>1, <1>2, <2>1, Zenon
<1>9. QED
  BY <1>3, <1>4, <1>5, <1>6, <1>7, <1>8, Zenon DEF Next

(* A list depends on the devices of its kind. *)
LEMMA SameListing ==
  ASSUME NEW d \in Direction, ready' = ready, present'[d] = present[d]
  PROVE  Listing(d)' = Listing(d)
<1>1. CASE d = "sink"
  <2>1. \A s : Kept(s)' <=> Kept(s)
    BY <1>1 DEF Kept
  <2>2. Range(present["sink"])' = Range(present["sink"])
    BY <1>1
  <2>3. QED
    BY <1>1, <2>1, <2>2 DEF Listing
<1>2. CASE d = "source"
  BY <1>2 DEF Listing
<1>3. QED
  BY <1>1, <1>2 DEF Direction

LEMMA ListsFilledStep ==
  ASSUME Constants, TypeOK, Scripted, ListsFilled, [Next]_vars
  PROVE  ListsFilled'
<1>1. SUFFICES ASSUME NEW d \in Direction, ready', ~Filling(script', d),
                      posted'[d] = 0, ~missed'[d]
               PROVE  items'[d] = Listing(d)'
  BY Zenon DEF ListsFilled
<1>2. ASSUME ready, ready' = ready, present'[d] = present[d],
             ~Filling(script, d), posted[d] = 0, ~missed[d], items'[d] = items[d]
      PROVE  items'[d] = Listing(d)'
  BY <1>1, <1>2, SameListing, Zenon DEF ListsFilled
<1>3. CASE GuiThread
  <2>1. /\ ready /\ ready' = ready /\ present' = present
        /\ posted[d] = 0 /\ GoesOn
    BY <1>1, <1>3, GuiThreadLeaves, ScriptGoesOn, Zenon
  <2>2. CASE GetDevices
    <3>1. /\ items' = [items EXCEPT ![Dir] = Listing(Dir)]
          /\ missed' = missed \/ missed' = [missed EXCEPT ![Dir] = FALSE]
      BY <2>2, Zenon DEF GetDevices
    <3>2. /\ items \in [Direction -> SUBSET (Sinks \cup Sources)]
          /\ missed \in [Direction -> BOOLEAN]
      BY TypeGroups, Zenon DEF ListTypes
    <3>3. CASE d = Dir
      <4>1. items'[d] = Listing(d)
        BY <3>1, <3>2, <3>3
      <4>2. Listing(d)' = Listing(d)
        BY <2>1, SameListing, Zenon
      <4>3. QED
        BY <4>1, <4>2
    <3>4. CASE d # Dir
      <4>1. items'[d] = items[d] /\ missed'[d] = missed[d]
        BY <3>1, <3>2, <3>4
      <4>2. ~Lists(Head(script), d)
        BY <3>4 DEF Lists, Dir
      <4>3. QED
        BY <1>1, <1>2, <2>1, <4>1, <4>2, Zenon DEF GoesOn
    <3>5. QED
      BY <3>3, <3>4
  <2>3. CASE ~GetDevices
    <3>1. UNCHANGED <<items, missed>>
      <4>1. CASE SetSinkVolume
        BY <4>1, SetSinkVolumeDoes, Zenon DEF listVars
      <4>2. CASE ~SetSinkVolume
        BY <1>3, <2>3, <4>2, Zenon
        DEF GuiThread, AddChangedCallback, BestAvailable, Confirm, Lookup,
            Fallback, Keep, SaveFound, SetDefaultSink, SetSourceVolume,
            SetSinkMute, listVars
      <4>3. QED
        BY <4>1, <4>2
    <3>2. ~Lists(Head(script), d)
      BY <1>3, <2>3
      DEF GuiThread, AddChangedCallback, BestAvailable, Confirm, Lookup, Fallback,
          Keep, SaveFound, SetDefaultSink, SetSinkVolume, SetSourceVolume,
          SetSinkMute, Is, Lists
    <3>3. QED
      BY <1>1, <1>2, <2>1, <3>1, <3>2, Zenon DEF GoesOn
  <2>4. QED
    BY <2>2, <2>3
<1>4. ASSUME NEW e \in Direction, Notify(e),
             ready, ready' = ready, UNCHANGED <<items, script>>,
             d # e => present'[d] = present[d]
      PROVE  items'[d] = Listing(d)'
  <2>1. /\ posted \in [Direction -> 0..MaxChanges]
        /\ missed \in [Direction -> BOOLEAN]
    BY TypeGroups, Zenon DEF ListTypes
  <2>2. \/ registered[e] /\ posted' = [posted EXCEPT ![e] = @ + 1] /\ missed' = missed
        \/ posted' = posted /\ missed' = [missed EXCEPT ![e] = TRUE]
    BY <1>4, Zenon DEF Notify
  <2>3. d # e
    <3>1. CASE posted' = [posted EXCEPT ![e] = @ + 1]
      BY <1>1, <2>1, <3>1
    <3>2. CASE missed' = [missed EXCEPT ![e] = TRUE]
      BY <1>1, <2>1, <3>2
    <3>3. QED
      BY <2>2, <3>1, <3>2
  <2>4. posted'[d] = posted[d] /\ missed'[d] = missed[d]
    BY <2>1, <2>2, <2>3
  <2>5. QED
    BY <1>1, <1>2, <1>4, <2>3, <2>4, Zenon
<1>5. CASE Server
  <2>1. ~ContextFails
    BY <1>1, Zenon DEF ContextFails
  <2>2. PICK e \in Direction : \/ \E n \in Names[e] : Appear(e, n)
                               \/ \E i \in DOMAIN present[e] : Vanish(e, i)
    BY <1>5, <2>1, Zenon DEF Server
  <2>3. /\ Notify(e) /\ ready /\ ready' = ready /\ UNCHANGED <<items, script>>
        /\ \/ \E n \in Names[e] : present' = [present EXCEPT ![e] = Append(@, n)]
           \/ \E i \in DOMAIN present[e] :
                present' = [present EXCEPT ![e] = RemoveAt(@, i)]
    BY <2>2, Zenon DEF Appear, Vanish
  <2>4. DOMAIN present = Direction
    BY TypeGroups DEF PaTypes
  <2>5. d # e => present'[d] = present[d]
    BY <2>3, <2>4
  <2>6. QED
    BY <1>4, <2>3, <2>5, Zenon
<1>6. CASE User
  <2>1. /\ ~Filling(script, d)
        /\ UNCHANGED <<ready, present, items, posted, missed>>
    BY <1>6, UserScripts, NothingOrdered, Zenon DEF paVars, listVars
  <2>2. QED
    BY <1>1, <1>2, <2>1, Zenon
<1>7. CASE Restart
  BY <1>1, <1>7, RestartPending
<1>8. ASSUME NEW e \in Direction, Refresh(e)
      PROVE  items'[d] = Listing(d)'
  <2>1. /\ ~Filling(script, d) /\ Filling(script', e)
        /\ UNCHANGED <<ready, present, items, missed>>
    BY <1>8, RefreshScripts, NothingOrdered, Zenon DEF paVars
  <2>2. posted' = [posted EXCEPT ![e] = @ - 1]
    BY <1>8, Zenon DEF Refresh
  <2>3. DOMAIN posted = Direction
    BY TypeGroups DEF ListTypes
  <2>4. d # e
    BY <1>1, <2>1
  <2>5. posted'[d] = posted[d]
    BY <2>2, <2>3, <2>4
  <2>6. QED
    BY <1>1, <1>2, <2>1, <2>5, Zenon
<1>9. CASE UNCHANGED vars
  <2>1. UNCHANGED <<ready, present, script, items, posted, missed>>
    BY <1>9, Zenon DEF vars, paVars, listVars
  <2>2. QED
    BY <1>1, <1>2, <2>1, Zenon
<1>10. QED
  BY <1>3, <1>5, <1>6, <1>7, <1>8, <1>9, Zenon DEF Next

(* What is saved and what is stored are the user's choice. *)
LEMMA PreferenceKeptStep ==
  ASSUME Constants, TypeOK, Scripted, PreferenceKept, [Next]_vars
  PROVE  PreferenceKept'
<1>1. ASSUME UNCHANGED chosen,
             \A d \in Direction : stored[d] # None => stored'[d] = stored[d],
             file' = file \/ file'.stored = stored'
      PROVE  PreferenceKept'
  BY <1>1 DEF PreferenceKept
<1>2. /\ stored \in [Direction -> Device("sink") \cup Device("source")]
      /\ chosen \in [Direction -> Device("sink") \cup Device("source")]
  BY TypeGroups DEF HandlerTypes, RestTypes, Devices
<1>3. CASE GuiThread
  <2>1. UNCHANGED chosen
    BY <1>3, GuiThreadLeaves
  <2>2. CASE Keep
    <3>1. /\ file' = file
          /\ \/ stored' = stored
             \/ stored[Dir] = None /\ stored' = [stored EXCEPT ![Dir] = resolved[Dir]]
      BY <2>2, Zenon DEF Keep
    <3>2. \A d \in Direction : stored[d] # None => stored'[d] = stored[d]
      BY <1>2, <3>1
    <3>3. QED
      BY <1>1, <2>1, <3>1, <3>2, Zenon
  <2>3. CASE SaveFound
    <3>1. stored' = stored /\ (file' = file \/ Save(volume, limits, stored))
      BY <2>3, Zenon DEF SaveFound, handlerVars
    <3>2. file' = file \/ file'.stored = stored'
      BY <3>1 DEF Save
    <3>3. QED
      BY <1>1, <2>1, <3>1, <3>2, Zenon
  <2>4. CASE ~Keep /\ ~SaveFound
    <3>1. UNCHANGED <<stored, file>>
      <4>1. CASE SetSinkVolume
        BY <4>1, SetSinkVolumeDoes, Zenon
      <4>2. CASE ~SetSinkVolume
        BY <1>3, <2>4, <4>2, Zenon
        DEF GuiThread, GetDevices, AddChangedCallback, BestAvailable, Confirm,
            Lookup, Fallback, SetDefaultSink, SetSourceVolume, SetSinkMute,
            handlerVars
      <4>3. QED
        BY <4>1, <4>2
    <3>2. QED
      BY <1>1, <2>1, <3>1, Zenon
  <2>5. QED
    BY <2>2, <2>3, <2>4
<1>4. CASE Server
  <2>1. UNCHANGED <<chosen, stored, file>>
    BY <1>4, ServerLeaves, Zenon DEF handlerVars
  <2>2. QED
    BY <1>1, <2>1, Zenon
<1>5. ASSUME NEW d \in Direction, NEW n \in Device(d), ChooseDevice(d, n)
      PROVE  PreferenceKept'
  <2>1. /\ stored' = [stored EXCEPT ![d] = n] /\ chosen' = [chosen EXCEPT ![d] = n]
        /\ Save(volume, limits, stored')
    BY <1>5, Zenon DEF ChooseDevice
  <2>2. file'.stored = stored'
    BY <2>1 DEF Save
  <2>3. \A e \in Direction : chosen'[e] # None => stored'[e] = chosen'[e]
    BY <1>2, <2>1 DEF PreferenceKept
  <2>4. QED
    BY <2>2, <2>3 DEF PreferenceKept
<1>6. CASE User /\ ~\E d \in Direction : \E n \in Device(d) : ChooseDevice(d, n)
  <2>1. /\ UNCHANGED <<chosen, stored>>
        /\ file' = file \/ \E l : Save(volume, l, stored)
    BY <1>6, Zenon
    DEF User, MoveVolume, MoveLimit, ToggleSinkMute, SaveSettings, OpenSettings,
        PressSave, PressBack, handlerVars
  <2>2. file' = file \/ file'.stored = stored'
    BY <2>1 DEF Save
  <2>3. QED
    BY <1>1, <2>1, <2>2, Zenon
<1>7. CASE Restart
  <2>1. stored' = file.stored /\ UNCHANGED <<file, chosen>>
    BY <1>7, Zenon DEF Restart
  <2>2. QED
    BY <2>1 DEF PreferenceKept
<1>8. CASE \E d \in Direction : Refresh(d)
  <2>1. UNCHANGED <<chosen, stored, file>>
    BY <1>8, RefreshScripts, Zenon DEF handlerVars
  <2>2. QED
    BY <1>1, <2>1, Zenon
<1>9. CASE UNCHANGED vars
  <2>1. UNCHANGED <<chosen, stored, file>>
    BY <1>9, Zenon DEF vars, handlerVars
  <2>2. QED
    BY <1>1, <2>1, Zenon
<1>10. QED
  BY <1>3, <1>4, <1>5, <1>6, <1>7, <1>8, <1>9, Zenon DEF Next

-----------------------------------------------------------------------------
(* The invariant holds in the first state and every step keeps it. *)

LEMMA InitInv ==
  ASSUME Constants, Init
  PROVE  VolumeInv
<1>1. TypeOK
  BY InitTypes
<1>2. /\ script = Startup(file) /\ posted = Both(0) /\ changes = 0
      /\ chosen = Both(None)
  BY Zenon DEF Init
<1>3. /\ script \in Seq(Steps) /\ Ordered(script)
      /\ Defaulting(script) /\ Setting(script)
      /\ \A d \in Direction : Filling(script, d)
  <2>1. file \in Config
    BY <1>1, TypeGroups DEF RestTypes
  <2>2. QED
    BY <1>2, <2>1, StartupOrdered, Zenon
<1>4. Counted
  <2>1. \A d \in Direction : posted[d] = 0
    BY <1>2, BothTypes, Zenon
  <2>2. QED
    BY <1>2, <2>1 DEF Counted
<1>5. PreferenceKept
  BY <1>2, BothTypes DEF PreferenceKept
<1>6. QED
  BY <1>1, <1>3, <1>4, <1>5, Zenon
  DEF VolumeInv, Scripted, DefaultSet, SetThen, VolumeSet, ListsFilled

LEMMA StepInv ==
  ASSUME Constants, VolumeInv, [Next]_vars
  PROVE  VolumeInv'
<1>1. /\ TypeOK /\ Scripted /\ Counted
      /\ DefaultSet /\ SetThen /\ VolumeSet /\ ListsFilled /\ PreferenceKept
  BY DEF VolumeInv
<1>2. TypeOK' /\ Counted'
  BY <1>1, TypesStep
<1>3. Scripted'
  BY <1>1, ScriptedStep
<1>4. DefaultSet' /\ SetThen' /\ VolumeSet'
  BY <1>1, DefaultSetStep, SetThenStep, VolumeSetStep
<1>5. ListsFilled' /\ PreferenceKept'
  BY <1>1, ListsFilledStep, PreferenceKeptStep
<1>6. QED
  BY <1>2, <1>3, <1>4, <1>5 DEF VolumeInv

-----------------------------------------------------------------------------
(* What follows from the invariant. *)

(* A card plays as slider and limits say when nothing is pending. *)
LEMMA HeardFollows ==
  ASSUME Constants, VolumeInv
  PROVE  HeardAsSet
<1> DEFINE s == resolved["sink"]
<1>1. SUFFICES ASSUME Idle, ready, s \in Range(present["sink"]), ~switched,
                      cardDevice # None, Card[s] = cardDevice
               PROVE  hw[cardDevice] = AlsaVolume(PaValue(volume)) /\ soft[s] = Top
  BY Zenon DEF HeardAsSet
<1>2. ~Defaulting(script) /\ ~Setting(script)
  BY <1>1, NothingOrdered DEF Idle
<1>3. Range(present["sink"]) \subseteq Names["sink"] /\ Names["sink"] = Sinks
  BY DEF VolumeInv, TypeOK, Direction, Names
<1>4. s \in Sinks /\ Card[s] # None
  BY <1>1, <1>3
<1>5. DefaultSet /\ VolumeSet
  BY DEF VolumeInv
<1>6. QED
  BY <1>1, <1>2, <1>4, <1>5, Zenon DEF DefaultSet, VolumeSet

(* Some numbers have a least one. *)
LEMMA LeastIndex ==
  ASSUME NEW I, I \subseteq Nat, I # {}
  PROVE  \E k \in I : \A j \in I : k <= j
<1> DEFINE Less == {p \in Nat \X Nat : p[1] < p[2]}
<1>1. IsWellFoundedOn(Less, Nat)
  BY NatLessThanWellFounded DEF OpToRel
<1> HIDE DEF Less
<1>2. PICK k \in I : \A j \in I : <<j, k>> \notin Less
  BY <1>1, WFMin
<1>3. \A m, n \in Nat : m < n => <<m, n>> \in Less
  BY DEF Less
<1>4. \A j \in I : k \in Nat /\ j \in Nat /\ ~(j < k)
  BY <1>2, <1>3, Zenon
<1>5. \A j \in I : k <= j
  BY <1>4
<1>6. QED
  BY <1>5

(* Of the sinks of a card one is kept, and one that is named if there is.  *)
LEMMA OneIsKept ==
  ASSUME TypeOK, NEW c, c # None,
         \E s \in Range(present["sink"]) : Card[s] = c
  PROVE  \E s \in Range(present["sink"]) :
           /\ Kept(s) /\ Card[s] = c
           /\ \A t \in Range(present["sink"]) : Kept(t) /\ Card[t] = c => t = s
           /\ s \in Platform => \A t \in Range(present["sink"]) :
                                  Card[t] = c => t \in Platform
<1> DEFINE seen == present["sink"]
           Group == {i \in DOMAIN seen : Card[seen[i]] = c}
           Named == {i \in Group : seen[i] \notin Platform}
<1>1. seen \in Seq(Sinks \cup Sources)
  BY DEF TypeOK, Direction
<1>2. DOMAIN seen \subseteq Nat
  BY <1>1
<1>3. \A t \in Range(seen) : \E i \in DOMAIN seen : t = seen[i]
  BY DEF Range
<1>4. \A i \in DOMAIN seen : seen[i] \in Range(seen)
  BY DEF Range
<1> HIDE DEF seen
<1>5. PICK k \in Group :
        /\ seen[k] \in Platform => Named = {}
        /\ \A j \in Group : j < k => seen[j] \in Platform /\ seen[k] \notin Platform
  <2>1. CASE Named # {}
    <3>1. PICK k \in Named : \A j \in Named : k <= j
      BY <1>2, <2>1, LeastIndex
    <3>2. k \in Group /\ seen[k] \notin Platform
      BY <3>1
    <3>3. ASSUME NEW j \in Group, j < k PROVE seen[j] \in Platform
      BY <1>2, <3>1, <3>3
    <3>4. QED
      BY <3>2, <3>3
  <2>2. CASE Named = {}
    <3>1. Group # {} /\ Group \subseteq Nat
      BY <1>2, <1>3 DEF seen
    <3>2. PICK k \in Group : \A j \in Group : k <= j
      BY <3>1, LeastIndex
    <3>3. \A j \in Group : ~(j < k)
      BY <3>1, <3>2
    <3>4. QED
      BY <2>2, <3>3
  <2>3. QED
    BY <2>1, <2>2
<1>6. k \in DOMAIN seen /\ Card[seen[k]] = c
  BY <1>5
<1>7. \A j \in DOMAIN seen \ {k} : Card[seen[j]] = c =>
        IF j < k THEN Better(seen[k], seen[j]) ELSE ~Better(seen[j], seen[k])
  BY <1>5 DEF Better
<1>8. Kept(seen[k])
  BY <1>6, <1>7, Zenon DEF Kept, seen
<1>9. ASSUME NEW t \in Range(seen), Kept(t), Card[t] = c
      PROVE  t = seen[k]
  <2>1. PICK i \in DOMAIN seen :
          /\ seen[i] = t
          /\ \A j \in DOMAIN seen \ {i} : Card[seen[j]] = Card[t] =>
               IF j < i THEN Better(t, seen[j]) ELSE ~Better(seen[j], t)
    BY <1>9, Zenon DEF Kept, seen
  <2>2. i \in Nat /\ k \in Nat
    BY <1>2, <1>6
  <2>3. CASE i # k
    <3>1. /\ IF i < k THEN Better(seen[k], t) ELSE ~Better(t, seen[k])
          /\ IF k < i THEN Better(t, seen[k]) ELSE ~Better(seen[k], t)
      BY <1>6, <1>7, <1>9, <2>1, <2>3, Zenon
    <3>2. i < k \/ k < i
      BY <2>2, <2>3
    <3>3. ~(i < k /\ k < i)
      BY <2>2
    <3>4. QED
      BY <3>1, <3>2, <3>3, Zenon
  <2>4. QED
    BY <2>1, <2>3
<1>10. ASSUME seen[k] \in Platform, NEW t \in Range(seen), Card[t] = c
       PROVE  t \in Platform
  BY <1>3, <1>5, <1>10
<1>11. QED
  BY <1>4, <1>6, <1>8, <1>9, <1>10, Zenon DEF seen

(* A list that has caught up shows what it should. *)
LEMMA ListsFollowFrom ==
  ASSUME Constants, VolumeInv
  PROVE  ListsFollow
<1>1. SUFFICES ASSUME Idle, ready, posted = Both(0)
               PROVE  /\ ~missed["source"] => items["source"] = Range(present["source"])
                      /\ ~missed["sink"] =>
                           LET sinks == Range(present["sink"])
                           IN /\ items["sink"] \subseteq sinks
                              /\ \A s \in sinks : Card[s] = None => s \in items["sink"]
                              /\ \A c \in {Card[s] : s \in sinks} \ {None} :
                                   \E s \in items["sink"] :
                                     /\ \A t \in items["sink"] : Card[t] = c <=> t = s
                                     /\ s \in Platform =>
                                          \A t \in sinks : Card[t] = c => t \in Platform
  BY Zenon DEF ListsFollow
<1>2. \A d \in Direction : ~missed[d] => items[d] = Listing(d)
  BY <1>1, NothingOrdered, BothTypes, Zenon DEF VolumeInv, ListsFilled, Idle
<1>3. "sink" \in Direction /\ "source" \in Direction
  BY DEF Direction
<1>4. ASSUME ~missed["source"] PROVE items["source"] = Range(present["source"])
  BY <1>1, <1>2, <1>3, <1>4 DEF Listing
<1>5. ASSUME ~missed["sink"]
      PROVE  items["sink"] = {s \in Range(present["sink"]) : Kept(s)}
  BY <1>1, <1>2, <1>3, <1>5 DEF Listing
<1>6. \A s : Card[s] = None => Kept(s)
  BY DEF Kept
<1>7. ASSUME ~missed["sink"],
             NEW c \in {Card[s] : s \in Range(present["sink"])} \ {None}
      PROVE  \E s \in items["sink"] :
               /\ \A t \in items["sink"] : Card[t] = c <=> t = s
               /\ s \in Platform => \A t \in Range(present["sink"]) :
                                      Card[t] = c => t \in Platform
  <2>1. TypeOK
    BY DEF VolumeInv
  <2>2. c # None /\ \E s \in Range(present["sink"]) : Card[s] = c
    OBVIOUS
  <2>3. PICK s \in Range(present["sink"]) :
          /\ Kept(s) /\ Card[s] = c
          /\ \A t \in Range(present["sink"]) : Kept(t) /\ Card[t] = c => t = s
          /\ s \in Platform => \A t \in Range(present["sink"]) :
                                 Card[t] = c => t \in Platform
    BY <2>1, <2>2, OneIsKept
  <2>4. QED
    BY <1>5, <1>7, <2>3
<1>8. QED
  BY <1>4, <1>5, <1>6, <1>7
=============================================================================
