--------------------------- MODULE RadioInvariant ---------------------------
(* The inductive invariant of Radio: where the program in hand will leave   *)
(* the registers, and what the driver's caches and flags may say of them.   *)
EXTENDS Radio

Bands == {"2.4G", "5G"}
BandFields == FrontEnd \cup {"cckCheck"}
ChannelFields == {"fcArea", "agA", "agB", "chA", "chB"}
WidthFields == {"macBw", "rfMod", "bwA", "bwB", "l1Peak", "dataSc", "adcClk",
                "adcBuf"}

\* What the steps of each part of a program may write.
CcaEntries == {"ccaOff"} \X (IF board.cCut THEN {} ELSE BOOLEAN)
BandEntries == (BandFields \X Bands) \cup ({"pwed"} \X Word)
ChnlEntries ==
  ((ChannelFields \cup {"fifoClk", "adcClk", "adcBuf"}) \X Word)
    \cup CcaEntries
BwEntries == ((Numbers \ (ChannelFields \cup {"pwed"})) \X Word)
               \cup CcaEntries

-----------------------------------------------------------------------------
\* The value of field f after a step, and after a sequence of them, when it
\* was x before.
Touches(step, f) == \E e \in step : e[1] = f

AfterStep(step, f, x) ==
  IF Touches(step, f) THEN (CHOOSE e \in step : e[1] = f)[2] ELSE x

LastTouch(s, f) ==
  CHOOSE i \in DOMAIN s :
    Touches(s[i], f) /\ \A j \in DOMAIN s : j > i => ~Touches(s[j], f)

After(s, f, x) ==
  IF \E i \in DOMAIN s : Touches(s[i], f)
  THEN AfterStep(s[LastTouch(s, f)], f, x) ELSE x

\* What the rest of the call will leave field f at.
Outcome(f) ==
  After(todo.bw, f, After(todo.chnl, f, After(todo.band, f, regs[f])))

ChannelTarget(center) ==
  [fcArea |-> FcArea(center), agA |-> ModAg(center), agB |-> ModAg(center),
   chA |-> center, chB |-> center]

WidthTarget(center, width, sc80) ==
  [macBw |-> width, rfMod |-> width, bwA |-> RfBw(width), bwB |-> RfBw(width),
   l1Peak |-> L1Peak(width), dataSc |-> SecondaryChnl(width, sc80),
   adcClk |-> IF <<width, center>> \in Spur20 THEN 3 ELSE 2,
   adcBuf |-> IF width = 2 \/ (board.cCut /\ <<width, center>> \in Spurs)
              THEN 1 ELSE 0]

-----------------------------------------------------------------------------
ProgramTypeOK ==
  /\ todo \in [band : Seq(SUBSET BandEntries), chnl : Seq(SUBSET ChnlEntries),
               bw : Seq(SUBSET BwEntries), power : Seq({{}})]
  /\ call # None => call \in [by : {"hal", "mlme", "session"},
                              channel : Channels, width : Widths]
  /\ app.up => app.channel \in Channels /\ app.width \in Widths

\* From init_hw_mlme_ext on the caches mean something.
Begun == app.up \/ (call # None /\ call.by # "hal")

\* A part of the program that is left keeps its flag up. A channel is never
\* switched without setting the width.
Flags ==
  /\ drv.sw => drv.setBw
  /\ todo.band # <<>> => drv.setBw /\ (Begun => drv.sw)
  /\ IF call = None THEN todo = Idle
     ELSE (drv.sw <=> todo.chnl # <<>>) /\ (drv.setBw <=> todo.bw # <<>>)
  /\ drv.bwInit => drv.index = drv.chan
  /\ drv.bwInit <=> (app.up \/ call # None)
  /\ app.up /\ call # None => call.by = "session"

\* The caches are those of the call in hand, or of the last one.
CachesAre(channel, width) ==
  /\ drv.chan = CenterCh(channel, width) /\ drv.bw = width
  /\ drv.sc80 = Offset80(channel, width)

Caches ==
  /\ call # None /\ call.by # "hal" => CachesAre(call.channel, call.width)
  /\ call = None /\ last # None =>
       /\ app.up /\ ~drv.sw /\ ~drv.setBw
       /\ CachesAre(last[1], last[2])

\* The rest of the call will leave the radio as the caches say.
OnItsWay ==
  /\ call # None => Outcome("ccaOff") = FALSE
  /\ call # None /\ Begun =>
       /\ drv.chan # Forgotten =>
            /\ \A f \in ChannelFields : Outcome(f) = ChannelTarget(drv.chan)[f]
            /\ Outcome("cckCheck") = BandOf(drv.chan)
       /\ \A f \in WidthFields :
            Outcome(f) = WidthTarget(drv.chan, drv.bw, drv.sc80)[f]

\* What no flag marks is as the caches say.
UnflaggedIsSet ==
  /\ board.cCut \/ ~drv.setBw => ~regs.ccaOff
  /\ Begun =>
       /\ ~drv.sw /\ drv.chan # Forgotten =>
            /\ \A f \in ChannelFields : regs[f] = ChannelTarget(drv.chan)[f]
            /\ regs.cckCheck = BandOf(drv.chan)
       /\ ~drv.setBw => \A f \in WidthFields :
            regs[f] = WidthTarget(drv.chan, drv.bw, drv.sc80)[f]

\* A switch of bands that is not torn is whole, or will be.
BandIsWhole ==
  /\ ~torn => \A f \in FrontEnd : regs[f] = regs.cckCheck
  /\ todo.band # <<>> =>
       \E b \in Bands : \A f \in BandFields : After(todo.band, f, regs[f]) = b

RadioInv ==
  /\ RadioTypeOK /\ ProgramTypeOK /\ Flags /\ Caches
  /\ OnItsWay /\ UnflaggedIsSet /\ BandIsWhole

=============================================================================
