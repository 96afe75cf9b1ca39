------------------------ MODULE DetectorAndSettersProofs ------------------------
(***************************************************************************)
(* That no order of setters leaves a variable of the hier blocks behind    *)
(* (Reconfiguration) and, in the second half, the detector's invariants    *)
(* for every decimation and every window (PowerDetector).                  *)
(***************************************************************************)
EXTENDS PowerDetector, Reconfiguration, Basics, TLAPS

(* The attributes a new LoRaRx, its ChirpDetector and its blocks have.      *)
ParameterNames ==
  {"BW", "SF", "decimation", "detectionDecim", "detectorThreshold",
   "ignoreLowDataRateRequired", "lowDataRate", "samp_rate", "syncwordNumber"}
VariableNames ==
  {"OSF", "symbolSize", "DFTSize", "windowSize", "upchirp", "preambleNormalized",
   "preambleComplex", "maxFrameTime", "lowDataRateRequired", "chirpWindow", "det", "told"}
DetectorNames ==
  {"samp_rate", "BW", "SF", "DFTSize", "windowSize", "threshold", "timeout", "chirpRate",
   "chirpWindow"}
ToldNames == {"scale", "k", "SF"}

HasAttributes(c) ==
  /\ c = [f \in ParameterNames \union VariableNames |-> c[f]]
  /\ c.det = [f \in DetectorNames |-> c.det[f]]
  /\ c.told = [f \in ToldNames |-> c.told[f]]

(* Every attribute but the stale ones is what its formula gives.            *)
Fresh(c, stale) ==
  /\ HasAttributes(c)
  /\ "OSF" \in stale \/ c.OSF = OSFOf(c)
  /\ "symbolSize" \in stale \/ c.symbolSize = SymbolSizeOf(c)
  /\ "DFTSize" \in stale \/ c.DFTSize = DFTSizeOf(c)
  /\ "scale" \in stale \/ c.told.scale = DFTSizeOf(c)
  /\ "k" \in stale \/ c.told.k = c.decimation
  /\ "windowSize" \in stale \/ c.windowSize = WindowSizeOf(c)
  /\ "upchirp" \in stale \/ c.upchirp = <<c.SF, c.symbolSize>>
  /\ "preambleNormalized" \in stale \/ c.preambleNormalized = PreambleOf(c)
  /\ "preambleComplex" \in stale \/ c.preambleComplex = PreambleComplexOf(c)
  /\ "maxFrameTime" \in stale
       \/ (c.maxFrameTime = MaxFrameTimeOf(c) /\ c.det.timeout = MaxFrameTimeOf(c))
  /\ "chirpWindow" \in stale \/ c.chirpWindow = ChirpWindowOf(c)
  /\ "det.DFTSize" \in stale
       \/ (c.det.DFTSize = DFTSizeOf(c) /\ c.det.windowSize = DFTSizeOf(c))
  /\ "det.BW" \in stale \/ c.det.BW = c.BW
  /\ "det.SF" \in stale \/ c.det.SF = c.SF
  /\ c.det.threshold = c.detectorThreshold
  /\ c.det.samp_rate = built.samp_rate
  /\ c.det.chirpRate = ChirpRateOf(c.det)
  /\ c.det.chirpWindow = KernelOf(c.det)

SameParameters(c, d) ==
  /\ d.BW = c.BW
  /\ d.SF = c.SF
  /\ d.decimation = c.decimation
  /\ d.detectionDecim = c.detectionDecim
  /\ d.detectorThreshold = c.detectorThreshold
  /\ d.ignoreLowDataRateRequired = c.ignoreLowDataRateRequired
  /\ d.lowDataRate = c.lowDataRate
  /\ d.samp_rate = c.samp_rate
  /\ d.syncwordNumber = c.syncwordNumber


USE DEF Fresh, SameParameters, HasAttributes, ParameterNames, VariableNames, DetectorNames,
        ToldNames, OSFOf, SymbolSizeOf, DFTSizeOf, WindowSizeOf, PreambleOf,
        PreambleComplexOf, MaxFrameTimeOf, ChirpWindowOf, ChirpRateOf, KernelOf

(* What depends on the symbol size, directly or not.                       *)
OfSymbolSize ==
  {"DFTSize", "scale", "windowSize", "upchirp", "preambleNormalized", "preambleComplex",
   "chirpWindow", "det.DFTSize"}

(* Each setter freshens its variable, if what depends on it is stale, and  *)
(* leaves the parameters and the block's spreading factor alone.           *)
Freshens(c, d, stale, f) ==
  /\ Fresh(d, stale \ f)
  /\ SameParameters(c, d)
  /\ d.told.SF = c.told.SF
  /\ d.lowDataRateRequired = c.lowDataRateRequired

(* d differs from c in the attributes of F alone.                          *)
SameBut(c, d, F) ==
  /\ HasAttributes(d)
  /\ "BW" \in F \/ d.BW = c.BW
  /\ "SF" \in F \/ d.SF = c.SF
  /\ "decimation" \in F \/ d.decimation = c.decimation
  /\ "detectionDecim" \in F \/ d.detectionDecim = c.detectionDecim
  /\ "detectorThreshold" \in F \/ d.detectorThreshold = c.detectorThreshold
  /\ "ignoreLowDataRateRequired" \in F \/ d.ignoreLowDataRateRequired = c.ignoreLowDataRateRequired
  /\ "lowDataRate" \in F \/ d.lowDataRate = c.lowDataRate
  /\ "samp_rate" \in F \/ d.samp_rate = c.samp_rate
  /\ "syncwordNumber" \in F \/ d.syncwordNumber = c.syncwordNumber
  /\ "OSF" \in F \/ d.OSF = c.OSF
  /\ "symbolSize" \in F \/ d.symbolSize = c.symbolSize
  /\ "DFTSize" \in F \/ d.DFTSize = c.DFTSize
  /\ "windowSize" \in F \/ d.windowSize = c.windowSize
  /\ "upchirp" \in F \/ d.upchirp = c.upchirp
  /\ "preambleNormalized" \in F \/ d.preambleNormalized = c.preambleNormalized
  /\ "preambleComplex" \in F \/ d.preambleComplex = c.preambleComplex
  /\ "maxFrameTime" \in F \/ d.maxFrameTime = c.maxFrameTime
  /\ "lowDataRateRequired" \in F \/ d.lowDataRateRequired = c.lowDataRateRequired
  /\ "chirpWindow" \in F \/ d.chirpWindow = c.chirpWindow
  /\ "det" \in F \/ d.det = c.det
  /\ "told" \in F \/ d.told = c.told

LEMMA FreshMore ==
  ASSUME NEW c, NEW stale, NEW more, Fresh(c, stale), stale \subseteq more
  PROVE  Fresh(c, more)
OBVIOUS

LEMMA FreshensSymbolSize ==
  ASSUME NEW c, NEW stale, Fresh(c, stale), OfSymbolSize \subseteq stale
  PROVE  Freshens(c, [c EXCEPT !.symbolSize = SymbolSizeOf(c)], stale, {"symbolSize"})
<1> DEFINE d == [c EXCEPT !.symbolSize = SymbolSizeOf(c)]
<1>1. /\ SameBut(c, d, {"symbolSize"})
      /\ d.symbolSize = SymbolSizeOf(c)
  <2> HIDE DEF OSFOf, SymbolSizeOf, DFTSizeOf, WindowSizeOf, PreambleOf, PreambleComplexOf,
               MaxFrameTimeOf, ChirpWindowOf, ChirpRateOf, KernelOf
  <2> QED  BY DEF SameBut
<1> HIDE DEF d
<1>2. Freshens(c, d, stale, {"symbolSize"})
  <2>1. /\ "DFTSize" \in stale /\ "scale" \in stale /\ "windowSize" \in stale
        /\ "upchirp" \in stale /\ "preambleNormalized" \in stale
        /\ "preambleComplex" \in stale /\ "chirpWindow" \in stale
        /\ "det.DFTSize" \in stale
    BY DEF OfSymbolSize
  <2>2. /\ SymbolSizeOf(d) = SymbolSizeOf(c) /\ OSFOf(d) = OSFOf(c)
        /\ MaxFrameTimeOf(d) = MaxFrameTimeOf(c) /\ ChirpRateOf(d.det) = ChirpRateOf(c.det)
        /\ KernelOf(d.det) = KernelOf(c.det)
    BY <1>1 DEF SameBut
  <2> HIDE DEF OSFOf, SymbolSizeOf, DFTSizeOf, WindowSizeOf, PreambleOf, PreambleComplexOf,
               MaxFrameTimeOf, ChirpWindowOf, ChirpRateOf, KernelOf
  <2>3. Fresh(d, stale \ {"symbolSize"})
    BY <1>1, <2>1, <2>2 DEF SameBut
  <2> QED  BY <1>1, <2>3 DEF SameBut, Freshens
<1> QED  BY <1>2 DEF d

LEMMA FreshensOSF ==
  ASSUME NEW c, NEW stale, Fresh(c, stale), {"symbolSize", "preambleComplex"} \subseteq stale
  PROVE  Freshens(c, [c EXCEPT !.OSF = OSFOf(c)], stale, {"OSF"})
<1> DEFINE d == [c EXCEPT !.OSF = OSFOf(c)]
<1>1. /\ SameBut(c, d, {"OSF"})
      /\ d.OSF = OSFOf(c)
  <2> HIDE DEF OSFOf, SymbolSizeOf, DFTSizeOf, WindowSizeOf, PreambleOf, PreambleComplexOf,
               MaxFrameTimeOf, ChirpWindowOf, ChirpRateOf, KernelOf
  <2> QED  BY DEF SameBut
<1> HIDE DEF d
<1>2. Freshens(c, d, stale, {"OSF"})
  BY <1>1 DEF SameBut, Freshens
<1> QED  BY <1>2 DEF d

LEMMA FreshensChirpWindow ==
  ASSUME NEW c, NEW stale, Fresh(c, stale)
  PROVE  Freshens(c, SetChirpWindow(c), stale, {"chirpWindow"})
<1> DEFINE d == SetChirpWindow(c)
<1>1. /\ SameBut(c, d, {"chirpWindow"})
      /\ d.chirpWindow = ChirpWindowOf(c)
  <2> HIDE DEF OSFOf, SymbolSizeOf, DFTSizeOf, WindowSizeOf, PreambleOf, PreambleComplexOf,
               MaxFrameTimeOf, ChirpWindowOf, ChirpRateOf, KernelOf
  <2> QED  BY DEF SameBut, SetChirpWindow
<1> HIDE DEF d
<1>2. Freshens(c, d, stale, {"chirpWindow"})
  BY <1>1 DEF SameBut, Freshens
<1> QED  BY <1>2 DEF d

LEMMA FreshensPreambleComplex ==
  ASSUME NEW c, NEW stale, Fresh(c, stale)
  PROVE  Freshens(c, SetPreambleComplex(c), stale, {"preambleComplex"})
<1> DEFINE d == SetPreambleComplex(c)
<1>1. /\ SameBut(c, d, {"preambleComplex"})
      /\ d.preambleComplex = PreambleComplexOf(c)
  <2> HIDE DEF OSFOf, SymbolSizeOf, DFTSizeOf, WindowSizeOf, PreambleOf, PreambleComplexOf,
               MaxFrameTimeOf, ChirpWindowOf, ChirpRateOf, KernelOf
  <2> QED  BY DEF SameBut, SetPreambleComplex
<1> HIDE DEF d
<1>2. Freshens(c, d, stale, {"preambleComplex"})
  BY <1>1 DEF SameBut, Freshens
<1> QED  BY <1>2 DEF d

LEMMA FreshensPreambleNormalized ==
  ASSUME NEW c, NEW stale, Fresh(c, stale)
  PROVE  Freshens(c, SetPreambleNormalized(c), stale, {"preambleNormalized"})
<1> DEFINE d == SetPreambleNormalized(c)
<1>1. /\ SameBut(c, d, {"preambleNormalized"})
      /\ d.preambleNormalized = PreambleOf(c)
  <2> HIDE DEF OSFOf, SymbolSizeOf, DFTSizeOf, WindowSizeOf, PreambleOf, PreambleComplexOf,
               MaxFrameTimeOf, ChirpWindowOf, ChirpRateOf, KernelOf
  <2> QED  BY DEF SameBut, SetPreambleNormalized
<1> HIDE DEF d
<1>2. Freshens(c, d, stale, {"preambleNormalized"})
  BY <1>1 DEF SameBut, Freshens
<1> QED  BY <1>2 DEF d

LEMMA FreshensUpchirp ==
  ASSUME NEW c, NEW stale, Fresh(c, stale)
  PROVE  Freshens(c, SetUpchirp(c), stale, {"upchirp"})
<1> DEFINE d == SetUpchirp(c)
<1>1. /\ SameBut(c, d, {"upchirp"})
      /\ d.upchirp = <<c.SF, c.symbolSize>>
  <2> HIDE DEF OSFOf, SymbolSizeOf, DFTSizeOf, WindowSizeOf, PreambleOf, PreambleComplexOf,
               MaxFrameTimeOf, ChirpWindowOf, ChirpRateOf, KernelOf
  <2> QED  BY DEF SameBut, SetUpchirp
<1> HIDE DEF d
<1>2. Freshens(c, d, stale, {"upchirp"})
  BY <1>1 DEF SameBut, Freshens
<1> QED  BY <1>2 DEF d

LEMMA FreshensMaxFrameTime ==
  ASSUME NEW c, NEW stale, Fresh(c, stale)
  PROVE  Freshens(c, SetMaxFrameTime(c), stale, {"maxFrameTime"})
<1> DEFINE d == SetMaxFrameTime(c)
<1>1. /\ SameBut(c, d, {"maxFrameTime", "det"})
      /\ d.maxFrameTime = MaxFrameTimeOf(c)
      /\ d.det = [c.det EXCEPT !.timeout = MaxFrameTimeOf(c)]
  <2> HIDE DEF OSFOf, SymbolSizeOf, DFTSizeOf, WindowSizeOf, PreambleOf, PreambleComplexOf,
               MaxFrameTimeOf, ChirpWindowOf, ChirpRateOf, KernelOf
  <2> QED  BY DEF SameBut, SetMaxFrameTime
<1> HIDE DEF d
<1>2. Freshens(c, d, stale, {"maxFrameTime"})
  BY <1>1 DEF SameBut, Freshens
<1> QED  BY <1>2 DEF d

(* What a setter of the detector leaves.                                   *)
DetectorIs(e, g, F) ==
  /\ g = [f \in DetectorNames |-> g[f]]
  /\ g.samp_rate = e.samp_rate /\ g.threshold = e.threshold /\ g.timeout = e.timeout
  /\ "BW" \in F \/ g.BW = e.BW
  /\ "SF" \in F \/ g.SF = e.SF
  /\ "DFTSize" \in F \/ (g.DFTSize = e.DFTSize /\ g.windowSize = e.windowSize)
  /\ e.chirpRate = ChirpRateOf(e) => g.chirpRate = ChirpRateOf(g)
  /\ g.chirpWindow = KernelOf(g)

LEMMA DetectorDFTSize ==
  ASSUME NEW e, e = [f \in DetectorNames |-> e[f]], NEW n
  PROVE  LET g == DetSetDFTSize(e, n)
         IN  DetectorIs(e, g, {"DFTSize"}) /\ g.DFTSize = n /\ g.windowSize = n
<1> DEFINE f == DetSetChirpWindow([e EXCEPT !.DFTSize = n])
           g == DetSetWindowSize(f)
<1>1. DetectorIs(e, f, {"DFTSize"}) /\ f.DFTSize = n
  BY DEF DetectorIs, DetSetChirpWindow
<1> HIDE DEF f
<1>2. DetectorIs(e, g, {"DFTSize"}) /\ g.DFTSize = n /\ g.windowSize = n
  BY <1>1 DEF DetectorIs, DetSetWindowSize, DetSetChirpWindow
<1> QED  BY <1>2 DEF g, f, DetSetDFTSize

LEMMA DetectorBW ==
  ASSUME NEW e, e = [f \in DetectorNames |-> e[f]], NEW BW
  PROVE  LET g == DetSetBW(e, BW)
         IN  DetectorIs(e, g, {"BW"}) /\ g.BW = BW
BY DEF DetectorIs, DetSetBW, DetSetChirpRate, DetSetChirpWindow

LEMMA DetectorSF ==
  ASSUME NEW e, e = [f \in DetectorNames |-> e[f]], NEW SF
  PROVE  LET g == DetSetSF(e, SF)
         IN  DetectorIs(e, g, {"SF"}) /\ g.SF = SF
BY DEF DetectorIs, DetSetSF, DetSetChirpRate, DetSetChirpWindow

LEMMA FreshensDetDFTSize ==
  ASSUME NEW c, NEW stale, Fresh(c, stale)
  PROVE  Freshens(c, SetDetDFTSize(c), stale, {"det.DFTSize"})
<1> DEFINE e == DetSetDFTSize(c.det, c.symbolSize * c.decimation)
           d == [c EXCEPT !.det = e]
<1>1. DetectorIs(c.det, e, {"DFTSize"}) /\ e.DFTSize = DFTSizeOf(c) /\ e.windowSize = DFTSizeOf(c)
  BY DetectorDFTSize
<1> HIDE DEF e
<1>2. SameBut(c, d, {"det"}) /\ d.det = e
  BY <1>1 DEF SameBut, DetectorIs
<1> HIDE DEF d
<1>3. Freshens(c, d, stale, {"det.DFTSize"})
  BY <1>1, <1>2 DEF SameBut, DetectorIs, Freshens
<1> QED  BY <1>3 DEF d, e, SetDetDFTSize

LEMMA FreshensDetBW ==
  ASSUME NEW c, NEW stale, Fresh(c, stale)
  PROVE  Freshens(c, [c EXCEPT !.det = DetSetBW(c.det, c.BW)], stale, {"det.BW"})
<1> DEFINE e == DetSetBW(c.det, c.BW)
           d == [c EXCEPT !.det = e]
<1>1. DetectorIs(c.det, e, {"BW"}) /\ e.BW = c.BW
  BY DetectorBW
<1> HIDE DEF e
<1>2. SameBut(c, d, {"det"}) /\ d.det = e
  BY <1>1 DEF SameBut, DetectorIs
<1> HIDE DEF d
<1>3. Freshens(c, d, stale, {"det.BW"})
  BY <1>1, <1>2 DEF SameBut, DetectorIs, Freshens
<1> QED  BY <1>3 DEF d, e

LEMMA FreshensDetSF ==
  ASSUME NEW c, NEW stale, Fresh(c, stale)
  PROVE  Freshens(c, [c EXCEPT !.det = DetSetSF(c.det, c.SF)], stale, {"det.SF"})
<1> DEFINE e == DetSetSF(c.det, c.SF)
           d == [c EXCEPT !.det = e]
<1>1. DetectorIs(c.det, e, {"SF"}) /\ e.SF = c.SF
  BY DetectorSF
<1> HIDE DEF e
<1>2. SameBut(c, d, {"det"}) /\ d.det = e
  BY <1>1 DEF SameBut, DetectorIs
<1> HIDE DEF d
<1>3. Freshens(c, d, stale, {"det.SF"})
  BY <1>1, <1>2 DEF SameBut, DetectorIs, Freshens
<1> QED  BY <1>3 DEF d, e

LEMMA FreshensLowDataRateRequired ==
  ASSUME NEW c, NEW stale, Fresh(c, stale)
  PROVE  /\ Fresh(SetLowDataRateRequired(c), stale)
         /\ SameParameters(c, SetLowDataRateRequired(c))
         /\ SetLowDataRateRequired(c).told.SF = c.told.SF
         /\ SetLowDataRateRequired(c).lowDataRateRequired = LowDataRateRequiredOf(c)
<1> DEFINE d == SetLowDataRateRequired(c)
<1>1. /\ SameBut(c, d, {"lowDataRateRequired"})
      /\ d.lowDataRateRequired = LowDataRateRequiredOf(c)
  BY DEF SameBut, SetLowDataRateRequired
<1> HIDE DEF d
<1>2. Fresh(d, stale) /\ SameParameters(c, d) /\ d.told.SF = c.told.SF
  BY <1>1 DEF SameBut
<1> QED  BY <1>1, <1>2 DEF d

LEMMA FreshensWindowSize ==
  ASSUME NEW c, NEW stale, Fresh(c, stale)
  PROVE  Freshens(c, SetWindowSize(c), stale, {"windowSize", "chirpWindow"})
<1> DEFINE d == SetWindowSize(c)
<1>1. /\ SameBut(c, d, {"windowSize", "chirpWindow"})
      /\ d.windowSize = WindowSizeOf(c) /\ d.chirpWindow = ChirpWindowOf(d)
  <2> DEFINE e == [c EXCEPT !.windowSize = WindowSizeOf(c)]
  <2> HIDE DEF WindowSizeOf
  <2>1. SameBut(c, e, {"windowSize"}) /\ e.windowSize = WindowSizeOf(c)
    BY DEF SameBut
  <2>2. d = [e EXCEPT !.chirpWindow = ChirpWindowOf(e)]
    BY DEF SetWindowSize, SetChirpWindow
  <2> HIDE DEF d, e
  <2> QED  BY <2>1, <2>2 DEF SameBut
<1> HIDE DEF d
<1>2. Freshens(c, d, stale, {"windowSize", "chirpWindow"})
  BY <1>1 DEF SameBut, Freshens
<1> QED  BY <1>2 DEF d

LEMMA FreshensDFTSize ==
  ASSUME NEW c, NEW stale, Fresh(c, stale)
  PROVE  Freshens(c, SetDFTSize(c), stale, {"DFTSize", "scale", "chirpWindow"})
<1> DEFINE d == SetDFTSize(c)
<1>1. /\ SameBut(c, d, {"DFTSize", "chirpWindow", "told"})
      /\ d.told = [c.told EXCEPT !.scale = DFTSizeOf(c)]
      /\ d.DFTSize = DFTSizeOf(c) /\ d.chirpWindow = ChirpWindowOf(d)
  <2> DEFINE e == [c EXCEPT !.DFTSize = DFTSizeOf(c), !.told.scale = DFTSizeOf(c)]
  <2> HIDE DEF DFTSizeOf
  <2>1. /\ SameBut(c, e, {"DFTSize", "told"}) /\ e.DFTSize = DFTSizeOf(c)
        /\ e.told = [c.told EXCEPT !.scale = DFTSizeOf(c)]
    BY DEF SameBut
  <2>2. d = [e EXCEPT !.chirpWindow = ChirpWindowOf(e)]
    BY DEF SetDFTSize, SetChirpWindow
  <2> HIDE DEF d, e
  <2> QED  BY <2>1, <2>2 DEF SameBut
<1> HIDE DEF d
<1>2. Freshens(c, d, stale, {"DFTSize", "scale", "chirpWindow"})
  BY <1>1 DEF SameBut, Freshens
<1> QED  BY <1>2 DEF d


HIDE DEF Fresh, SameParameters, HasAttributes, ParameterNames, VariableNames, DetectorNames,
         ToldNames, OSFOf, SymbolSizeOf, DFTSizeOf, WindowSizeOf, PreambleOf,
         PreambleComplexOf, MaxFrameTimeOf, ChirpWindowOf, ChirpRateOf, KernelOf

(* One setter after another.                                               *)
LEMMA FreshensBoth ==
  ASSUME NEW c, NEW d, NEW e, NEW stale, NEW F, NEW G,
         Freshens(c, d, stale, F), Freshens(d, e, stale \ F, G)
  PROVE  Freshens(c, e, stale, F \union G)
<1>1. (stale \ F) \ G = stale \ (F \union G)
  OBVIOUS
<1>2. SameParameters(c, e)
  BY DEF Freshens, SameParameters
<1>3. Fresh(e, (stale \ F) \ G)
  BY DEF Freshens
<1> QED  BY <1>1, <1>2, <1>3 DEF Freshens

(* set_symbolSize freshens all that depends on the size, and so do the     *)
(* setters that end in it.                                                 *)
OfSize == {"symbolSize"} \union OfSymbolSize

LEMMA FreshensAllOfSize ==
  ASSUME NEW c, NEW stale, Fresh(c, stale), OfSymbolSize \subseteq stale
  PROVE  Freshens(c, SetSymbolSize(c), stale, OfSize)
<1> DEFINE c1 == [c EXCEPT !.symbolSize = SymbolSizeOf(c)]
           c2 == SetDFTSize(c1)
           c3 == SetChirpWindow(c2)
           c4 == SetPreambleComplex(c3)
           c5 == SetPreambleNormalized(c4)
           c6 == SetUpchirp(c5)
           c7 == SetWindowSize(c6)
           c8 == SetDetDFTSize(c7)
<1>1. SetSymbolSize(c) = c8
  BY DEF SetSymbolSize
<1> HIDE DEF c1, c2, c3, c4, c5, c6, c7, c8
<1>2. Freshens(c, c1, stale, {"symbolSize"})
  BY FreshensSymbolSize DEF c1
<1>3. Freshens(c1, c2, stale \ {"symbolSize"}, {"DFTSize", "scale", "chirpWindow"})
  BY <1>2, FreshensDFTSize DEF Freshens, c2
<1> DEFINE s2 == (stale \ {"symbolSize"}) \ {"DFTSize", "scale", "chirpWindow"}
<1>4. Freshens(c2, c3, s2, {"chirpWindow"})
  BY <1>3, FreshensChirpWindow DEF Freshens, c3
<1> DEFINE s3 == s2 \ {"chirpWindow"}
<1>5. Freshens(c3, c4, s3, {"preambleComplex"})
  BY <1>4, FreshensPreambleComplex DEF Freshens, c4
<1> DEFINE s4 == s3 \ {"preambleComplex"}
<1>6. Freshens(c4, c5, s4, {"preambleNormalized"})
  BY <1>5, FreshensPreambleNormalized DEF Freshens, c5
<1> DEFINE s5 == s4 \ {"preambleNormalized"}
<1>7. Freshens(c5, c6, s5, {"upchirp"})
  BY <1>6, FreshensUpchirp DEF Freshens, c6
<1> DEFINE s6 == s5 \ {"upchirp"}
<1>8. Freshens(c6, c7, s6, {"windowSize", "chirpWindow"})
  BY <1>7, FreshensWindowSize DEF Freshens, c7
<1> DEFINE s7 == s6 \ {"windowSize", "chirpWindow"}
<1>9. Freshens(c7, c8, s7, {"det.DFTSize"})
  BY <1>8, FreshensDetDFTSize DEF Freshens, c8
<1>10. s7 \ {"det.DFTSize"} = stale \ OfSize
  BY DEF OfSize, OfSymbolSize
<1>11. Fresh(c8, stale \ OfSize)
  BY <1>9, <1>10 DEF Freshens
<1> HIDE DEF s2, s3, s4, s5, s6, s7
<1>12. SameParameters(c, c8)
  BY <1>2, <1>3, <1>4, <1>5, <1>6, <1>7, <1>8, <1>9 DEF Freshens, SameParameters
<1> QED  BY <1>1, <1>2, <1>3, <1>4, <1>5, <1>6, <1>7, <1>8, <1>9, <1>11, <1>12 DEF Freshens

LEMMA FreshensAllOfOSF ==
  ASSUME NEW c, NEW stale, Fresh(c, stale), OfSize \subseteq stale
  PROVE  Freshens(c, SetOSF(c), stale, {"OSF"} \union OfSize)
<1> DEFINE c1 == [c EXCEPT !.OSF = OSFOf(c)]
           c2 == SetPreambleComplex(c1)
           c3 == SetSymbolSize(c2)
<1>1. SetOSF(c) = c3
  BY DEF SetOSF
<1> HIDE DEF c1, c2, c3
<1>2. Freshens(c, c1, stale, {"OSF"})
  <2>1. {"symbolSize", "preambleComplex"} \subseteq stale
    BY DEF OfSize, OfSymbolSize
  <2> QED  BY <2>1, FreshensOSF DEF c1
<1>3. Freshens(c1, c2, stale \ {"OSF"}, {"preambleComplex"})
  BY <1>2, FreshensPreambleComplex DEF Freshens, c2
<1>4. Fresh(c2, stale \ {"OSF"})
  <2>1. Fresh(c2, (stale \ {"OSF"}) \ {"preambleComplex"})
    BY <1>3 DEF Freshens
  <2>2. (stale \ {"OSF"}) \ {"preambleComplex"} \subseteq stale \ {"OSF"}
    OBVIOUS
  <2> QED  BY <2>1, <2>2, FreshMore
<1>5. Freshens(c2, c3, stale \ {"OSF"}, OfSize)
  <2>1. OfSymbolSize \subseteq stale \ {"OSF"}
    BY DEF OfSize, OfSymbolSize
  <2> QED  BY <1>4, <2>1, FreshensAllOfSize DEF c3
<1>6. Freshens(c1, c2, stale \ {"OSF"}, {})
  BY <1>3, <1>4 DEF Freshens
<1>7. Freshens(c, c2, stale, {"OSF"})
  <2>1. Freshens(c, c2, stale, {"OSF"} \union {})
    BY <1>2, <1>6, FreshensBoth
  <2>2. {"OSF"} \union {} = {"OSF"}
    OBVIOUS
  <2> QED  BY <2>1, <2>2
<1> QED  BY <1>1, <1>5, <1>7, FreshensBoth
-----------------------------------------------------------------------------
(* Each setter of a parameter leaves nothing stale.                        *)
Current(c) == Fresh(c, {}) /\ c.lowDataRateRequired = LowDataRateRequiredOf(c)

LEMMA FlagOfParameters ==
  ASSUME NEW c, NEW d, SameParameters(c, d)
  PROVE  LowDataRateRequiredOf(d) = LowDataRateRequiredOf(c)
BY DEF SameParameters, LowDataRateRequiredOf

OfBW == {"OSF", "maxFrameTime", "det.BW"} \union OfSize

LEMMA StaleBW ==
  ASSUME NEW c, Fresh(c, {}), NEW BW
  PROVE  LET d == [c EXCEPT !.BW = BW] IN Fresh(d, OfBW) /\ d.told.SF = c.told.SF
<1> DEFINE d == [c EXCEPT !.BW = BW]
<1>1. SameBut(c, d, {"BW"})
  BY DEF SameBut, Fresh, HasAttributes, ParameterNames, VariableNames
<1> HIDE DEF d
<1>2. Fresh(d, OfBW) /\ d.told.SF = c.told.SF
  BY <1>1 DEF SameBut, Fresh, OfBW, OfSize, OfSymbolSize, OSFOf, SymbolSizeOf, DFTSizeOf,
              WindowSizeOf, PreambleOf, PreambleComplexOf, MaxFrameTimeOf, ChirpWindowOf
<1> QED  BY <1>2 DEF d

OfSF == {"maxFrameTime", "det.SF"} \union OfSize

LEMMA StaleSF ==
  ASSUME NEW c, Fresh(c, {}), NEW SF
  PROVE  LET d == [c EXCEPT !.SF = SF] IN Fresh(d, OfSF)
<1> DEFINE d == [c EXCEPT !.SF = SF]
<1>1. SameBut(c, d, {"SF"})
  BY DEF SameBut, Fresh, HasAttributes, ParameterNames, VariableNames
<1> HIDE DEF d
<1>2. Fresh(d, OfSF)
  BY <1>1 DEF SameBut, Fresh, OfSF, OfSize, OfSymbolSize, OSFOf, SymbolSizeOf, DFTSizeOf,
              WindowSizeOf, PreambleOf, PreambleComplexOf, MaxFrameTimeOf, ChirpWindowOf
<1> QED  BY <1>2 DEF d

LEMMA StaleDecimation ==
  ASSUME NEW c, Fresh(c, {}), NEW dec
  PROVE  LET d == [c EXCEPT !.decimation = dec]
         IN  Fresh(d, {"k"} \union OfSize) /\ d.told.SF = c.told.SF
<1> DEFINE d == [c EXCEPT !.decimation = dec]
<1>1. SameBut(c, d, {"decimation"})
  BY DEF SameBut, Fresh, HasAttributes, ParameterNames, VariableNames
<1> HIDE DEF d
<1>2. Fresh(d, {"k"} \union OfSize) /\ d.told.SF = c.told.SF
  BY <1>1 DEF SameBut, Fresh, OfSize, OfSymbolSize, OSFOf, SymbolSizeOf, DFTSizeOf,
              WindowSizeOf, PreambleOf, PreambleComplexOf, MaxFrameTimeOf, ChirpWindowOf
<1> QED  BY <1>2 DEF d

LEMMA StaleSampRate ==
  ASSUME NEW c, Fresh(c, {}), NEW samp_rate
  PROVE  LET d == [c EXCEPT !.samp_rate = samp_rate]
         IN  Fresh(d, {"OSF"} \union OfSize) /\ d.told.SF = c.told.SF
<1> DEFINE d == [c EXCEPT !.samp_rate = samp_rate]
<1>1. SameBut(c, d, {"samp_rate"})
  BY DEF SameBut, Fresh, HasAttributes, ParameterNames, VariableNames
<1> HIDE DEF d
<1>2. Fresh(d, {"OSF"} \union OfSize) /\ d.told.SF = c.told.SF
  BY <1>1 DEF SameBut, Fresh, OfSize, OfSymbolSize, OSFOf, SymbolSizeOf, DFTSizeOf,
              WindowSizeOf, PreambleOf, PreambleComplexOf, MaxFrameTimeOf, ChirpWindowOf
<1> QED  BY <1>2 DEF d

LEMMA StaleSyncword ==
  ASSUME NEW c, Fresh(c, {}), NEW n
  PROVE  LET d == [c EXCEPT !.syncwordNumber = n]
         IN  Fresh(d, {"preambleNormalized", "preambleComplex"}) /\ d.told.SF = c.told.SF
<1> DEFINE d == [c EXCEPT !.syncwordNumber = n]
<1>1. SameBut(c, d, {"syncwordNumber"})
  BY DEF SameBut, Fresh, HasAttributes, ParameterNames, VariableNames
<1> HIDE DEF d
<1>2. Fresh(d, {"preambleNormalized", "preambleComplex"}) /\ d.told.SF = c.told.SF
  BY <1>1 DEF SameBut, Fresh, OSFOf, SymbolSizeOf, DFTSizeOf,
              WindowSizeOf, PreambleOf, PreambleComplexOf, MaxFrameTimeOf, ChirpWindowOf
<1> QED  BY <1>2 DEF d

LEMMA RxBWCurrent ==
  ASSUME NEW c, Current(c), NEW BW
  PROVE  /\ Current(RxBW(c, BW)) /\ SameParameters([c EXCEPT !.BW = BW], RxBW(c, BW))
         /\ RxBW(c, BW).told.SF = c.told.SF
<1> DEFINE c0 == [c EXCEPT !.BW = BW]
           c1 == SetOSF(c0)
           c2 == SetLowDataRateRequired(c1)
           c3 == SetMaxFrameTime(c2)
           d  == [c3 EXCEPT !.det = DetSetBW(c3.det, c3.BW)]
<1>1. Fresh(c0, OfBW) /\ c0.told.SF = c.told.SF /\ c0.BW = BW
  <2>1. c0.BW = BW
    BY DEF Current, Fresh, HasAttributes, ParameterNames
  <2> HIDE DEF c0
  <2> QED  BY <2>1, StaleBW DEF Current, c0
<1> HIDE DEF c0, c1, c2, c3, d
<1>2. Freshens(c0, c1, OfBW, {"OSF"} \union OfSize)
  <2>1. OfSize \subseteq OfBW
    BY DEF OfBW
  <2> QED  BY <1>1, <2>1, FreshensAllOfOSF DEF c1
<1>3. Fresh(c1, {"maxFrameTime", "det.BW"})
  <2>1. OfBW \ ({"OSF"} \union OfSize) \subseteq {"maxFrameTime", "det.BW"}
    BY DEF OfBW
  <2> QED  BY <1>2, <2>1, FreshMore DEF Freshens
<1>4. /\ Fresh(c2, {"maxFrameTime", "det.BW"}) /\ SameParameters(c1, c2)
      /\ c2.told.SF = c1.told.SF /\ c2.lowDataRateRequired = LowDataRateRequiredOf(c1)
  BY <1>3, FreshensLowDataRateRequired DEF c2
<1>5. Freshens(c2, c3, {"maxFrameTime", "det.BW"}, {"maxFrameTime"})
  BY <1>4, FreshensMaxFrameTime DEF c3
<1>6. Fresh(c3, {"det.BW"})
  <2>1. {"maxFrameTime", "det.BW"} \ {"maxFrameTime"} = {"det.BW"}
    OBVIOUS
  <2> QED  BY <1>5, <2>1 DEF Freshens
<1>7. Freshens(c3, d, {"det.BW"}, {"det.BW"})
  BY <1>6, FreshensDetBW DEF d
<1>8. Fresh(d, {})
  <2>1. {"det.BW"} \ {"det.BW"} = {}
    OBVIOUS
  <2> QED  BY <1>7, <2>1 DEF Freshens
<1>9. SameParameters(c0, d) /\ SameParameters(c1, d) /\ c3.BW = BW
  BY <1>1, <1>2, <1>4, <1>5, <1>7 DEF Freshens, SameParameters
<1>10. Current(d)
  <2>1. d.lowDataRateRequired = LowDataRateRequiredOf(c1)
    BY <1>4, <1>5, <1>7 DEF Freshens
  <2>2. LowDataRateRequiredOf(d) = LowDataRateRequiredOf(c1)
    BY <1>9, FlagOfParameters
  <2> QED  BY <1>8, <2>1, <2>2, Zenon DEF Current
<1>11. d.told.SF = c.told.SF
  BY <1>1, <1>2, <1>4, <1>5, <1>7 DEF Freshens
<1>12. RxBW(c, BW) = d
  BY <1>9 DEF RxBW, d, c3, c2, c1, c0
<1> QED  BY <1>9, <1>10, <1>11, <1>12 DEF c0

LEMMA RxSFCurrent ==
  ASSUME NEW c, Current(c), NEW SF
  PROVE  /\ Current(RxSF(c, SF)) /\ SameParameters([c EXCEPT !.SF = SF], RxSF(c, SF))
         /\ RxSF(c, SF).told.SF = SF
<1> DEFINE c0 == [c EXCEPT !.SF = SF]
           c1 == SetChirpWindow(c0)
           c2 == SetLowDataRateRequired(c1)
           c3 == SetMaxFrameTime(c2)
           c4 == SetPreambleComplex(c3)
           c5 == SetPreambleNormalized(c4)
           c6 == SetSymbolSize(c5)
           c7 == SetUpchirp(c6)
           c8 == [c7 EXCEPT !.det = DetSetSF(c7.det, c7.SF)]
           d  == [c8 EXCEPT !.told.SF = SF]
           s4 == {"det.SF"} \union OfSize
<1>1. Fresh(c0, OfSF) /\ c0.SF = SF
  <2>1. c0.SF = SF
    BY DEF Current, Fresh, HasAttributes, ParameterNames
  <2> HIDE DEF c0
  <2> QED  BY <2>1, StaleSF DEF Current, c0
<1> HIDE DEF c0, c1, c2, c3, c4, c5, c6, c7, c8, d, s4
<1>2. Freshens(c0, c1, OfSF, {"chirpWindow"})
  BY <1>1, FreshensChirpWindow DEF c1
<1>3. Fresh(c1, OfSF)
  <2>1. OfSF \ {"chirpWindow"} \subseteq OfSF
    OBVIOUS
  <2> QED  BY <1>2, <2>1, FreshMore DEF Freshens
<1>4. /\ Fresh(c2, OfSF) /\ SameParameters(c1, c2)
      /\ c2.lowDataRateRequired = LowDataRateRequiredOf(c1)
  BY <1>3, FreshensLowDataRateRequired DEF c2
<1>5. Freshens(c2, c3, OfSF, {"maxFrameTime"})
  BY <1>4, FreshensMaxFrameTime DEF c3
<1>6. Fresh(c3, s4)
  <2>1. OfSF \ {"maxFrameTime"} \subseteq s4
    BY DEF OfSF, s4
  <2> QED  BY <1>5, <2>1, FreshMore DEF Freshens
<1>7. Freshens(c3, c4, s4, {"preambleComplex"})
  BY <1>6, FreshensPreambleComplex DEF c4
<1>8. Fresh(c4, s4)
  <2>1. s4 \ {"preambleComplex"} \subseteq s4
    OBVIOUS
  <2> QED  BY <1>7, <2>1, FreshMore DEF Freshens
<1>9. Freshens(c4, c5, s4, {"preambleNormalized"})
  BY <1>8, FreshensPreambleNormalized DEF c5
<1>10. Fresh(c5, s4)
  <2>1. s4 \ {"preambleNormalized"} \subseteq s4
    OBVIOUS
  <2> QED  BY <1>9, <2>1, FreshMore DEF Freshens
<1>11. Freshens(c5, c6, s4, OfSize)
  <2>1. OfSymbolSize \subseteq s4
    BY DEF OfSize, s4
  <2> QED  BY <1>10, <2>1, FreshensAllOfSize DEF c6
<1>12. Fresh(c6, {"det.SF"})
  <2>1. s4 \ OfSize \subseteq {"det.SF"}
    BY DEF s4
  <2> QED  BY <1>11, <2>1, FreshMore DEF Freshens
<1>13. Freshens(c6, c7, {"det.SF"}, {"upchirp"})
  BY <1>12, FreshensUpchirp DEF c7
<1>14. Fresh(c7, {"det.SF"})
  <2>1. {"det.SF"} \ {"upchirp"} \subseteq {"det.SF"}
    OBVIOUS
  <2> QED  BY <1>13, <2>1, FreshMore DEF Freshens
<1>15. Freshens(c7, c8, {"det.SF"}, {"det.SF"})
  BY <1>14, FreshensDetSF DEF c8
<1>16. Fresh(c8, {})
  <2>1. {"det.SF"} \ {"det.SF"} = {}
    OBVIOUS
  <2> QED  BY <1>15, <2>1 DEF Freshens
<1>17. SameParameters(c0, c8) /\ SameParameters(c1, c8) /\ c7.SF = SF
  BY <1>1, <1>2, <1>4, <1>5, <1>7, <1>9, <1>11, <1>13, <1>15 DEF Freshens, SameParameters
<1>18. c8.lowDataRateRequired = LowDataRateRequiredOf(c8)
  <2>1. c8.lowDataRateRequired = LowDataRateRequiredOf(c1)
    BY <1>4, <1>5, <1>7, <1>9, <1>11, <1>13, <1>15 DEF Freshens
  <2>2. LowDataRateRequiredOf(c8) = LowDataRateRequiredOf(c1)
    BY <1>17, FlagOfParameters
  <2> QED  BY <2>1, <2>2
<1>19. Fresh(d, {}) /\ SameParameters(c8, d) /\ d.told.SF = SF
       /\ d.lowDataRateRequired = c8.lowDataRateRequired
  <2>1. SameBut(c8, d, {"told"}) /\ d.told = [c8.told EXCEPT !.SF = SF]
    BY <1>16 DEF SameBut, Fresh, HasAttributes, ParameterNames, VariableNames, ToldNames, d
  <2>2. d.told.SF = SF /\ d.told.scale = c8.told.scale /\ d.told.k = c8.told.k
    BY <1>16, <2>1 DEF Fresh, HasAttributes, ToldNames
  <2> QED  BY <1>16, <2>1, <2>2 DEF SameBut, Fresh, SameParameters, OSFOf, SymbolSizeOf,
              DFTSizeOf, WindowSizeOf, PreambleOf, PreambleComplexOf, MaxFrameTimeOf,
              ChirpWindowOf
<1>20. Current(d)
  <2>1. LowDataRateRequiredOf(d) = LowDataRateRequiredOf(c8)
    BY <1>19, FlagOfParameters
  <2> QED  BY <1>18, <1>19, <2>1 DEF Current
<1>21. SameParameters(c0, d)
  BY <1>17, <1>19 DEF SameParameters
<1>22. RxSF(c, SF) = d
  BY <1>17 DEF RxSF, d, c8, c7, c6, c5, c4, c3, c2, c1, c0
<1> QED  BY <1>19, <1>20, <1>21, <1>22 DEF c0

LEMMA RxDecimationCurrent ==
  ASSUME NEW c, Current(c), NEW dec
  PROVE  /\ Current(RxDecimation(c, dec))
         /\ SameParameters([c EXCEPT !.decimation = dec], RxDecimation(c, dec))
         /\ RxDecimation(c, dec).told.SF = c.told.SF
<1> DEFINE c0 == [c EXCEPT !.decimation = dec]
           c1 == SetDFTSize(c0)
           c2 == SetChirpWindow(c1)
           c3 == SetPreambleComplex(c2)
           c4 == SetSymbolSize(c3)
           c5 == SetWindowSize(c4)
           c6 == SetDetDFTSize(c5)
           d  == [c6 EXCEPT !.told.k = dec]
           s0 == {"k"} \union OfSize
<1>1. /\ Fresh(c0, s0) /\ c0.told.SF = c.told.SF /\ c0.decimation = dec
      /\ c0.lowDataRateRequired = c.lowDataRateRequired
  <2>1. c0.decimation = dec /\ c0.lowDataRateRequired = c.lowDataRateRequired
    BY DEF Current, Fresh, HasAttributes, ParameterNames, VariableNames
  <2> HIDE DEF c0
  <2> QED  BY <2>1, StaleDecimation DEF Current, c0
<1> HIDE DEF c0, c1, c2, c3, c4, c5, c6, d, s0
<1>2. Freshens(c0, c1, s0, {"DFTSize", "scale", "chirpWindow"})
  BY <1>1, FreshensDFTSize DEF c1
<1>3. Fresh(c1, s0)
  <2>1. s0 \ {"DFTSize", "scale", "chirpWindow"} \subseteq s0
    OBVIOUS
  <2> QED  BY <1>2, <2>1, FreshMore DEF Freshens
<1>4. Freshens(c1, c2, s0, {"chirpWindow"})
  BY <1>3, FreshensChirpWindow DEF c2
<1>5. Fresh(c2, s0)
  <2>1. s0 \ {"chirpWindow"} \subseteq s0
    OBVIOUS
  <2> QED  BY <1>4, <2>1, FreshMore DEF Freshens
<1>6. Freshens(c2, c3, s0, {"preambleComplex"})
  BY <1>5, FreshensPreambleComplex DEF c3
<1>7. Fresh(c3, s0)
  <2>1. s0 \ {"preambleComplex"} \subseteq s0
    OBVIOUS
  <2> QED  BY <1>6, <2>1, FreshMore DEF Freshens
<1>8. Freshens(c3, c4, s0, OfSize)
  <2>1. OfSymbolSize \subseteq s0
    BY DEF OfSize, s0
  <2> QED  BY <1>7, <2>1, FreshensAllOfSize DEF c4
<1>9. Fresh(c4, {"k"})
  <2>1. s0 \ OfSize \subseteq {"k"}
    BY DEF s0
  <2> QED  BY <1>8, <2>1, FreshMore DEF Freshens
<1>10. Freshens(c4, c5, {"k"}, {"windowSize", "chirpWindow"})
  BY <1>9, FreshensWindowSize DEF c5
<1>11. Fresh(c5, {"k"})
  <2>1. {"k"} \ {"windowSize", "chirpWindow"} \subseteq {"k"}
    OBVIOUS
  <2> QED  BY <1>10, <2>1, FreshMore DEF Freshens
<1>12. Freshens(c5, c6, {"k"}, {"det.DFTSize"})
  BY <1>11, FreshensDetDFTSize DEF c6
<1>13. Fresh(c6, {"k"})
  <2>1. {"k"} \ {"det.DFTSize"} \subseteq {"k"}
    OBVIOUS
  <2> QED  BY <1>12, <2>1, FreshMore DEF Freshens
<1>14. /\ SameParameters(c0, c6) /\ c6.told.SF = c.told.SF
       /\ c6.lowDataRateRequired = c.lowDataRateRequired
  BY <1>1, <1>2, <1>4, <1>6, <1>8, <1>10, <1>12 DEF Freshens, SameParameters
<1>15. /\ Fresh(d, {}) /\ SameParameters(c6, d) /\ d.told.SF = c6.told.SF
       /\ d.lowDataRateRequired = c6.lowDataRateRequired
  <2>1. SameBut(c6, d, {"told"}) /\ d.told = [c6.told EXCEPT !.k = dec]
    BY <1>13 DEF SameBut, Fresh, HasAttributes, ParameterNames, VariableNames, ToldNames, d
  <2>2. d.told.SF = c6.told.SF /\ d.told.scale = c6.told.scale /\ d.told.k = dec
    BY <1>13, <2>1 DEF Fresh, HasAttributes, ToldNames
  <2>3. dec = c6.decimation
    BY <1>1, <1>14 DEF SameParameters
  <2> QED  BY <1>13, <2>1, <2>2, <2>3 DEF SameBut, Fresh, SameParameters, OSFOf, SymbolSizeOf,
              DFTSizeOf, WindowSizeOf, PreambleOf, PreambleComplexOf, MaxFrameTimeOf,
              ChirpWindowOf
<1>16. SameParameters(c0, d)
  BY <1>14, <1>15 DEF SameParameters
<1>17. Current(d)
  <2>1. LowDataRateRequiredOf(d) = LowDataRateRequiredOf(c0)
    BY <1>16, FlagOfParameters
  <2>2. LowDataRateRequiredOf(c0) = LowDataRateRequiredOf(c)
    <3>1. c0.BW = c.BW /\ c0.SF = c.SF
          /\ c0.ignoreLowDataRateRequired = c.ignoreLowDataRateRequired
      BY DEF Current, Fresh, HasAttributes, ParameterNames, c0
    <3> QED  BY <3>1 DEF LowDataRateRequiredOf
  <2> QED  BY <1>14, <1>15, <2>1, <2>2, Zenon DEF Current
<1>18. RxDecimation(c, dec) = d
  BY DEF RxDecimation, d, c6, c5, c4, c3, c2, c1, c0
<1> QED  BY <1>14, <1>15, <1>16, <1>17, <1>18 DEF c0

LEMMA RxSampRateCurrent ==
  ASSUME NEW c, Current(c), NEW samp_rate
  PROVE  /\ Current(RxSampRate(c, samp_rate))
         /\ SameParameters([c EXCEPT !.samp_rate = samp_rate], RxSampRate(c, samp_rate))
         /\ RxSampRate(c, samp_rate).told.SF = c.told.SF
<1> DEFINE c0 == [c EXCEPT !.samp_rate = samp_rate]
           d  == SetOSF(c0)
           s0 == {"OSF"} \union OfSize
<1>1. /\ Fresh(c0, s0) /\ c0.told.SF = c.told.SF
      /\ c0.lowDataRateRequired = c.lowDataRateRequired
  <2>1. c0.lowDataRateRequired = c.lowDataRateRequired
    BY DEF Current, Fresh, HasAttributes, ParameterNames, VariableNames
  <2> HIDE DEF c0
  <2> QED  BY <2>1, StaleSampRate DEF Current, c0
<1> HIDE DEF c0, d, s0
<1>2. Freshens(c0, d, s0, s0)
  <2>1. OfSize \subseteq s0
    BY DEF s0
  <2> QED  BY <1>1, <2>1, FreshensAllOfOSF DEF d, s0
<1>3. Fresh(d, {}) /\ SameParameters(c0, d)
  <2>1. s0 \ s0 = {}
    OBVIOUS
  <2> QED  BY <1>2, <2>1 DEF Freshens
<1>4. Current(d)
  <2>1. LowDataRateRequiredOf(d) = LowDataRateRequiredOf(c0)
    BY <1>3, FlagOfParameters
  <2>2. LowDataRateRequiredOf(c0) = LowDataRateRequiredOf(c)
    <3>1. c0.BW = c.BW /\ c0.SF = c.SF
          /\ c0.ignoreLowDataRateRequired = c.ignoreLowDataRateRequired
      BY DEF Current, Fresh, HasAttributes, ParameterNames, c0
    <3> QED  BY <3>1 DEF LowDataRateRequiredOf
  <2>3. d.lowDataRateRequired = c.lowDataRateRequired
    BY <1>1, <1>2 DEF Freshens
  <2> QED  BY <1>3, <2>1, <2>2, <2>3, Zenon DEF Current
<1>5. RxSampRate(c, samp_rate) = d
  BY DEF RxSampRate, d, c0
<1> QED  BY <1>1, <1>2, <1>3, <1>4, <1>5 DEF c0, Freshens

LEMMA RxSyncwordCurrent ==
  ASSUME NEW c, Current(c), NEW n
  PROVE  /\ Current(RxSyncword(c, n))
         /\ SameParameters([c EXCEPT !.syncwordNumber = n], RxSyncword(c, n))
         /\ RxSyncword(c, n).told.SF = c.told.SF
<1> DEFINE c0 == [c EXCEPT !.syncwordNumber = n]
           c1 == SetPreambleComplex(c0)
           d  == SetPreambleNormalized(c1)
           s0 == {"preambleNormalized", "preambleComplex"}
<1>1. /\ Fresh(c0, s0) /\ c0.told.SF = c.told.SF
      /\ c0.lowDataRateRequired = c.lowDataRateRequired
  <2>1. c0.lowDataRateRequired = c.lowDataRateRequired
    BY DEF Current, Fresh, HasAttributes, ParameterNames, VariableNames
  <2> HIDE DEF c0
  <2> QED  BY <2>1, StaleSyncword DEF Current, c0
<1> HIDE DEF c0, c1, d
<1>2. Freshens(c0, c1, s0, {"preambleComplex"})
  BY <1>1, FreshensPreambleComplex DEF c1
<1>3. Freshens(c1, d, s0 \ {"preambleComplex"}, {"preambleNormalized"})
  BY <1>2, FreshensPreambleNormalized DEF Freshens, d
<1>4. Fresh(d, {})
  <2>1. (s0 \ {"preambleComplex"}) \ {"preambleNormalized"} = {}
    OBVIOUS
  <2> QED  BY <1>3, <2>1 DEF Freshens
<1>5. /\ SameParameters(c0, d) /\ d.told.SF = c.told.SF
      /\ d.lowDataRateRequired = c.lowDataRateRequired
  BY <1>1, <1>2, <1>3 DEF Freshens, SameParameters
<1>6. Current(d)
  <2>1. LowDataRateRequiredOf(d) = LowDataRateRequiredOf(c0)
    BY <1>5, FlagOfParameters
  <2>2. LowDataRateRequiredOf(c0) = LowDataRateRequiredOf(c)
    <3>1. c0.BW = c.BW /\ c0.SF = c.SF
          /\ c0.ignoreLowDataRateRequired = c.ignoreLowDataRateRequired
      BY DEF Current, Fresh, HasAttributes, ParameterNames, c0
    <3> QED  BY <3>1 DEF LowDataRateRequiredOf
  <2> QED  BY <1>4, <1>5, <2>1, <2>2, Zenon DEF Current
<1>7. RxSyncword(c, n) = d
  BY DEF RxSyncword, d, c1, c0
<1> QED  BY <1>5, <1>6, <1>7 DEF c0

LEMMA RxIgnoreCurrent ==
  ASSUME NEW c, Current(c), NEW b
  PROVE  /\ Current(RxIgnore(c, b))
         /\ SameParameters([c EXCEPT !.ignoreLowDataRateRequired = b], RxIgnore(c, b))
         /\ RxIgnore(c, b).told.SF = c.told.SF
<1> DEFINE c0 == [c EXCEPT !.ignoreLowDataRateRequired = b]
           d  == SetLowDataRateRequired(c0)
<1>1. SameBut(c, c0, {"ignoreLowDataRateRequired"})
  BY DEF Current, SameBut, Fresh, HasAttributes, ParameterNames, VariableNames
<1> HIDE DEF c0, d
<1>2. Fresh(c0, {}) /\ c0.told.SF = c.told.SF
  BY <1>1 DEF Current, SameBut, Fresh, OSFOf, SymbolSizeOf,
              DFTSizeOf, WindowSizeOf, PreambleOf, PreambleComplexOf, MaxFrameTimeOf,
              ChirpWindowOf
<1>3. /\ Fresh(d, {}) /\ SameParameters(c0, d) /\ d.told.SF = c0.told.SF
      /\ d.lowDataRateRequired = LowDataRateRequiredOf(c0)
  BY <1>2, FreshensLowDataRateRequired DEF d
<1>4. Current(d)
  <2>1. LowDataRateRequiredOf(d) = LowDataRateRequiredOf(c0)
    BY <1>3, FlagOfParameters
  <2> QED  BY <1>3, <2>1, Zenon DEF Current
<1>5. RxIgnore(c, b) = d
  BY DEF RxIgnore, d, c0
<1> QED  BY <1>2, <1>3, <1>4, <1>5 DEF c0

LEMMA RxThresholdCurrent ==
  ASSUME NEW c, Current(c), NEW t
  PROVE  /\ Current(RxThreshold(c, t))
         /\ SameParameters([c EXCEPT !.detectorThreshold = t], RxThreshold(c, t))
         /\ RxThreshold(c, t).told.SF = c.told.SF
<1> DEFINE d == RxThreshold(c, t)
<1>1. /\ SameBut(c, d, {"detectorThreshold", "det"}) /\ d.detectorThreshold = t
      /\ d.det = [c.det EXCEPT !.threshold = t]
  BY DEF Current, SameBut, Fresh, HasAttributes, ParameterNames, VariableNames, RxThreshold,
         DetectorNames
<1>2. SameParameters([c EXCEPT !.detectorThreshold = t], d)
  BY DEF Current, SameParameters, Fresh, HasAttributes, ParameterNames, VariableNames,
         RxThreshold
<1> HIDE DEF d
<1>3. Fresh(d, {}) /\ d.told.SF = c.told.SF
  BY <1>1 DEF Current, SameBut, Fresh, HasAttributes, DetectorNames, ChirpRateOf, KernelOf,
              OSFOf, SymbolSizeOf,
              DFTSizeOf, WindowSizeOf, PreambleOf, PreambleComplexOf, MaxFrameTimeOf,
              ChirpWindowOf
<1>4. LowDataRateRequiredOf(d) = LowDataRateRequiredOf(c)
  BY <1>1 DEF SameBut, LowDataRateRequiredOf
<1>5. Current(d)
  <2>1. d.lowDataRateRequired = c.lowDataRateRequired
    BY <1>1 DEF SameBut
  <2> QED  BY <1>3, <1>4, <2>1, Zenon DEF Current
<1> QED  BY <1>2, <1>3, <1>5 DEF d

LEMMA CurrentNext ==
  ASSUME NEW d, Current(d), built' = built, rx' = d
  PROVE  Current(rx)'
BY DEF Current, Fresh, HasAttributes

LEMMA NowIs ==
  ASSUME built \in Parameters
  PROVE  Now = [f \in ParameterNames |-> rx[f]]
BY DEF Parameters, Now, ParameterNames

(* A block that has just been built: its variables follow from p.          *)
BuiltFields(p, b) ==
  /\ HasAttributes(b) /\ SameParameters(p, b)
  /\ b.OSF = OSFOf(b) /\ b.symbolSize = SymbolSizeOf(b)
  /\ b.DFTSize = DFTSizeOf(b) /\ b.windowSize = WindowSizeOf(b)
  /\ b.upchirp = <<b.SF, b.symbolSize>>
  /\ b.preambleNormalized = PreambleOf(b) /\ b.preambleComplex = PreambleComplexOf(b)
  /\ b.maxFrameTime = MaxFrameTimeOf(b) /\ b.chirpWindow = ChirpWindowOf(b)
  /\ b.det.samp_rate = b.samp_rate /\ b.det.BW = b.BW /\ b.det.SF = b.SF
  /\ b.det.DFTSize = DFTSizeOf(b) /\ b.det.windowSize = DFTSizeOf(b)
  /\ b.det.threshold = b.detectorThreshold /\ b.det.timeout = MaxFrameTimeOf(b)
  /\ b.det.chirpRate = ChirpRateOf(b.det) /\ b.det.chirpWindow = KernelOf(b.det)
  /\ b.told.scale = DFTSizeOf(b) /\ b.told.k = b.decimation /\ b.told.SF = b.SF

LEMMA BuiltIs ==
  ASSUME NEW p \in Parameters
  PROVE  /\ BuiltFields(p, BuiltRx(p))
         /\ BuiltRx(p).lowDataRateRequired = LowDataRateRequiredOf(BuiltRx(p))
<1> DEFINE OSF        == Round(p.samp_rate, p.BW)
           symbolSize == (2^p.SF * OSF) \div p.decimation
           DFTSize    == symbolSize * p.decimation
           windowSize == DFTSize \div 4
           preamble   == <<p.SF, symbolSize, p.syncwordNumber>>
           flag == LowDataRateRequiredOf(p)
           det == BuiltDetector(p, DFTSize)
           w == [BW |-> p.BW, SF |-> p.SF, decimation |-> p.decimation,
                 detectionDecim |-> p.detectionDecim,
                 detectorThreshold |-> p.detectorThreshold,
                 ignoreLowDataRateRequired |-> p.ignoreLowDataRateRequired,
                 lowDataRate |-> p.lowDataRate, samp_rate |-> p.samp_rate,
                 syncwordNumber |-> p.syncwordNumber,
                 OSF |-> OSF, symbolSize |-> symbolSize, DFTSize |-> DFTSize,
                 windowSize |-> windowSize,
                 upchirp |-> <<p.SF, symbolSize>>, preambleNormalized |-> preamble,
                 preambleComplex |-> <<OSF * p.decimation, preamble>>,
                 maxFrameTime |-> <<p.SF, p.BW>>, lowDataRateRequired |-> flag,
                 chirpWindow |-> <<DFTSize, windowSize, p.SF, DFTSize>>,
                 det |-> det,
                 told |-> [scale |-> DFTSize, k |-> p.decimation, SF |-> p.SF]]
<1>1. BuiltRx(p) = w
  BY DEF BuiltRx, LowDataRateRequiredOf
<1>2. /\ det = [f \in DetectorNames |-> det[f]]
      /\ det.samp_rate = p.samp_rate /\ det.BW = p.BW /\ det.SF = p.SF
      /\ det.DFTSize = DFTSize /\ det.windowSize = DFTSize
      /\ det.threshold = p.detectorThreshold /\ det.timeout = <<p.SF, p.BW>>
      /\ det.chirpRate = <<p.BW, p.samp_rate, p.SF>>
      /\ det.chirpWindow = <<DFTSize, DFTSize, det.chirpRate>>
  <2>1. ASSUME NEW n
        PROVE  LET e == BuiltDetector(p, n)
               IN  /\ e = [f \in DetectorNames |-> e[f]]
                   /\ e.samp_rate = p.samp_rate /\ e.BW = p.BW /\ e.SF = p.SF
                   /\ e.DFTSize = n /\ e.windowSize = n
                   /\ e.threshold = p.detectorThreshold /\ e.timeout = <<p.SF, p.BW>>
                   /\ e.chirpRate = <<p.BW, p.samp_rate, p.SF>>
                   /\ e.chirpWindow = <<n, n, e.chirpRate>>
    BY DEF BuiltDetector, DetectorNames
  <2> HIDE DEF DFTSize
  <2> QED  BY <2>1
<1> HIDE DEF det, OSF, symbolSize, DFTSize, windowSize, preamble, flag
<1>5. SameParameters(p, w)
  BY DEF SameParameters
<1>6. /\ w.OSF = OSF /\ w.symbolSize = symbolSize /\ w.DFTSize = DFTSize
      /\ w.windowSize = windowSize /\ w.upchirp = <<p.SF, symbolSize>>
      /\ w.preambleNormalized = preamble
      /\ w.preambleComplex = <<OSF * p.decimation, preamble>>
      /\ w.maxFrameTime = <<p.SF, p.BW>>
      /\ w.chirpWindow = <<DFTSize, windowSize, p.SF, DFTSize>> /\ w.det = det
      /\ w.told = [scale |-> DFTSize, k |-> p.decimation, SF |-> p.SF]
  OBVIOUS
<1>7. w.lowDataRateRequired = flag
  OBVIOUS
<1>8. w = [f \in ParameterNames \union VariableNames |-> w[f]]
  BY DEF ParameterNames, VariableNames
<1> HIDE DEF w
<1>9. HasAttributes(w)
  <2>1. w.det = [f \in DetectorNames |-> w.det[f]]
    BY <1>2, <1>6
  <2>2. w.told = [f \in ToldNames |-> w.told[f]]
    BY <1>6 DEF ToldNames
  <2> QED  BY <1>8, <2>1, <2>2 DEF HasAttributes
<1>10. w.symbolSize = SymbolSizeOf(w) /\ w.OSF = OSFOf(w)
  BY <1>5, <1>6 DEF SameParameters, SymbolSizeOf, OSFOf, OSF, symbolSize
<1>11. DFTSizeOf(w) = DFTSize /\ w.windowSize = WindowSizeOf(w)
  BY <1>5, <1>6 DEF SameParameters, DFTSizeOf, WindowSizeOf, DFTSize, windowSize
<1>12. /\ w.preambleNormalized = PreambleOf(w) /\ w.preambleComplex = PreambleComplexOf(w)
       /\ w.upchirp = <<w.SF, w.symbolSize>> /\ w.maxFrameTime = MaxFrameTimeOf(w)
       /\ w.chirpWindow = ChirpWindowOf(w)
  <2>1. DFTSize = w.symbolSize * w.decimation
    BY <1>11 DEF DFTSizeOf
  <2> QED  BY <1>5, <1>6, <2>1 DEF SameParameters, PreambleOf, PreambleComplexOf, MaxFrameTimeOf,
              ChirpWindowOf, preamble
<1>13. BuiltFields(p, w)
  <2>1. w.det.chirpRate = ChirpRateOf(w.det) /\ w.det.chirpWindow = KernelOf(w.det)
    BY <1>2, <1>6 DEF ChirpRateOf, KernelOf
  <2>2. /\ w.det.samp_rate = w.samp_rate /\ w.det.BW = w.BW /\ w.det.SF = w.SF
        /\ w.det.threshold = w.detectorThreshold
    BY <1>2, <1>5, <1>6 DEF SameParameters
  <2>3. w.det.timeout = MaxFrameTimeOf(w)
    BY <1>2, <1>5, <1>6 DEF SameParameters, MaxFrameTimeOf
  <2>4. w.DFTSize = DFTSizeOf(w) /\ w.det.DFTSize = DFTSizeOf(w) /\ w.det.windowSize = DFTSizeOf(w)
    BY <1>2, <1>6, <1>11
  <2>5. w.told.scale = DFTSizeOf(w) /\ w.told.k = w.decimation /\ w.told.SF = w.SF
    BY <1>5, <1>6, <1>11 DEF SameParameters
  <2> HIDE DEF HasAttributes, SameParameters, OSFOf, SymbolSizeOf, DFTSizeOf, WindowSizeOf,
               PreambleOf, PreambleComplexOf, MaxFrameTimeOf, ChirpWindowOf, ChirpRateOf,
               KernelOf
  <2> QED  BY <1>5, <1>9, <1>10, <1>11, <1>12, <2>1, <2>2, <2>3, <2>4, <2>5 DEF BuiltFields
<1>14. w.lowDataRateRequired = LowDataRateRequiredOf(w)
  <2>1. LowDataRateRequiredOf(w) = LowDataRateRequiredOf(p)
    BY <1>5, FlagOfParameters
  <2> QED  BY <1>7, <2>1, Zenon DEF flag
<1> QED  BY <1>1, <1>13, <1>14

LEMMA SameAttributes ==
  ASSUME NEW c, NEW d, HasAttributes(c), HasAttributes(d), SameParameters(c, d),
         c.OSF = d.OSF, c.symbolSize = d.symbolSize, c.DFTSize = d.DFTSize,
         c.windowSize = d.windowSize, c.upchirp = d.upchirp,
         c.preambleNormalized = d.preambleNormalized, c.preambleComplex = d.preambleComplex,
         c.maxFrameTime = d.maxFrameTime, c.lowDataRateRequired = d.lowDataRateRequired,
         c.chirpWindow = d.chirpWindow,
         c.det.samp_rate = d.det.samp_rate, c.det.BW = d.det.BW, c.det.SF = d.det.SF,
         c.det.DFTSize = d.det.DFTSize, c.det.windowSize = d.det.windowSize,
         c.det.threshold = d.det.threshold, c.det.timeout = d.det.timeout,
         c.det.chirpRate = d.det.chirpRate, c.det.chirpWindow = d.det.chirpWindow,
         c.told.scale = d.told.scale, c.told.k = d.told.k, c.told.SF = d.told.SF
  PROVE  c = d
<1>1. c.det = d.det
  <2>1. \A f \in DetectorNames : c.det[f] = d.det[f]
    BY DEF DetectorNames
  <2> QED  BY <2>1 DEF HasAttributes
<1>2. c.told = d.told
  <2>1. \A f \in ToldNames : c.told[f] = d.told[f]
    BY DEF ToldNames
  <2> QED  BY <2>1 DEF HasAttributes
<1>3. \A f \in ParameterNames : c[f] = d[f]
  BY DEF ParameterNames, SameParameters
<1>4. \A f \in VariableNames : c[f] = d[f]
  BY <1>1, <1>2 DEF VariableNames
<1>5. \A f \in ParameterNames \union VariableNames : c[f] = d[f]
  BY <1>3, <1>4
<1> HIDE DEF ParameterNames, VariableNames, SameParameters
<1> QED  BY <1>5 DEF HasAttributes

(* The attributes that do not follow the parameters: the spreading factor  *)
(* the demodulator was told, and the sampling rate of the ChirpDetector    *)
(* with what it computes from it.                                          *)
Lagging(b, c) ==
  LET rate == <<b.BW, built.samp_rate, b.SF>>
  IN  [b EXCEPT !.told.SF = c.told.SF,
                !.det.samp_rate = built.samp_rate, !.det.chirpRate = rate,
                !.det.chirpWindow = <<b.DFTSize, b.DFTSize, rate>>]

LEMMA LaggingIs ==
  ASSUME NEW b, HasAttributes(b), NEW c
  PROVE  /\ SameBut(b, Lagging(b, c), {"det", "told"})
         /\ Lagging(b, c).det =
              [b.det EXCEPT !.samp_rate = built.samp_rate,
                            !.chirpRate = <<b.BW, built.samp_rate, b.SF>>,
                            !.chirpWindow = <<b.DFTSize, b.DFTSize,
                                              <<b.BW, built.samp_rate, b.SF>>>>]
         /\ Lagging(b, c).told = [b.told EXCEPT !.SF = c.told.SF]
<1> DEFINE d == Lagging(b, c)
           rate == <<b.BW, built.samp_rate, b.SF>>
           detector == [b.det EXCEPT !.samp_rate = built.samp_rate, !.chirpRate = rate,
                                     !.chirpWindow = <<b.DFTSize, b.DFTSize, rate>>]
           told == [b.told EXCEPT !.SF = c.told.SF]
<1>2. d = [b EXCEPT !.det = detector, !.told = told]
  BY DEF Lagging, HasAttributes, ParameterNames, VariableNames, DetectorNames, ToldNames
<1>3. detector = [f \in DetectorNames |-> detector[f]]
  BY DEF HasAttributes, DetectorNames
<1>4. told = [f \in ToldNames |-> told[f]]
  BY DEF HasAttributes, ToldNames
<1> HIDE DEF detector, told, d
<1>5. SameBut(b, d, {"det", "told"}) /\ d.det = detector /\ d.told = told
  BY <1>2, <1>3, <1>4 DEF SameBut, HasAttributes, ParameterNames, VariableNames
<1> QED  BY <1>5 DEF d, detector, told

LEMMA CurrentIsVariablesCurrent ==
  ASSUME built \in Parameters, Current(rx), Now \in Parameters
  PROVE  LET fresh == BuiltRx(Now)
             rate  == <<Now.BW, built.samp_rate, Now.SF>>
         IN  rx = [fresh EXCEPT !.told.SF = rx.told.SF,
                                !.det.samp_rate = built.samp_rate, !.det.chirpRate = rate,
                                !.det.chirpWindow = <<fresh.DFTSize, fresh.DFTSize, rate>>]
<1>1. PICK p \in Parameters : p = Now
  OBVIOUS
<1>2. PICK b : b = BuiltRx(p)
  OBVIOUS
<1>3. BuiltFields(p, b) /\ b.lowDataRateRequired = LowDataRateRequiredOf(b)
  BY <1>2, BuiltIs, Zenon
<1>4. PICK d : d = Lagging(b, rx)
  OBVIOUS
<1>5. SameParameters(p, rx)
  BY <1>1, NowIs DEF SameParameters, ParameterNames
<1>6. HasAttributes(rx)
  BY DEF Current, Fresh
<1>7. /\ SameParameters(p, b) /\ HasAttributes(b)
      /\ SameBut(b, d, {"det", "told"})
      /\ d.det = [b.det EXCEPT !.samp_rate = built.samp_rate,
                               !.chirpRate = <<b.BW, built.samp_rate, b.SF>>,
                               !.chirpWindow = <<b.DFTSize, b.DFTSize,
                                                 <<b.BW, built.samp_rate, b.SF>>>>]
      /\ d.told = [b.told EXCEPT !.SF = rx.told.SF]
  BY <1>3, <1>4, LaggingIs DEF BuiltFields
<1>8. SameParameters(rx, d) /\ SameParameters(rx, b) /\ SameParameters(p, d)
      /\ HasAttributes(d)
  BY <1>5, <1>7 DEF SameParameters, SameBut
<1>9. /\ d.OSF = b.OSF /\ d.symbolSize = b.symbolSize /\ d.DFTSize = b.DFTSize
       /\ d.windowSize = b.windowSize /\ d.upchirp = b.upchirp
       /\ d.preambleNormalized = b.preambleNormalized
       /\ d.preambleComplex = b.preambleComplex /\ d.maxFrameTime = b.maxFrameTime
       /\ d.chirpWindow = b.chirpWindow
  BY <1>7 DEF SameBut
<1>10. /\ d.det.samp_rate = built.samp_rate /\ d.det.BW = b.det.BW
       /\ d.det.SF = b.det.SF /\ d.det.DFTSize = b.det.DFTSize
       /\ d.det.windowSize = b.det.windowSize /\ d.det.threshold = b.det.threshold
       /\ d.det.timeout = b.det.timeout
       /\ d.det.chirpRate = <<b.BW, built.samp_rate, b.SF>>
       /\ d.det.chirpWindow = <<b.DFTSize, b.DFTSize, <<b.BW, built.samp_rate, b.SF>>>>
       /\ d.told.scale = b.told.scale /\ d.told.k = b.told.k /\ d.told.SF = rx.told.SF
  <2>1. b.det = [f \in DetectorNames |-> b.det[f]] /\ b.told = [f \in ToldNames |-> b.told[f]]
    BY <1>7 DEF HasAttributes
  <2> QED  BY <1>7, <2>1 DEF DetectorNames, ToldNames
<1>11. d.lowDataRateRequired = b.lowDataRateRequired
  BY <1>7 DEF SameBut
<1>12. rx = d
  <2>1. rx.OSF = b.OSF
    BY <1>3, <1>8 DEF Current, Fresh, BuiltFields, SameParameters, OSFOf
  <2>2. rx.symbolSize = b.symbolSize
    BY <1>3, <1>8, <2>1 DEF Current, Fresh, BuiltFields, SameParameters, SymbolSizeOf
  <2>3. DFTSizeOf(rx) = DFTSizeOf(b)
    BY <1>8, <2>2 DEF SameParameters, DFTSizeOf
  <2>4. rx.DFTSize = b.DFTSize /\ rx.det.DFTSize = b.det.DFTSize
        /\ rx.det.windowSize = b.det.windowSize /\ rx.told.scale = b.told.scale
    BY <1>3, <2>3 DEF Current, Fresh, BuiltFields
  <2>5. rx.windowSize = b.windowSize
    BY <1>3, <1>8, <2>2 DEF Current, Fresh, BuiltFields, SameParameters, WindowSizeOf
  <2>6. rx.upchirp = b.upchirp
    BY <1>3, <1>8, <2>2 DEF Current, Fresh, BuiltFields, SameParameters
  <2>7. PreambleOf(rx) = PreambleOf(b)
    BY <1>8, <2>2 DEF SameParameters, PreambleOf
  <2>8. rx.preambleNormalized = b.preambleNormalized
    BY <1>3, <2>7 DEF Current, Fresh, BuiltFields
  <2>9. rx.preambleComplex = b.preambleComplex
    BY <1>3, <1>8, <2>1, <2>7
       DEF Current, Fresh, BuiltFields, SameParameters, PreambleComplexOf
  <2>10. MaxFrameTimeOf(rx) = MaxFrameTimeOf(b)
    BY <1>8 DEF SameParameters, MaxFrameTimeOf
  <2>11. rx.maxFrameTime = b.maxFrameTime /\ rx.det.timeout = b.det.timeout
    BY <1>3, <2>10 DEF Current, Fresh, BuiltFields
  <2>12. rx.lowDataRateRequired = b.lowDataRateRequired
    <3>1. LowDataRateRequiredOf(rx) = LowDataRateRequiredOf(b)
      BY <1>8, FlagOfParameters
    <3>2. rx.lowDataRateRequired = LowDataRateRequiredOf(rx)
      BY DEF Current
    <3> QED  BY <1>3, <3>1, <3>2, Zenon
  <2>13. rx.chirpWindow = b.chirpWindow
    BY <1>3, <1>8, <2>2, <2>4, <2>5
       DEF Current, Fresh, BuiltFields, SameParameters, ChirpWindowOf
  <2>14. rx.told.k = b.told.k /\ rx.det.BW = b.det.BW /\ rx.det.SF = b.det.SF
         /\ rx.det.threshold = b.det.threshold
    BY <1>3, <1>8 DEF Current, Fresh, BuiltFields, SameParameters
  <2>15. rx.det.samp_rate = built.samp_rate
         /\ rx.det.chirpRate = <<b.BW, built.samp_rate, b.SF>>
    BY <1>8 DEF Current, Fresh, SameParameters, ChirpRateOf
  <2>16. rx.det.chirpWindow = <<b.DFTSize, b.DFTSize, <<b.BW, built.samp_rate, b.SF>>>>
    <3>1. rx.det.DFTSize = b.DFTSize /\ rx.det.windowSize = b.DFTSize
      BY <1>3, <2>4 DEF BuiltFields
    <3> QED  BY <2>15, <3>1 DEF Current, Fresh, KernelOf
  <2> HIDE DEF HasAttributes, SameParameters, OSFOf, SymbolSizeOf, DFTSizeOf, WindowSizeOf,
               PreambleOf, PreambleComplexOf, MaxFrameTimeOf, ChirpWindowOf, ChirpRateOf,
               KernelOf
  <2>20. /\ rx.OSF = d.OSF /\ rx.symbolSize = d.symbolSize /\ rx.DFTSize = d.DFTSize
         /\ rx.windowSize = d.windowSize /\ rx.upchirp = d.upchirp
         /\ rx.preambleNormalized = d.preambleNormalized
         /\ rx.preambleComplex = d.preambleComplex /\ rx.maxFrameTime = d.maxFrameTime
         /\ rx.chirpWindow = d.chirpWindow
    BY <2>1, <2>2, <2>4, <2>5, <2>6, <2>8, <2>9, <2>11, <2>13, <1>9
  <2>21. /\ rx.det.samp_rate = d.det.samp_rate /\ rx.det.BW = d.det.BW
         /\ rx.det.SF = d.det.SF /\ rx.det.DFTSize = d.det.DFTSize
         /\ rx.det.windowSize = d.det.windowSize /\ rx.det.threshold = d.det.threshold
         /\ rx.det.timeout = d.det.timeout /\ rx.det.chirpRate = d.det.chirpRate
         /\ rx.det.chirpWindow = d.det.chirpWindow
         /\ rx.told.scale = d.told.scale /\ rx.told.k = d.told.k /\ rx.told.SF = d.told.SF
    BY <2>4, <2>11, <2>14, <2>15, <2>16, <1>10
  <2>22. rx.lowDataRateRequired = d.lowDataRateRequired
    BY <2>12, <1>11, Zenon
  <2> QED  BY <1>6, <1>7, <1>8, <2>20, <2>21, <2>22, SameAttributes, Zenon
<1>13. p.BW = b.BW /\ p.SF = b.SF
  BY <1>7 DEF SameParameters
<1> QED  BY <1>1, <1>2, <1>4, <1>12, <1>13 DEF Lagging

(* The inductive invariant.                                                *)
Typed(c) ==
  /\ c.BW \in BWs /\ c.SF \in SFs /\ c.decimation \in Decimations
  /\ c.detectionDecim \in 1..MaxDetectionDecim /\ c.detectorThreshold \in Thresholds
  /\ c.ignoreLowDataRateRequired \in BOOLEAN /\ c.lowDataRate \in BOOLEAN
  /\ c.samp_rate \in SampRates /\ c.syncwordNumber \in Syncwords

SettingsInv ==
  /\ built \in Parameters
  /\ Current(rx)
  /\ Typed(rx)
  /\ tx = BuiltTx(rx)
  /\ rx.told.SF > built.SF => rx.told.SF = rx.SF

LEMMA TypedParameters ==
  ASSUME NEW c, Typed(c)
  PROVE  [f \in ParameterNames |-> c[f]] \in Parameters
<1>1. [f \in ParameterNames |-> c[f]] =
        [BW |-> c.BW, SF |-> c.SF, decimation |-> c.decimation,
         detectionDecim |-> c.detectionDecim, detectorThreshold |-> c.detectorThreshold,
         ignoreLowDataRateRequired |-> c.ignoreLowDataRateRequired,
         lowDataRate |-> c.lowDataRate, samp_rate |-> c.samp_rate,
         syncwordNumber |-> c.syncwordNumber]
  BY DEF ParameterNames
<1> QED  BY <1>1 DEF Typed, Parameters

LEMMA ParametersTyped ==
  ASSUME NEW p \in Parameters
  PROVE  Typed(p)
BY DEF Parameters, Typed

LEMMA SameTyped ==
  ASSUME NEW c, NEW d, SameParameters(c, d), Typed(c)
  PROVE  Typed(d)
BY DEF SameParameters, Typed

LEMMA SameTx ==
  ASSUME NEW c, NEW d, SameParameters(c, d)
  PROVE  BuiltTx(d) = BuiltTx(c)
BY DEF SameParameters, BuiltTx

(* The setters of LoRaTx leave it as it would be built.                    *)
TxRecord(BW, SF, rate, n, OSF, symbolSize, preamble) ==
  [BW |-> BW, SF |-> SF, samp_rate |-> rate, syncwordNumber |-> n, OSF |-> OSF,
   symbolSize |-> symbolSize, preambleFrequency |-> preamble]

TxWith(BW, SF, rate, n) ==
  TxRecord(BW, SF, rate, n, Round(rate, BW), 2^SF * Round(rate, BW),
           <<SF, 2^SF * Round(rate, BW), n>>)

LEMMA BuiltTxIs ==
  ASSUME NEW c
  PROVE  BuiltTx(c) = TxWith(c.BW, c.SF, c.samp_rate, c.syncwordNumber)
BY DEF BuiltTx, TxWith, TxRecord

LEMMA TxPreamble ==
  ASSUME NEW BW, NEW SF, NEW rate, NEW n, NEW O, NEW s, NEW w, NEW t,
         t = TxRecord(BW, SF, rate, n, O, s, w)
  PROVE  TxSetPreamble(t) = TxRecord(BW, SF, rate, n, O, s, <<SF, s, n>>)
BY DEF TxSetPreamble, PreambleOf, TxRecord

LEMMA TxOSF ==
  ASSUME NEW BW, NEW SF, NEW rate, NEW n, NEW O, NEW s, NEW w, NEW t,
         t = TxRecord(BW, SF, rate, n, O, s, w)
  PROVE  TxSetOSF(t) = TxWith(BW, SF, rate, n)
<1>1. PICK r : r = Round(rate, BW)
  OBVIOUS
<1>2. PICK m : m = 2^SF * r
  OBVIOUS
<1>3. OSFOf(t) = r
  BY <1>1 DEF OSFOf, TxRecord
<1>4. PICK d : d = [t EXCEPT !.OSF = OSFOf(t)]
  OBVIOUS
<1>5. d = TxRecord(BW, SF, rate, n, r, s, w)
  BY <1>3, <1>4 DEF TxRecord
<1>6. 2^d.SF * d.OSF = m
  BY <1>2, <1>5 DEF TxRecord
<1>7. PICK e : e = [d EXCEPT !.symbolSize = 2^d.SF * d.OSF]
  OBVIOUS
<1>8. e = TxRecord(BW, SF, rate, n, r, m, w)
  BY <1>5, <1>6, <1>7 DEF TxRecord
<1>9. TxSetOSF(t) = TxSetPreamble(e)
  BY <1>4, <1>7 DEF TxSetOSF
<1> QED  BY <1>1, <1>2, <1>8, <1>9, TxPreamble DEF TxWith

LEMMA TxSFIs ==
  ASSUME NEW BW, NEW SF, NEW rate, NEW n, NEW t, t = TxWith(BW, SF, rate, n), NEW v
  PROVE  TxSF(t, v) = TxWith(BW, v, rate, n)
<1>1. PICK r : r = Round(rate, BW)
  OBVIOUS
<1>2. PICK s : s = 2^SF * r
  OBVIOUS
<1>3. [t EXCEPT !.SF = v] = TxRecord(BW, v, rate, n, r, s, <<SF, s, n>>)
  BY <1>1, <1>2 DEF TxWith, TxRecord
<1>4. PICK d : d = TxSetPreamble([t EXCEPT !.SF = v])
  OBVIOUS
<1>5. d = TxRecord(BW, v, rate, n, r, s, <<v, s, n>>)
  BY <1>3, <1>4, TxPreamble
<1>6. PICK m : m = 2^v * r
  OBVIOUS
<1>7. 2^d.SF * d.OSF = m
  BY <1>5, <1>6 DEF TxRecord
<1>8. [d EXCEPT !.symbolSize = 2^d.SF * d.OSF] =
        TxRecord(BW, v, rate, n, r, m, <<v, s, n>>)
  BY <1>5, <1>7 DEF TxRecord
<1>9. TxSF(t, v) = TxSetPreamble([d EXCEPT !.symbolSize = 2^d.SF * d.OSF])
  BY <1>4 DEF TxSF
<1> QED  BY <1>1, <1>6, <1>8, <1>9, TxPreamble DEF TxWith

LEMMA SettingsInvIs ==
  ASSUME SettingsInv
  PROVE  VariablesCurrent
<1>1. Now = [f \in ParameterNames |-> rx[f]]
  BY NowIs DEF SettingsInv
<1>2. Now \in Parameters
  BY <1>1, TypedParameters DEF SettingsInv
<1>3. SameParameters(rx, Now)
  BY <1>1 DEF SameParameters, ParameterNames
<1>4. tx = BuiltTx(Now)
  BY <1>3, SameTx DEF SettingsInv
<1>5. Current(rx) /\ built \in Parameters
  BY DEF SettingsInv
<1> QED  BY <1>2, <1>4, <1>5, CurrentIsVariablesCurrent DEF VariablesCurrent

LEMMA SettingsBuild ==
  ASSUME Build
  PROVE  SettingsInv
<1>1. PICK b : b = BuiltRx(built)
  OBVIOUS
<1>2. built \in Parameters /\ rx = b /\ tx = BuiltTx(built)
  BY <1>1 DEF Build
<1>3. BuiltFields(built, b) /\ b.lowDataRateRequired = LowDataRateRequiredOf(b)
  BY <1>1, <1>2, BuiltIs, Zenon
<1>4. SameParameters(built, b) /\ HasAttributes(b)
  BY <1>3 DEF BuiltFields
<1>5. Fresh(b, {})
  <2>1. b.det.samp_rate = built.samp_rate
    BY <1>3, <1>4 DEF BuiltFields, SameParameters
  <2> QED  BY <1>3, <2>1 DEF BuiltFields, Fresh
<1>6. Current(rx)
  BY <1>2, <1>3, <1>5, Zenon DEF Current
<1>7. Typed(rx) /\ tx = BuiltTx(rx)
  BY <1>2, <1>4, ParametersTyped, SameTyped, SameTx
<1>8. rx.told.SF = rx.SF
  BY <1>2, <1>3 DEF BuiltFields
<1> QED  BY <1>2, <1>6, <1>7, <1>8 DEF SettingsInv

LEMMA SettingsKept ==
  ASSUME SettingsInv, built' = built, NEW d, rx' = d, Current(d), Typed(d),
         tx' = BuiltTx(d), d.told.SF > built.SF => d.told.SF = d.SF
  PROVE  SettingsInv'
<1>1. Current(rx)'
  BY CurrentNext
<1> QED  BY <1>1 DEF SettingsInv, Typed

(* Attributes nothing is computed from.                                    *)
LEMMA PlainCurrent ==
  ASSUME NEW c, Current(c), NEW d, SameBut(c, d, {"lowDataRate", "detectionDecim"})
  PROVE  Current(d)
<1>1. Fresh(d, {})
  BY DEF Current, SameBut, Fresh, HasAttributes, OSFOf, SymbolSizeOf, DFTSizeOf, WindowSizeOf,
         PreambleOf, PreambleComplexOf, MaxFrameTimeOf, ChirpWindowOf
<1>2. LowDataRateRequiredOf(d) = LowDataRateRequiredOf(c)
  BY DEF SameBut, LowDataRateRequiredOf
<1>3. d.lowDataRateRequired = c.lowDataRateRequired
  BY DEF SameBut
<1> QED  BY <1>1, <1>2, <1>3, Zenon DEF Current

LEMMA ToldCurrent ==
  ASSUME NEW c, Current(c), NEW SF
  PROVE  LET d == [c EXCEPT !.told.SF = SF]
         IN  Current(d) /\ SameParameters(c, d) /\ d.told.SF = SF /\ d.SF = c.SF
<1> DEFINE d == [c EXCEPT !.told.SF = SF]
<1>1. SameBut(c, d, {"told"}) /\ d.told = [c.told EXCEPT !.SF = SF]
  BY DEF Current, SameBut, Fresh, HasAttributes, ParameterNames, VariableNames, ToldNames
<1> HIDE DEF d
<1>2. Fresh(d, {}) /\ d.told.SF = SF
  BY <1>1 DEF Current, SameBut, Fresh, HasAttributes, ToldNames, OSFOf, SymbolSizeOf,
              DFTSizeOf, WindowSizeOf, PreambleOf, PreambleComplexOf, MaxFrameTimeOf,
              ChirpWindowOf
<1>3. LowDataRateRequiredOf(d) = LowDataRateRequiredOf(c)
  BY <1>1 DEF SameBut, LowDataRateRequiredOf
<1>4. Current(d)
  <2>1. d.lowDataRateRequired = c.lowDataRateRequired
    BY <1>1 DEF SameBut
  <2> QED  BY <1>2, <1>3, <2>1, Zenon DEF Current
<1>5. SameParameters(c, d) /\ d.SF = c.SF
  BY <1>1 DEF SameBut, SameParameters
<1> QED  BY <1>2, <1>4, <1>5 DEF d

LEMMA ToldKept ==
  ASSUME SettingsInv, built' = built, NEW d, NEW e, rx' = d, Current(d), Typed(e),
         SameParameters(e, d), tx' = BuiltTx(e),
         (d.told.SF = rx.told.SF /\ e.SF = rx.SF) \/ d.told.SF = e.SF
  PROVE  SettingsInv'
<1>1. Typed(d) /\ tx' = BuiltTx(d)
  BY SameTyped, SameTx
<1>2. d.SF = e.SF
  BY DEF SameParameters
<1>3. d.told.SF > built.SF => d.told.SF = d.SF
  BY <1>2 DEF SettingsInv
<1> QED  BY <1>1, <1>3, SettingsKept

LEMMA ChangeBWKept ==
  ASSUME SettingsInv, ChangeBW, built' = built
  PROVE  SettingsInv'
<1>1. PICK v \in BWs : rx' = RxBW(rx, v) /\ tx' = TxSetOSF([tx EXCEPT !.BW = v])
  BY DEF ChangeBW
<1>2. PICK e : e = [rx EXCEPT !.BW = v]
  OBVIOUS
<1>3. PICK d : d = RxBW(rx, v)
  OBVIOUS
<1>4. Current(rx) /\ Typed(rx) /\ HasAttributes(rx)
  BY DEF SettingsInv, Current, Fresh
<1>5. Current(d) /\ SameParameters(e, d) /\ d.told.SF = rx.told.SF
  BY <1>2, <1>3, <1>4, RxBWCurrent
<1>6. SameBut(rx, e, {"BW"}) /\ e.BW = v
  BY <1>2, <1>4 DEF SameBut, HasAttributes, ParameterNames, VariableNames
<1>7. Typed(e)
  BY <1>4, <1>6 DEF SameBut, Typed
<1>8. tx' = BuiltTx(e)
  <2>1. tx = TxWith(rx.BW, rx.SF, rx.samp_rate, rx.syncwordNumber)
    BY BuiltTxIs DEF SettingsInv
  <2>2. PICK O, s, w : tx = TxRecord(rx.BW, rx.SF, rx.samp_rate, rx.syncwordNumber, O, s, w)
    BY <2>1 DEF TxWith
  <2>3. [tx EXCEPT !.BW = v] = TxRecord(v, rx.SF, rx.samp_rate, rx.syncwordNumber, O, s, w)
    BY <2>2 DEF TxRecord
  <2>4. TxSetOSF([tx EXCEPT !.BW = v]) = TxWith(v, rx.SF, rx.samp_rate, rx.syncwordNumber)
    BY <2>3, TxOSF
  <2>5. BuiltTx(e) = TxWith(e.BW, e.SF, e.samp_rate, e.syncwordNumber)
    BY BuiltTxIs
  <2> QED  BY <1>1, <1>6, <2>4, <2>5 DEF SameBut
<1>9. e.SF = rx.SF
  BY <1>6 DEF SameBut
<1> QED  BY <1>1, <1>3, <1>5, <1>7, <1>8, <1>9, ToldKept

LEMMA ChangeSFKept ==
  ASSUME SettingsInv, ChangeSF, built' = built
  PROVE  SettingsInv'
<1>1. PICK v \in SFs : rx' = RxSF(rx, v) /\ tx' = TxSF(tx, v)
  BY DEF ChangeSF
<1>2. PICK e : e = [rx EXCEPT !.SF = v]
  OBVIOUS
<1>3. PICK d : d = RxSF(rx, v)
  OBVIOUS
<1>4. Current(rx) /\ Typed(rx) /\ HasAttributes(rx)
  BY DEF SettingsInv, Current, Fresh
<1>5. Current(d) /\ SameParameters(e, d) /\ d.told.SF = v
  BY <1>2, <1>3, <1>4, RxSFCurrent
<1>6. SameBut(rx, e, {"SF"}) /\ e.SF = v
  BY <1>2, <1>4 DEF SameBut, HasAttributes, ParameterNames, VariableNames
<1>7. Typed(e)
  BY <1>4, <1>6 DEF SameBut, Typed
<1>8. tx' = BuiltTx(e)
  <2>1. tx = TxWith(rx.BW, rx.SF, rx.samp_rate, rx.syncwordNumber)
    BY BuiltTxIs DEF SettingsInv
  <2>2. TxSF(tx, v) = TxWith(rx.BW, v, rx.samp_rate, rx.syncwordNumber)
    BY <2>1, TxSFIs
  <2>3. BuiltTx(e) = TxWith(e.BW, e.SF, e.samp_rate, e.syncwordNumber)
    BY BuiltTxIs
  <2> QED  BY <1>1, <1>6, <2>2, <2>3 DEF SameBut
<1> QED  BY <1>1, <1>3, <1>5, <1>6, <1>7, <1>8, ToldKept

LEMMA ChangeSampRateKept ==
  ASSUME SettingsInv, ChangeSampRate, built' = built
  PROVE  SettingsInv'
<1>1. PICK v \in SampRates : rx' = RxSampRate(rx, v) /\ tx' = TxSetOSF([tx EXCEPT !.samp_rate = v])
  BY DEF ChangeSampRate
<1>2. PICK e : e = [rx EXCEPT !.samp_rate = v]
  OBVIOUS
<1>3. PICK d : d = RxSampRate(rx, v)
  OBVIOUS
<1>4. Current(rx) /\ Typed(rx) /\ HasAttributes(rx)
  BY DEF SettingsInv, Current, Fresh
<1>5. Current(d) /\ SameParameters(e, d) /\ d.told.SF = rx.told.SF
  BY <1>2, <1>3, <1>4, RxSampRateCurrent
<1>6. SameBut(rx, e, {"samp_rate"}) /\ e.samp_rate = v
  BY <1>2, <1>4 DEF SameBut, HasAttributes, ParameterNames, VariableNames
<1>7. Typed(e)
  BY <1>4, <1>6 DEF SameBut, Typed
<1>8. tx' = BuiltTx(e)
  <2>1. tx = TxWith(rx.BW, rx.SF, rx.samp_rate, rx.syncwordNumber)
    BY BuiltTxIs DEF SettingsInv
  <2>2. PICK O, s, w : tx = TxRecord(rx.BW, rx.SF, rx.samp_rate, rx.syncwordNumber, O, s, w)
    BY <2>1 DEF TxWith
  <2>3. [tx EXCEPT !.samp_rate = v] = TxRecord(rx.BW, rx.SF, v, rx.syncwordNumber, O, s, w)
    BY <2>2 DEF TxRecord
  <2>4. TxSetOSF([tx EXCEPT !.samp_rate = v]) = TxWith(rx.BW, rx.SF, v, rx.syncwordNumber)
    BY <2>3, TxOSF
  <2>5. BuiltTx(e) = TxWith(e.BW, e.SF, e.samp_rate, e.syncwordNumber)
    BY BuiltTxIs
  <2> QED  BY <1>1, <1>6, <2>4, <2>5 DEF SameBut
<1>9. e.SF = rx.SF
  BY <1>6 DEF SameBut
<1> QED  BY <1>1, <1>3, <1>5, <1>7, <1>8, <1>9, ToldKept

LEMMA ChangeSyncwordKept ==
  ASSUME SettingsInv, ChangeSyncword, built' = built
  PROVE  SettingsInv'
<1>1. PICK v \in Syncwords : rx' = RxSyncword(rx, v) /\ tx' = TxSetPreamble([tx EXCEPT !.syncwordNumber = v])
  BY DEF ChangeSyncword
<1>2. PICK e : e = [rx EXCEPT !.syncwordNumber = v]
  OBVIOUS
<1>3. PICK d : d = RxSyncword(rx, v)
  OBVIOUS
<1>4. Current(rx) /\ Typed(rx) /\ HasAttributes(rx)
  BY DEF SettingsInv, Current, Fresh
<1>5. Current(d) /\ SameParameters(e, d) /\ d.told.SF = rx.told.SF
  BY <1>2, <1>3, <1>4, RxSyncwordCurrent
<1>6. SameBut(rx, e, {"syncwordNumber"}) /\ e.syncwordNumber = v
  BY <1>2, <1>4 DEF SameBut, HasAttributes, ParameterNames, VariableNames
<1>7. Typed(e)
  BY <1>4, <1>6 DEF SameBut, Typed
<1>8. tx' = BuiltTx(e)
  <2>1. tx = TxWith(rx.BW, rx.SF, rx.samp_rate, rx.syncwordNumber)
    BY BuiltTxIs DEF SettingsInv
  <2>2. PICK O, s :
           /\ O = Round(rx.samp_rate, rx.BW)
           /\ s = 2^rx.SF * O
    OBVIOUS
  <2>3. [tx EXCEPT !.syncwordNumber = v] = TxRecord(rx.BW, rx.SF, rx.samp_rate, v, O, s, <<rx.SF, s, rx.syncwordNumber>>)
    BY <2>1, <2>2 DEF TxRecord, TxWith
  <2>4. TxSetPreamble([tx EXCEPT !.syncwordNumber = v]) = TxWith(rx.BW, rx.SF, rx.samp_rate, v)
    BY <2>2, <2>3, TxPreamble DEF TxWith
  <2>5. BuiltTx(e) = TxWith(e.BW, e.SF, e.samp_rate, e.syncwordNumber)
    BY BuiltTxIs
  <2> QED  BY <1>1, <1>6, <2>4, <2>5 DEF SameBut
<1>9. e.SF = rx.SF
  BY <1>6 DEF SameBut
<1> QED  BY <1>1, <1>3, <1>5, <1>7, <1>8, <1>9, ToldKept

LEMMA ChangeDecimationKept ==
  ASSUME SettingsInv, ChangeDecimation, built' = built
  PROVE  SettingsInv'
<1>1. PICK v \in Decimations : rx' = RxDecimation(rx, v) /\ tx' = tx
  BY DEF ChangeDecimation
<1>2. PICK e : e = [rx EXCEPT !.decimation = v]
  OBVIOUS
<1>3. PICK d : d = RxDecimation(rx, v)
  OBVIOUS
<1>4. Current(rx) /\ Typed(rx) /\ HasAttributes(rx)
  BY DEF SettingsInv, Current, Fresh
<1>5. Current(d) /\ SameParameters(e, d) /\ d.told.SF = rx.told.SF
  BY <1>2, <1>3, <1>4, RxDecimationCurrent
<1>6. SameBut(rx, e, {"decimation"}) /\ e.decimation = v
  BY <1>2, <1>4 DEF SameBut, HasAttributes, ParameterNames, VariableNames
<1>7. Typed(e)
  BY <1>4, <1>6 DEF SameBut, Typed
<1>8. tx' = BuiltTx(e)
  <2>1. BuiltTx(e) = BuiltTx(rx)
    BY <1>6 DEF SameBut, BuiltTx
  <2> QED  BY <1>1, <2>1 DEF SettingsInv
<1>9. e.SF = rx.SF
  BY <1>6 DEF SameBut
<1> QED  BY <1>1, <1>3, <1>5, <1>7, <1>8, <1>9, ToldKept

LEMMA ChangeThresholdKept ==
  ASSUME SettingsInv, ChangeThreshold, built' = built
  PROVE  SettingsInv'
<1>1. PICK v \in Thresholds : rx' = RxThreshold(rx, v) /\ tx' = tx
  BY DEF ChangeThreshold
<1>2. PICK e : e = [rx EXCEPT !.detectorThreshold = v]
  OBVIOUS
<1>3. PICK d : d = RxThreshold(rx, v)
  OBVIOUS
<1>4. Current(rx) /\ Typed(rx) /\ HasAttributes(rx)
  BY DEF SettingsInv, Current, Fresh
<1>5. Current(d) /\ SameParameters(e, d) /\ d.told.SF = rx.told.SF
  BY <1>2, <1>3, <1>4, RxThresholdCurrent
<1>6. SameBut(rx, e, {"detectorThreshold"}) /\ e.detectorThreshold = v
  BY <1>2, <1>4 DEF SameBut, HasAttributes, ParameterNames, VariableNames
<1>7. Typed(e)
  BY <1>4, <1>6 DEF SameBut, Typed
<1>8. tx' = BuiltTx(e)
  <2>1. BuiltTx(e) = BuiltTx(rx)
    BY <1>6 DEF SameBut, BuiltTx
  <2> QED  BY <1>1, <2>1 DEF SettingsInv
<1>9. e.SF = rx.SF
  BY <1>6 DEF SameBut
<1> QED  BY <1>1, <1>3, <1>5, <1>7, <1>8, <1>9, ToldKept

LEMMA ChangeIgnoreKept ==
  ASSUME SettingsInv, ChangeIgnore, built' = built
  PROVE  SettingsInv'
<1>1. PICK v \in BOOLEAN : rx' = RxIgnore(rx, v) /\ tx' = tx
  BY DEF ChangeIgnore
<1>2. PICK e : e = [rx EXCEPT !.ignoreLowDataRateRequired = v]
  OBVIOUS
<1>3. PICK d : d = RxIgnore(rx, v)
  OBVIOUS
<1>4. Current(rx) /\ Typed(rx) /\ HasAttributes(rx)
  BY DEF SettingsInv, Current, Fresh
<1>5. Current(d) /\ SameParameters(e, d) /\ d.told.SF = rx.told.SF
  BY <1>2, <1>3, <1>4, RxIgnoreCurrent
<1>6. SameBut(rx, e, {"ignoreLowDataRateRequired"}) /\ e.ignoreLowDataRateRequired = v
  BY <1>2, <1>4 DEF SameBut, HasAttributes, ParameterNames, VariableNames
<1>7. Typed(e)
  BY <1>4, <1>6 DEF SameBut, Typed
<1>8. tx' = BuiltTx(e)
  <2>1. BuiltTx(e) = BuiltTx(rx)
    BY <1>6 DEF SameBut, BuiltTx
  <2> QED  BY <1>1, <2>1 DEF SettingsInv
<1>9. e.SF = rx.SF
  BY <1>6 DEF SameBut
<1> QED  BY <1>1, <1>3, <1>5, <1>7, <1>8, <1>9, ToldKept

LEMMA ChangeLowDataRateKept ==
  ASSUME SettingsInv, ChangeLowDataRate, built' = built
  PROVE  SettingsInv'
<1>1. PICK v \in BOOLEAN : rx' = [rx EXCEPT !.lowDataRate = v] /\ tx' = tx
  BY DEF ChangeLowDataRate
<1>2. PICK d : d = [rx EXCEPT !.lowDataRate = v]
  OBVIOUS
<1>3. Current(rx) /\ Typed(rx) /\ HasAttributes(rx)
  BY DEF SettingsInv, Current, Fresh
<1>4. SameBut(rx, d, {"lowDataRate"}) /\ d.lowDataRate = v
  BY <1>2, <1>3 DEF SameBut, HasAttributes, ParameterNames, VariableNames
<1>5. Current(d)
  <2>1. SameBut(rx, d, {"lowDataRate", "detectionDecim"})
    BY <1>4 DEF SameBut
  <2> QED  BY <1>3, <2>1, PlainCurrent
<1>6. Typed(d) /\ SameParameters(d, d)
  BY <1>3, <1>4 DEF SameBut, Typed, SameParameters
<1>7. tx' = BuiltTx(d)
  <2>1. BuiltTx(d) = BuiltTx(rx)
    BY <1>4 DEF SameBut, BuiltTx
  <2> QED  BY <1>1, <2>1 DEF SettingsInv
<1>8. d.SF = rx.SF /\ d.told.SF = rx.told.SF
  BY <1>4 DEF SameBut
<1> QED  BY <1>1, <1>2, <1>5, <1>6, <1>7, <1>8, ToldKept

LEMMA ChangeDetectionDecimKept ==
  ASSUME SettingsInv, ChangeDetectionDecim, built' = built
  PROVE  SettingsInv'
<1>1. PICK v \in 1..MaxDetectionDecim : rx' = [rx EXCEPT !.detectionDecim = v] /\ tx' = tx
  BY DEF ChangeDetectionDecim
<1>2. PICK d : d = [rx EXCEPT !.detectionDecim = v]
  OBVIOUS
<1>3. Current(rx) /\ Typed(rx) /\ HasAttributes(rx)
  BY DEF SettingsInv, Current, Fresh
<1>4. SameBut(rx, d, {"detectionDecim"}) /\ d.detectionDecim = v
  BY <1>2, <1>3 DEF SameBut, HasAttributes, ParameterNames, VariableNames
<1>5. Current(d)
  <2>1. SameBut(rx, d, {"lowDataRate", "detectionDecim"})
    BY <1>4 DEF SameBut
  <2> QED  BY <1>3, <2>1, PlainCurrent
<1>6. Typed(d) /\ SameParameters(d, d)
  BY <1>3, <1>4 DEF SameBut, Typed, SameParameters
<1>7. tx' = BuiltTx(d)
  <2>1. BuiltTx(d) = BuiltTx(rx)
    BY <1>4 DEF SameBut, BuiltTx
  <2> QED  BY <1>1, <2>1 DEF SettingsInv
<1>8. d.SF = rx.SF /\ d.told.SF = rx.told.SF
  BY <1>4 DEF SameBut
<1> QED  BY <1>1, <1>2, <1>5, <1>6, <1>7, <1>8, ToldKept

LEMMA ControllerSetsSFKept ==
  ASSUME SettingsInv, ControllerSetsSF, built' = built
  PROVE  SettingsInv'
<1>1. PICK SF \in {built.SF - 2, built.SF} : rx' = [rx EXCEPT !.told.SF = SF]
  BY DEF ControllerSetsSF
<1>2. tx' = tx
  BY DEF ControllerSetsSF
<1>3. PICK d : d = [rx EXCEPT !.told.SF = SF]
  OBVIOUS
<1>4. Current(d) /\ SameParameters(rx, d) /\ d.told.SF = SF
  BY <1>3, ToldCurrent DEF SettingsInv
<1>5. Typed(d) /\ tx' = BuiltTx(d)
  BY <1>2, <1>4, SameTyped, SameTx DEF SettingsInv
<1>6. ~(SF > built.SF)
  <2>1. built.SF \in Nat
    BY ParametersAssumption DEF SettingsInv, Parameters
  <2> QED  BY <2>1
<1> QED  BY <1>1, <1>3, <1>4, <1>5, <1>6, SettingsKept

LEMMA SettingsStep ==
  ASSUME SettingsInv, [Set]_settings
  PROVE  SettingsInv'
<1>1. CASE Set
  BY <1>1, ChangeBWKept, ChangeSFKept, ChangeSampRateKept, ChangeSyncwordKept,
     ChangeDecimationKept, ChangeThresholdKept, ChangeIgnoreKept, ChangeLowDataRateKept,
     ChangeDetectionDecimKept, ControllerSetsSFKept DEF Set, Change
<1>2. CASE UNCHANGED settings
  <2>1. PICK d : d = rx
    OBVIOUS
  <2>2. rx' = d /\ built' = built /\ tx' = tx
    BY <1>2, <2>1 DEF settings
  <2> QED  BY <2>1, <2>2, SettingsKept DEF SettingsInv
<1> QED  BY <1>1, <1>2

(* However the parameters got their values, every variable of LoRaRx, its  *)
(* ChirpDetector and LoRaTx is what __init__ would compute from them.      *)
THEOREM SettingsCurrent == SettingsSpec => []VariablesCurrent
<1>1. Build => SettingsInv
  BY SettingsBuild
<1>2. SettingsInv /\ [Set]_settings => SettingsInv'
  BY SettingsStep
<1>3. SettingsInv => VariablesCurrent
  BY SettingsInvIs
<1> QED  BY <1>1, <1>2, <1>3, PTL DEF SettingsSpec

(* Symbols of different oversampling have different sizes, as long as the  *)
(* decimation leaves a sample of every chip.                               *)
LEMMA DivInjective ==
  ASSUME NEW P \in Nat, NEW d \in Nat \ {0}, d <= P, NEW a \in Nat, NEW b \in Nat,
         (P * a) \div d = (P * b) \div d
  PROVE  a = b
<1>1. ASSUME NEW x \in Nat, NEW y \in Nat, x < y
      PROVE  (P * x) \div d < (P * y) \div d
  <2>1. PICK u \in Nat : u = P * x
    BY TimesNext
  <2>2. PICK v \in Nat : v = P * y
    BY TimesNext
  <2>3. v >= u + P
    <3>1. PICK k \in Nat : y = x + 1 + k
      <4>1. y - x - 1 \in Nat /\ y = x + 1 + (y - x - 1)
        BY <1>1
      <4> QED  BY <4>1
    <3>2. PICK w \in Nat : w = P * k
      BY TimesNext
    <3>3. P * (x + 1 + k) = P * x + P + P * k
      OBVIOUS
    <3> QED  BY <2>1, <2>2, <3>1, <3>2, <3>3
  <2>4. PICK q \in Nat, r \in Nat : q = u \div d /\ u = d * q + r /\ r < d
    <3>1. /\ u \div d \in Nat /\ u % d \in Nat /\ u % d < d
          /\ u = d * (u \div d) + (u % d)
      OBVIOUS
    <3> QED  BY <3>1
  <2>5. PICK m \in Nat, n \in Nat : m = v \div d /\ v = d * m + n /\ n < d
    <3>1. /\ v \div d \in Nat /\ v % d \in Nat /\ v % d < d
          /\ v = d * (v \div d) + (v % d)
      OBVIOUS
    <3> QED  BY <3>1
  <2>6. q < m
    <3>1. SUFFICES ASSUME m <= q PROVE FALSE
      OBVIOUS
    <3>2. d * m <= d * q
      BY <3>1
    <3>3. PICK e \in Nat, f \in Nat : e = d * m /\ f = d * q
      BY TimesNext
    <3> QED  BY <2>3, <2>4, <2>5, <3>2, <3>3
  <2> QED  BY <2>1, <2>2, <2>4, <2>5, <2>6
<1>2. /\ (P * a) \div d \in Int
      /\ (P * b) \div d \in Int
  OBVIOUS
<1> QED  BY <1>1, <1>2

LEMMA RoundNat ==
  ASSUME NEW a \in Nat, NEW b \in Nat \ {0}
  PROVE  Round(a, b) \in Nat
<1>1. a \div b \in Nat
  OBVIOUS
<1> QED  BY <1>1 DEF Round

(* Every symbol has a sample of every chip left.                           *)
ChipsKept == SFs \subseteq 0..16 /\ \A d \in Decimations, SF \in SFs : d <= 2^SF

LEMMA SettingsInvRunning ==
  ASSUME SettingsInv, ChipsKept
  PROVE  RunningBlocks
<1>1. PICK b : b = BuiltRx(built)
  OBVIOUS
<1>2. BuiltFields(built, b) /\ built \in Parameters
  BY <1>1, BuiltIs, Zenon DEF SettingsInv
<1>3. SameParameters(built, b) /\ Typed(b) /\ Typed(rx) /\ Fresh(rx, {})
  BY <1>2, ParametersTyped, SameTyped DEF SettingsInv, BuiltFields, Current
<1>4. /\ rx.det.chirpWindow =
           <<rx.symbolSize * rx.decimation, rx.symbolSize * rx.decimation,
             <<rx.BW, built.samp_rate, rx.SF>>>>
      /\ rx.told.scale = rx.symbolSize * rx.decimation /\ rx.told.k = rx.decimation
  BY <1>3 DEF Fresh, KernelOf, ChirpRateOf, DFTSizeOf
<1>5. /\ b.det.chirpWindow =
           <<b.symbolSize * b.decimation, b.symbolSize * b.decimation,
             <<b.BW, built.samp_rate, b.SF>>>>
      /\ b.told.scale = b.symbolSize * b.decimation /\ b.told.k = b.decimation
  BY <1>2, <1>3 DEF BuiltFields, SameParameters, KernelOf, ChirpRateOf, DFTSizeOf
<1>6. PICK B \in BWs, S \in SFs, D \in Decimations, r \in SampRates :
        rx.BW = B /\ rx.SF = S /\ rx.decimation = D /\ rx.samp_rate = r
  BY <1>3 DEF Typed
<1>7. PICK BB \in BWs, SS \in SFs, DD \in Decimations, rr \in SampRates :
        b.BW = BB /\ b.SF = SS /\ b.decimation = DD /\ b.samp_rate = rr
  BY <1>3 DEF Typed
<1>8. /\ B \in Nat \ {0} /\ D \in Nat \ {0} /\ r \in Nat /\ S \in 0..16
      /\ BB \in Nat \ {0} /\ DD \in Nat \ {0} /\ rr \in Nat /\ SS \in 0..16
  BY ParametersAssumption DEF ChipsKept
<1>9. PICK O \in Nat, OO \in Nat : rx.OSF = O /\ b.OSF = OO
  <2>1. rx.OSF = Round(r, B) /\ b.OSF = Round(rr, BB)
    BY <1>2, <1>3, <1>6, <1>7 DEF Fresh, BuiltFields, OSFOf
  <2> QED  BY <1>8, <2>1, RoundNat
<1>10. PICK P \in Nat, PP \in Nat : P = 2^S /\ PP = 2^SS /\ D <= P /\ DD <= PP
  BY <1>8, PowerNat DEF ChipsKept
<1>11. rx.symbolSize = (P * O) \div D /\ b.symbolSize = (PP * OO) \div DD
  BY <1>2, <1>3, <1>6, <1>7, <1>9, <1>10 DEF Fresh, BuiltFields, SymbolSizeOf
<1>12. AsBuilt <=> /\ rx.det.chirpWindow = b.det.chirpWindow
                   /\ rx.told.scale = b.told.scale /\ rx.told.k = b.told.k
  BY <1>1 DEF AsBuilt
<1>13. (/\ B = BB /\ S = SS /\ D = DD /\ O = OO) => AsBuilt
  <2>1. SUFFICES ASSUME B = BB, S = SS, D = DD, O = OO
                 PROVE  AsBuilt
    OBVIOUS
  <2>2. rx.symbolSize = b.symbolSize
    BY <1>10, <1>11, <2>1
  <2> QED  BY <1>4, <1>5, <1>6, <1>7, <1>12, <2>1, <2>2
<1>14. AsBuilt => (/\ B = BB /\ S = SS /\ D = DD /\ O = OO)
  <2>1. SUFFICES ASSUME AsBuilt
                 PROVE  /\ B = BB /\ S = SS /\ D = DD /\ O = OO
    OBVIOUS
  <2>2. B = BB /\ S = SS /\ D = DD
    BY <1>4, <1>5, <1>6, <1>7, <1>12, <2>1
  <2>3. PICK s \in Nat, ss \in Nat : s = (P * O) \div D /\ ss = (PP * OO) \div DD
    <3>1. (P * O) \div D \in Nat /\ (PP * OO) \div DD \in Nat
      BY <1>8
    <3> QED  BY <3>1
  <2>4. s * D = ss * D
    BY <1>4, <1>5, <1>6, <1>7, <1>11, <1>12, <2>1, <2>2, <2>3
  <2>5. s = ss
    BY <1>8, <2>4
  <2>6. P = PP
    BY <1>10, <2>2
  <2> QED  BY <1>8, <1>10, <2>2, <2>3, <2>5, <2>6, DivInjective
<1>15. b.BW = built.BW /\ b.SF = built.SF /\ b.decimation = built.decimation
  BY <1>3 DEF SameParameters
<1>16. AsBuilt <=> /\ \A f \in {"BW", "SF", "decimation"} : rx[f] = built[f]
                   /\ rx.OSF = b.OSF
  BY <1>6, <1>7, <1>9, <1>13, <1>14, <1>15
<1>17. rx.told.SF > built.SF => rx.told.SF = rx.SF
  BY DEF SettingsInv
<1> QED  BY <1>1, <1>16, <1>17 DEF RunningBlocks

(* The blocks that keep what they were built with and those that follow    *)
(* the parameters fit exactly under the parameters of the construction.    *)
THEOREM SettingsRunning ==
  ASSUME ChipsKept
  PROVE  SettingsSpec => []RunningBlocks
<1>1. Build => SettingsInv
  BY SettingsBuild
<1>2. SettingsInv /\ [Set]_settings => SettingsInv'
  BY SettingsStep
<1>3. SettingsInv => RunningBlocks
  BY SettingsInvRunning
<1> QED  BY <1>1, <1>2, <1>3, PTL DEF SettingsSpec
-----------------------------------------------------------------------------
USE DecimationAssumption, TimeoutAssumption, BoundAssumption

(* A call is for a whole number of blocks, at least one.                   *)
LEMMA BlocksType ==
  ASSUME NEW noutput \in 1..MaxSamples
  PROVE  NBlocks(noutput) \in Nat /\ NBlocks(noutput) * decimation \in Nat
<1>1. noutput + decimation - 1 \in Nat
  OBVIOUS
<1>2. NBlocks(noutput) \in Nat
  BY <1>1, DivMod DEF NBlocks
<1> QED  BY <1>2

(* What a timeout consumes of the power is a whole number of items.        *)
LEMMA PowerOfType ==
  ASSUME NEW used \in Nat
  PROVE  PowerOf(used) \in Nat
BY DivMod DEF PowerOf

(* A window that is not over passes on whole blocks, one that is over      *)
(* a part of the last.                                                     *)
LEMMA PassedType ==
  ASSUME NEW nOutput \in Nat, samplesToRead \in Nat, samplesToRead > 0
  PROVE  /\ Passed(nOutput) \in Nat
         /\ Passed(nOutput) <= nOutput
         /\ Ends(nOutput) => Passed(nOutput) = samplesToRead - 1
         /\ ~Ends(nOutput) => Passed(nOutput) = nOutput /\ samplesToRead > nOutput
BY DEF Passed, Ends

LEMMA TypeInit == Init => TypeOK
BY DEF Init, TypeOK, Levels

(* Consuming is recorded if it goes behind the input.                      *)
LEMMA ConsumeWithin ==
  ASSUME TypeOK, beyond # "consumed", NEW used0 \in Nat, NEW used1 \in Nat,
         Consume(used0, used1), Beyond(used0, used1) # "consumed"
  PROVE  read0' <= samples /\ read1' <= Len(powers)
<1>1. Len(powers) \in Nat
  BY DEF TypeOK
<1> QED  BY <1>1 DEF TypeOK, Consume, Beyond

LEMMA BeyondLoopIs ==
  ASSUME NEW i \in Nat, NEW n \in Nat
  PROVE  /\ BeyondLoop(i, n) # "consumed" => Beyond(i * decimation, i) # "consumed"
         /\ BeyondLoop(i, n) \in {"no", "read", "consumed", beyond}
BY DEF BeyondLoop, Beyond

(* No call leaves the types, and what is consumed has arrived or is noted. *)
LEMMA TypeStep == TypeOK /\ [Next]_vars => TypeOK'
<1> SUFFICES ASSUME TypeOK, [Next]_vars PROVE TypeOK'
  OBVIOUS
<1>0. Len(powers) \in Nat
  BY DEF TypeOK
<1>1. CASE ArriveSample
  BY <1>1 DEF TypeOK, ArriveSample
<1>2. CASE ArrivePower
  <2>1. PICK level \in Levels : powers' = Append(powers, level)
    BY <1>2 DEF ArrivePower
  <2>2. powers' \in Seq(Levels) /\ Len(powers') = Len(powers) + 1
    BY <2>1 DEF TypeOK
  <2> QED  BY <1>0, <1>2, <2>2 DEF TypeOK, ArrivePower
<1>3. CASE Work
  <2>1. PICK noutput \in 1..MaxSamples :
          Forecast(noutput) /\ (Detection(noutput) \/ Started(noutput) \/ Waiting(noutput))
    BY <1>3 DEF Work
  <2>2. beyond # "consumed"
    BY <1>3 DEF Work
  <2> DEFINE n == NBlocks(noutput)
             m == n * decimation
  <2>3. n \in Nat /\ m \in Nat
    BY BlocksType
  <2> HIDE DEF n, m
  <2>4. CASE Detection(noutput)
    <3>1. PICK i \in 0..n :
            /\ state' \in {"started", "detection"}
            /\ samplesToRead' = IF state' = "started" THEN maxSamplesToRead ELSE samplesToRead
            /\ passed' \in {0, passed}
            /\ beyond' = BeyondLoop(i, n)
            /\ Consume(i * decimation, i)
      BY <2>4 DEF Detection, n
    <3>2. i \in Nat /\ i * decimation \in Nat
      BY <2>3
    <3>3. beyond' # "consumed" => read0' <= samples /\ read1' <= Len(powers)
      BY <2>2, <3>1, <3>2, ConsumeWithin, BeyondLoopIs, <2>3
    <3>4. read0' \in Nat /\ read1' \in Nat
      BY <3>1, <3>2 DEF Consume, TypeOK
    <3>5. beyond' \in {"no", "read", "consumed"}
      BY <3>1, <3>2, <2>3, BeyondLoopIs DEF TypeOK
    <3>6. UNCHANGED <<samples, powers, timeouts, armed>>
      BY <2>4 DEF Detection
    <3> QED  BY <3>1, <3>3, <3>4, <3>5, <3>6 DEF TypeOK
  <2>5. CASE Started(noutput)
    <3>1. state = "started" /\ samplesToRead \in Nat /\ samplesToRead > 0
      BY <2>5 DEF Started, TypeOK
    <3>2. /\ state' = IF Ends(m) THEN "waiting" ELSE "started"
          /\ samplesToRead' = IF Ends(m) THEN 0 ELSE samplesToRead - m
          /\ timeouts' = IF Ends(m) THEN timeouts + 1 ELSE timeouts
          /\ armed' = IF Ends(m) THEN FALSE ELSE armed
          /\ passed' = passed + Passed(m)
          /\ beyond' = Beyond(Passed(m), PowerOf(Passed(m)))
          /\ Consume(Passed(m), PowerOf(Passed(m)))
          /\ UNCHANGED <<samples, powers>>
      BY <2>5 DEF Started, n, m
    <3>3. Passed(m) \in Nat /\ PowerOf(Passed(m)) \in Nat
      BY <2>3, <3>1, PassedType, PowerOfType
    <3>4. beyond' # "consumed" => read0' <= samples /\ read1' <= Len(powers)
      BY <2>2, <3>2, <3>3, ConsumeWithin
    <3>5. read0' \in Nat /\ read1' \in Nat
      BY <3>2, <3>3 DEF Consume, TypeOK
    <3>6. samplesToRead' \in 0..maxSamplesToRead /\ (state' = "started" => samplesToRead' > 0)
      BY <2>3, <3>1, <3>2 DEF TypeOK, Ends
    <3>7. beyond' \in {"no", "read", "consumed"}
      BY <3>2 DEF TypeOK, Beyond
    <3>8. armed' \in BOOLEAN /\ state' \in {"detection", "started", "waiting"}
      BY <3>2 DEF TypeOK
    <3>9. passed' \in Nat /\ timeouts' \in Nat
      BY <3>2, <3>3 DEF TypeOK
    <3>10. samples' = samples /\ powers' = powers
      BY <3>2
    <3> QED  BY <3>4, <3>5, <3>6, <3>7, <3>8, <3>9, <3>10 DEF TypeOK
  <2>6. CASE Waiting(noutput)
    <3>1. PICK i \in 0..m :
            /\ state' \in {"detection", "waiting"}
            /\ armed' \in BOOLEAN
            /\ beyond' = BeyondLoop(i, m)
            /\ Consume(i * decimation, i)
      BY <2>6 DEF Waiting, n, m, TypeOK
    <3>2. i \in Nat /\ i * decimation \in Nat
      BY <2>3
    <3>3. beyond' # "consumed" => read0' <= samples /\ read1' <= Len(powers)
      BY <2>2, <3>1, <3>2, ConsumeWithin, BeyondLoopIs, <2>3
    <3>4. read0' \in Nat /\ read1' \in Nat
      BY <3>1, <3>2 DEF Consume, TypeOK
    <3>5. beyond' \in {"no", "read", "consumed"}
      BY <3>1, <3>2, <2>3, BeyondLoopIs DEF TypeOK
    <3>6. UNCHANGED <<samplesToRead, samples, powers, passed, timeouts>>
      BY <2>6 DEF Waiting
    <3> QED  BY <3>1, <3>3, <3>4, <3>5, <3>6 DEF TypeOK
  <2> QED  BY <2>1, <2>4, <2>5, <2>6
<1>4. CASE Reset
  BY <1>4 DEF TypeOK, Reset
<1>5. CASE UNCHANGED vars
  BY <1>5 DEF TypeOK, vars
<1> QED  BY <1>1, <1>2, <1>3, <1>4, <1>5 DEF Next

(* In any environment and for every decimation and window no call consumes *)
(* items that have not arrived, other than those `beyond' admits, and      *)
(* samplesToRead does not count below 0.                                   *)
THEOREM TypeCorrect == Spec => []TypeOK
BY TypeInit, TypeStep, PTL DEF Spec
-----------------------------------------------------------------------------
LEMMA Distributes ==
  ASSUME NEW a \in Nat, NEW b \in Nat, NEW c \in Nat
  PROVE  c * (a + b) = c * a + b * c /\ c * (a + b) = c * a + c * b
         /\ (a + b) * c = a * c + b * c
BY SMTT(30)

(* Whole blocks of the window are gone, so what is left of it and the      *)
(* whole window have the same remainder.                                   *)
LEMMA SameRemainder ==
  ASSUME NEW s \in 1..maxSamplesToRead, (maxSamplesToRead - s) % decimation = 0
  PROVE  (s - 1) % decimation = (maxSamplesToRead - 1) % decimation
<1> DEFINE q == (maxSamplesToRead - s) \div decimation
           p == (s - 1) \div decimation
           r == (s - 1) % decimation
<1>1. maxSamplesToRead - s \in Nat /\ s - 1 \in Nat
  OBVIOUS
<1>2. q \in Nat /\ maxSamplesToRead - s = q * decimation
  BY <1>1, DivMod
<1>3. p \in Nat /\ r \in 0..(decimation - 1) /\ s - 1 = p * decimation + r
  BY <1>1, DivMod
<1> HIDE DEF q, p, r
<1>4. (q + p) * decimation = q * decimation + p * decimation
  BY <1>2, <1>3, Distributes
<1>5. q * decimation \in Nat /\ p * decimation \in Nat
  BY <1>2, <1>3
<1>6. maxSamplesToRead - 1 = (q + p) * decimation + r
  BY <1>2, <1>3, <1>4, <1>5
<1>7. (maxSamplesToRead - 1) % decimation = r
  BY <1>2, <1>3, <1>6, RemainderOf
<1> QED  BY <1>7 DEF r

Leftover == (maxSamplesToRead - 1) % decimation

LEMMA LeftoverType == Leftover \in Nat
<1>1. maxSamplesToRead - 1 \in Nat
  OBVIOUS
<1> QED  BY <1>1, DivMod DEF Leftover

LEMMA DriftInit == Init => InputsDrift
<1> SUFFICES ASSUME Init PROVE InputsDrift
  OBVIOUS
<1>1. 0 % decimation = 0
  BY DivCancels
<1>2. Drift = 0 /\ decimation * 0 = 0
  BY LeftoverType DEF Drift, Init, Leftover
<1> QED  BY <1>1, <1>2 DEF Init, InputsDrift

(* Both inputs move by i blocks: nothing drifts.                           *)
LEMMA MoveTogether ==
  ASSUME TypeOK, InputsDrift, NEW i \in Nat, Consume(i * decimation, i),
         timeouts' = timeouts
  PROVE  read0' = decimation * read1' + Drift'
<1>1. read0 \in Nat /\ read1 \in Nat /\ timeouts \in Nat
  BY DEF TypeOK
<1>2. decimation * (read1 + i) = decimation * read1 + i * decimation
  BY <1>1, Distributes
<1>3. Drift' = Drift /\ Drift \in Nat
  BY <1>1, LeftoverType DEF Drift, Leftover
<1>4. decimation * read1 \in Nat /\ i * decimation \in Nat
  BY <1>1
<1> QED  BY <1>1, <1>2, <1>3, <1>4 DEF Consume, InputsDrift

LEMMA DriftStep == TypeOK /\ InputsDrift /\ [Next]_vars => InputsDrift'
<1> SUFFICES ASSUME TypeOK, InputsDrift, [Next]_vars PROVE InputsDrift'
  OBVIOUS
<1>0. 0 % decimation = 0
  BY DivCancels
<1>1. CASE ArriveSample \/ ArrivePower \/ UNCHANGED vars
  BY <1>1 DEF ArriveSample, ArrivePower, vars, InputsDrift, Drift
<1>2. CASE Work
  <2>1. PICK noutput \in 1..MaxSamples :
          Forecast(noutput) /\ (Detection(noutput) \/ Started(noutput) \/ Waiting(noutput))
    BY <1>2 DEF Work
  <2> DEFINE n == NBlocks(noutput)
             m == n * decimation
  <2>2. n \in Nat /\ m \in Nat
    BY BlocksType
  <2> HIDE DEF n
  <2>3. CASE Detection(noutput)
    <3>1. PICK i \in 0..n :
            /\ state' = "started" => samplesToRead' = maxSamplesToRead
            /\ Consume(i * decimation, i)
            /\ timeouts' = timeouts
      BY <2>3 DEF Detection, n
    <3>2. read0' = decimation * read1' + Drift'
      BY <2>2, <3>1, MoveTogether
    <3> QED  BY <1>0, <3>1, <3>2 DEF InputsDrift
  <2>4. CASE Started(noutput) /\ Ends(m)
    <3>1. /\ state = "started" /\ samplesToRead \in 1..maxSamplesToRead
          /\ read0 \in Nat /\ read1 \in Nat /\ timeouts \in Nat
      BY <2>4 DEF Started, TypeOK
    <3>2. /\ state' = "waiting" /\ timeouts' = timeouts + 1
          /\ Consume(Passed(m), PowerOf(Passed(m)))
      BY <2>4 DEF Started, n
    <3>3. Passed(m) = samplesToRead - 1 /\ Passed(m) \in Nat
      BY <2>2, <2>4, <3>1, PassedType
    <3>4. (maxSamplesToRead - samplesToRead) % decimation = 0
      BY <3>1 DEF InputsDrift
    <3>5. Passed(m) % decimation = Leftover
      BY <3>1, <3>3, <3>4, SameRemainder DEF Leftover
    <3>6. /\ PowerOf(Passed(m)) \in Nat
          /\ Passed(m) = PowerOf(Passed(m)) * decimation + Leftover
      BY <3>3, <3>5, DivMod DEF PowerOf
    <3>7. decimation * (read1 + PowerOf(Passed(m)))
            = decimation * read1 + PowerOf(Passed(m)) * decimation
      BY <3>1, <3>6, Distributes
    <3>8. Drift' = Drift + Leftover /\ Drift \in Nat
      <4>1. (timeouts + 1) * Leftover = timeouts * Leftover + 1 * Leftover
        BY <3>1, LeftoverType, Distributes
      <4>2. Drift = timeouts * Leftover /\ Drift' = (timeouts + 1) * Leftover
        BY <3>2 DEF Drift, Leftover
      <4> QED  BY <3>1, <4>1, <4>2, LeftoverType
    <3>9. decimation * read1 \in Nat /\ PowerOf(Passed(m)) * decimation \in Nat
      BY <3>1, <3>6
    <3>10. read0 = decimation * read1 + Drift
      BY DEF InputsDrift
    <3>11. /\ read0' = read0 + Passed(m)
           /\ read1' = read1 + PowerOf(Passed(m))
      BY <3>2 DEF Consume
    <3>12. read0' = decimation * read1' + Drift'
      BY <3>3, <3>6, <3>7, <3>8, <3>9, <3>10, <3>11, LeftoverType
    <3> QED  BY <1>0, <3>2, <3>12 DEF InputsDrift
  <2>5. CASE Started(noutput) /\ ~Ends(m)
    <3>1. /\ state = "started" /\ samplesToRead \in 1..maxSamplesToRead
          /\ read0 \in Nat /\ read1 \in Nat /\ timeouts \in Nat
      BY <2>5 DEF Started, TypeOK
    <3>2. /\ state' = "started" /\ timeouts' = timeouts
          /\ samplesToRead' = samplesToRead - m
          /\ Consume(Passed(m), PowerOf(Passed(m)))
      BY <2>5 DEF Started, n
    <3>3. Passed(m) = m /\ samplesToRead > m
      BY <2>2, <2>5, <3>1, PassedType
    <3>4. PowerOf(m) = n
      BY <2>2, DivCancels DEF PowerOf
    <3>5. read0' = decimation * read1' + Drift'
      BY <2>2, <3>2, <3>3, <3>4, MoveTogether
    <3>6. (maxSamplesToRead - samplesToRead) % decimation = 0
      BY <3>1 DEF InputsDrift
    <3> DEFINE q == (maxSamplesToRead - samplesToRead) \div decimation
    <3>7. q \in Nat /\ maxSamplesToRead - samplesToRead = q * decimation
      BY <3>1, <3>6, DivMod
    <3> HIDE DEF q
    <3>8. (q + n) * decimation = q * decimation + m
      BY <2>2, <3>7, Distributes
    <3>9. maxSamplesToRead - samplesToRead' = (q + n) * decimation
      BY <2>2, <3>1, <3>2, <3>7, <3>8
    <3>10. (maxSamplesToRead - samplesToRead') % decimation = 0
      BY <2>2, <3>7, <3>9, DivCancels
    <3> QED  BY <3>2, <3>5, <3>10 DEF InputsDrift
  <2>6. CASE Waiting(noutput)
    <3>1. PICK i \in 0..m :
            state' # "started" /\ Consume(i * decimation, i) /\ timeouts' = timeouts
      BY <2>6 DEF Waiting, n
    <3>2. read0' = decimation * read1' + Drift'
      BY <2>2, <3>1, MoveTogether
    <3> QED  BY <1>0, <3>1, <3>2 DEF InputsDrift
  <2> QED  BY <2>1, <2>3, <2>4, <2>5, <2>6
<1>3. CASE Reset
  BY <1>0, <1>3 DEF Reset, InputsDrift, Drift
<1> QED  BY <1>1, <1>2, <1>3 DEF Next

(* For every decimation and every length of the window, samples and powers *)
(* are consumed in proportion but for what the timeouts leave over.        *)
THEOREM DriftsByTimeouts == Spec => []InputsDrift
<1>1. Init => TypeOK /\ InputsDrift
  BY TypeInit, DriftInit
<1>2. TypeOK /\ InputsDrift /\ [Next]_vars => (TypeOK /\ InputsDrift)'
  BY TypeStep, DriftStep
<1> QED  BY <1>1, <1>2, PTL DEF Spec
-----------------------------------------------------------------------------
LEMMA WindowStep == TypeOK /\ WindowLength /\ [Next]_vars => WindowLength'
<1> SUFFICES ASSUME TypeOK, WindowLength, [Next]_vars PROVE WindowLength'
  OBVIOUS
<1>1. CASE ArriveSample \/ ArrivePower \/ UNCHANGED vars
  BY <1>1 DEF ArriveSample, ArrivePower, vars, WindowLength
<1>2. CASE Work
  <2>1. PICK noutput \in 1..MaxSamples :
          Detection(noutput) \/ Started(noutput) \/ Waiting(noutput)
    BY <1>2 DEF Work
  <2> DEFINE m == NBlocks(noutput) * decimation
  <2>2. m \in Nat
    BY BlocksType
  <2>3. CASE Detection(noutput)
    <3>1. \/ state' = "started" /\ samplesToRead' = maxSamplesToRead /\ passed' = 0
          \/ state' = "detection" /\ samplesToRead' = samplesToRead /\ passed' = passed
      BY <2>3 DEF Detection
    <3> QED  BY <3>1 DEF WindowLength
  <2>4. CASE Started(noutput)
    <3>1. /\ state = "started" /\ samplesToRead \in 1..maxSamplesToRead /\ passed \in Nat
      BY <2>4 DEF Started, TypeOK
    <3>2. /\ state' = IF Ends(m) THEN "waiting" ELSE "started"
          /\ samplesToRead' = IF Ends(m) THEN 0 ELSE samplesToRead - m
          /\ passed' = passed + Passed(m)
      BY <2>4 DEF Started
    <3>3. /\ Ends(m) => Passed(m) = samplesToRead - 1
          /\ ~Ends(m) => Passed(m) = m /\ samplesToRead > m
      BY <2>2, <3>1, PassedType
    <3> HIDE DEF m
    <3> QED  BY <2>2, <3>1, <3>2, <3>3 DEF WindowLength
  <2>5. CASE Waiting(noutput)
    BY <2>5 DEF Waiting, WindowLength
  <2> QED  BY <2>1, <2>3, <2>4, <2>5
<1>3. CASE Reset
  BY <1>3 DEF Reset, WindowLength, TypeOK
<1> QED  BY <1>1, <1>2, <1>3 DEF Next

(* However the calls cut it and whatever the window's length, a window     *)
(* that times out has passed on one sample less than maxSamplesToRead.     *)
THEOREM WindowsAreMeasured == Spec => []WindowLength
<1>1. Init => TypeOK /\ WindowLength
  BY TypeInit DEF Init, WindowLength
<1>2. TypeOK /\ WindowLength /\ [Next]_vars => (TypeOK /\ WindowLength)'
  BY TypeStep, WindowStep
<1> QED  BY <1>1, <1>2, PTL DEF Spec
-----------------------------------------------------------------------------
LEMMA RiseStep == TypeOK /\ OneWindowPerRise /\ [Next]_vars => OneWindowPerRise'
<1> SUFFICES ASSUME TypeOK, OneWindowPerRise, [Next]_vars PROVE OneWindowPerRise'
  OBVIOUS
<1>1. CASE ArriveSample \/ ArrivePower \/ UNCHANGED vars
  BY <1>1 DEF ArriveSample, ArrivePower, vars, OneWindowPerRise
<1>2. CASE Work
  <2>1. PICK noutput \in 1..MaxSamples :
          Detection(noutput) \/ Started(noutput) \/ Waiting(noutput)
    BY <1>2 DEF Work
  <2>2. CASE Detection(noutput)
    <3>1. state = "detection" /\ armed' = armed
      BY <2>2 DEF Detection
    <3>2. beyond' = "no" => beyond = "no"
      BY <2>2 DEF Detection, BeyondLoop, Beyond
    <3> QED  BY <3>1, <3>2 DEF OneWindowPerRise
  <2>3. CASE Started(noutput)
    <3>1. state = "started"
      BY <2>3 DEF Started
    <3>2. beyond' = "no" => beyond = "no"
      BY <2>3 DEF Started, Beyond
    <3>3. CASE state' = "waiting"
      BY <3>3 DEF OneWindowPerRise
    <3>4. CASE armed' = armed
      BY <3>1, <3>2, <3>4 DEF OneWindowPerRise
    <3>5. state' = "waiting" \/ armed' = armed
      BY <2>3 DEF Started
    <3> QED  BY <3>3, <3>4, <3>5
  <2>4. CASE Waiting(noutput)
    <3>1. PICK i \in 0..(NBlocks(noutput) * decimation) :
            /\ i < NBlocks(noutput) * decimation /\ Here(i) => Quiet(i)
            /\ state' = IF i < NBlocks(noutput) * decimation THEN "detection" ELSE "waiting"
            /\ armed' = (armed \/ (i < NBlocks(noutput) * decimation
                                     /\ Here(i) /\ Level(i) = "below"))
            /\ beyond' = BeyondLoop(i, NBlocks(noutput) * decimation)
      BY <2>4 DEF Waiting
    <3>2. CASE ~(i < NBlocks(noutput) * decimation)
      BY <3>1, <3>2 DEF OneWindowPerRise
    <3>3. CASE i < NBlocks(noutput) * decimation /\ Here(i)
      BY <3>1, <3>3 DEF OneWindowPerRise, Quiet
    <3>4. CASE i < NBlocks(noutput) * decimation /\ ~Here(i)
      <4>1. beyond' # "no"
        BY <3>1, <3>4 DEF BeyondLoop
      <4> QED  BY <4>1 DEF OneWindowPerRise
    <3> QED  BY <3>2, <3>3, <3>4
  <2> QED  BY <2>1, <2>2, <2>3, <2>4
<1>3. CASE Reset
  BY <1>3 DEF Reset, OneWindowPerRise
<1> QED  BY <1>1, <1>2, <1>3 DEF Next

(* As long as no call has looked behind its input, one rise of the power   *)
(* above the threshold gives one window.                                   *)
THEOREM RisesGiveOneWindow == Spec => []OneWindowPerRise
<1>1. Init => TypeOK /\ OneWindowPerRise
  BY TypeInit DEF Init, OneWindowPerRise
<1>2. TypeOK /\ OneWindowPerRise /\ [Next]_vars => (TypeOK /\ OneWindowPerRise)'
  BY TypeStep, RiseStep
<1> QED  BY <1>1, <1>2, PTL DEF Spec
-----------------------------------------------------------------------------
LEMMA LessTimes ==
  ASSUME NEW a \in Nat, NEW b \in Nat, NEW c \in Nat, c > 0
  PROVE  /\ a <= b => a * c <= b * c
         /\ a * c <= b * c => a <= b
BY SMTT(30)

(* A power item comes after the samples it is about.                       *)
PowersArrived == Len(powers) * decimation <= samples

LEMMA ArrivedStep == TypeOK /\ PowersArrived /\ [Next]_vars => PowersArrived'
<1> SUFFICES ASSUME TypeOK, PowersArrived, [Next]_vars PROVE PowersArrived'
  OBVIOUS
<1>0. Len(powers) \in Nat /\ samples \in Nat /\ Len(powers) * decimation \in Nat
  BY DEF TypeOK
<1>1. CASE ArriveSample
  BY <1>0, <1>1 DEF ArriveSample, PowersArrived
<1>2. CASE ArrivePower
  <2>1. PICK level \in Levels : powers' = Append(powers, level)
    BY <1>2 DEF ArrivePower
  <2>2. Len(powers') = Len(powers) + 1
    BY <2>1 DEF TypeOK
  <2> QED  BY <1>2, <2>2 DEF ArrivePower, PowersArrived
<1>3. CASE powers' = powers /\ samples' = samples
  BY <1>3 DEF PowersArrived
<1> QED
  BY <1>1, <1>2, <1>3
     DEF Next, Work, Detection, Started, Waiting, Reset, vars

(* What forecast() made sure of is enough for n items of power.            *)
LEMMA WithinForecast ==
  ASSUME TypeOK, NEW noutput \in 1..MaxSamples, Forecast(noutput),
         NEW used0 \in Nat, NEW used1 \in Nat,
         used0 <= NBlocks(noutput) * decimation, used1 <= NBlocks(noutput)
  PROVE  Beyond(used0, used1) = beyond
<1>1. /\ NBlocks(noutput) \in Nat /\ NBlocks(noutput) * decimation \in Nat
      /\ Len(powers) \in Nat /\ samples \in Nat /\ read0 \in Nat /\ read1 \in Nat
  BY BlocksType DEF TypeOK
<1>2. /\ samples - read0 >= NBlocks(noutput) * decimation
      /\ Len(powers) - read1 >= NBlocks(noutput)
  BY DEF Forecast, PowerItems
<1> QED  BY <1>1, <1>2 DEF Beyond

LEMMA LoopWithinForecast ==
  ASSUME TypeOK, NEW noutput \in 1..MaxSamples, Forecast(noutput),
         NEW n \in Nat, n <= NBlocks(noutput), NEW i \in 0..n
  PROVE  BeyondLoop(i, n) = beyond
<1>1. NBlocks(noutput) \in Nat /\ i \in Nat /\ i <= NBlocks(noutput)
  BY BlocksType
<1>2. i * decimation \in Nat /\ i * decimation <= NBlocks(noutput) * decimation
  BY <1>1, LessTimes
<1>3. Beyond(i * decimation, i) = beyond
  BY <1>1, <1>2, WithinForecast
<1>4. i < n => Here(i)
  <2>1. Len(powers) \in Nat /\ read1 \in Nat
    BY DEF TypeOK
  <2>2. Len(powers) - read1 >= NBlocks(noutput)
    BY DEF Forecast, PowerItems
  <2> QED  BY <1>1, <2>1, <2>2 DEF Here
<1> QED  BY <1>3, <1>4 DEF BeyondLoop

BeyondStep ==
  beyond' # beyond =>
    /\ state = "waiting" /\ decimation > 1
    /\ \/ \A k \in (read1 + 1)..Len(powers) : powers[k] # "below"
       \/ Drift > decimation

LEMMA BeyondOfWaiting ==
  ASSUME TypeOK, InputsDrift, PowersArrived, state = "waiting", NEW m \in Nat,
         NEW i \in 0..m, \A k \in 0..(i - 1) : Here(k) => ~Quiet(k),
         BeyondLoop(i, m) # beyond
  PROVE  \/ \A k \in (read1 + 1)..Len(powers) : powers[k] # "below"
         \/ Drift > decimation
<1>1. /\ Len(powers) \in Nat /\ samples \in Nat /\ read0 \in Nat /\ read1 \in Nat
      /\ timeouts \in Nat /\ i \in Nat
  BY DEF TypeOK
<1>2. CASE read1 + i >= Len(powers)
  <2>1. ASSUME NEW k \in (read1 + 1)..Len(powers)
        PROVE  powers[k] # "below"
    <3>1. k - 1 - read1 \in 0..(i - 1) /\ read1 + (k - 1 - read1) + 1 = k
          /\ read1 + (k - 1 - read1) < Len(powers)
      BY <1>1, <1>2
    <3>2. Here(k - 1 - read1)
      BY <3>1 DEF Here
    <3>3. ~Quiet(k - 1 - read1)
      BY <3>1, <3>2
    <3> QED  BY <3>1, <3>3 DEF Quiet, Level
  <2> QED  BY <2>1
<1>3. CASE read1 + i < Len(powers)
  <2>1. Here(i)
    BY <1>3 DEF Here
  <2>2. Beyond(i * decimation, i) # beyond
    BY <2>1 DEF BeyondLoop
  <2>3. i * decimation > samples - read0
    BY <1>1, <1>3, <2>2 DEF Beyond
  <2> DEFINE rest == Len(powers) - (read1 + i)
  <2>4. rest \in Nat /\ 1 <= rest /\ Len(powers) = (read1 + i) + rest
    BY <1>1, <1>3
  <2> HIDE DEF rest
  <2>5. Len(powers) * decimation = (read1 * decimation + i * decimation) + rest * decimation
    <3>1. ((read1 + i) + rest) * decimation = (read1 + i) * decimation + rest * decimation
      BY <1>1, <2>4, Distributes
    <3>2. (read1 + i) * decimation = read1 * decimation + i * decimation
      BY <1>1, Distributes
    <3> QED  BY <2>4, <3>1, <3>2
  <2>6. rest * decimation >= decimation
    <3>1. 1 * decimation <= rest * decimation
      BY <2>4, LessTimes
    <3> QED  BY <3>1, <2>4
  <2>7. read0 = read1 * decimation + Drift /\ Drift \in Nat
    BY <1>1, LeftoverType DEF InputsDrift, Drift, Leftover
  <2>8. /\ read1 * decimation \in Nat /\ i * decimation \in Nat
        /\ rest * decimation \in Nat /\ Len(powers) * decimation \in Nat
    BY <1>1, <2>4
  <2>9. Len(powers) * decimation <= samples
    BY DEF PowersArrived
  <2> QED  BY <1>1, <2>3, <2>5, <2>6, <2>7, <2>8, <2>9
<1> QED  BY <1>1, <1>2, <1>3

LEMMA BeyondNext ==
  TypeOK /\ InputsDrift /\ PowersArrived /\ [Next]_vars => BeyondStep
<1> SUFFICES ASSUME TypeOK, InputsDrift, PowersArrived, [Next]_vars PROVE BeyondStep
  OBVIOUS
<1>1. CASE ArriveSample \/ ArrivePower \/ Reset \/ UNCHANGED vars
  BY <1>1 DEF ArriveSample, ArrivePower, Reset, vars, BeyondStep
<1>2. CASE Work
  <2>1. PICK noutput \in 1..MaxSamples :
          Forecast(noutput) /\ (Detection(noutput) \/ Started(noutput) \/ Waiting(noutput))
    BY <1>2 DEF Work
  <2> DEFINE n == NBlocks(noutput)
             m == n * decimation
  <2>2. n \in Nat /\ m \in Nat
    BY BlocksType
  <2>3. CASE Detection(noutput)
    <3>1. PICK i \in 0..n : beyond' = BeyondLoop(i, n)
      BY <2>3 DEF Detection
    <3>2. n <= NBlocks(noutput)
      BY <2>2
    <3> HIDE DEF n
    <3>3. BeyondLoop(i, n) = beyond
      BY <2>1, <2>2, <3>2, LoopWithinForecast
    <3> QED  BY <3>1, <3>3 DEF BeyondStep
  <2>4. CASE Started(noutput)
    <3> HIDE DEF n
    <3>1. state = "started" /\ samplesToRead \in Nat /\ samplesToRead > 0
      BY <2>4 DEF Started, TypeOK
    <3>2. beyond' = Beyond(Passed(m), PowerOf(Passed(m)))
      BY <2>4 DEF Started, n
    <3>3. Passed(m) \in Nat /\ Passed(m) <= m
      BY <2>2, <3>1, PassedType
    <3>4. PowerOf(Passed(m)) \in Nat /\ PowerOf(Passed(m)) <= n
      <4>1. /\ PowerOf(Passed(m)) \in Nat
            /\ PowerOf(Passed(m)) * decimation <= Passed(m)
        <5>1. /\ Passed(m) \div decimation \in Nat
              /\ Passed(m) % decimation \in 0..(decimation - 1)
              /\ Passed(m) = (Passed(m) \div decimation) * decimation
                             + (Passed(m) % decimation)
          BY <3>3, DivMod
        <5>2. (Passed(m) \div decimation) * decimation \in Nat
          BY <5>1
        <5> QED  BY <5>1, <5>2 DEF PowerOf
      <4>2. PowerOf(Passed(m)) * decimation \in Nat
        BY <4>1
      <4>3. PowerOf(Passed(m)) * decimation <= n * decimation
        BY <2>2, <3>3, <4>1, <4>2
      <4> QED  BY <2>2, <4>1, <4>3, LessTimes
    <3>5. Passed(m) <= NBlocks(noutput) * decimation /\ PowerOf(Passed(m)) <= NBlocks(noutput)
      BY <3>3, <3>4 DEF n
    <3>6. Beyond(Passed(m), PowerOf(Passed(m))) = beyond
      BY <2>1, <3>3, <3>4, <3>5, WithinForecast
    <3> QED  BY <3>2, <3>6 DEF BeyondStep
  <2>5. CASE Waiting(noutput)
    <3>1. PICK i \in 0..m :
            /\ state = "waiting"
            /\ \A k \in 0..(i - 1) : Here(k) => ~Quiet(k)
            /\ beyond' = BeyondLoop(i, m)
      BY <2>5 DEF Waiting
    <3>2. CASE decimation = 1
      <4>1. m <= NBlocks(noutput)
        BY <2>2, <3>2
      <4> QED  BY <2>1, <2>2, <3>1, <4>1, LoopWithinForecast DEF BeyondStep
    <3>3. CASE decimation > 1
      <4> HIDE DEF m
      <4> QED  BY <2>2, <3>1, <3>3, BeyondOfWaiting DEF BeyondStep
    <3> QED  BY <3>2, <3>3
  <2> QED  BY <2>1, <2>3, <2>4, <2>5
<1> QED  BY <1>1, <1>2 DEF Next

(* For every decimation: only the waiting state leaves its input, and only *)
(* behind the last power that has arrived or after much drift.             *)
THEOREM BeyondOnlyWaiting == Spec => BeyondExplained
<1>1. Init => TypeOK /\ InputsDrift /\ PowersArrived
  <2>1. Init => PowersArrived
    BY DEF Init, PowersArrived
  <2> QED  BY <2>1, TypeInit, DriftInit
<1>2. TypeOK /\ InputsDrift /\ PowersArrived /\ [Next]_vars
        => (TypeOK /\ InputsDrift /\ PowersArrived)'
  BY TypeStep, DriftStep, ArrivedStep
<1>3. TypeOK /\ InputsDrift /\ PowersArrived /\ [Next]_vars => [BeyondStep]_vars
  BY BeyondNext
<1> QED
  <2>1. Spec => [][BeyondStep]_vars
    BY <1>1, <1>2, <1>3, PTL DEF Spec
  <2> QED  BY <2>1 DEF BeyondExplained, BeyondStep
=============================================================================
