--------------------------- MODULE Reconfiguration ---------------------------
(***************************************************************************)
(* The setters of LoRaRx, of the ChirpDetector inside it and of LoRaTx,    *)
(* called in any order while the flowgraph runs.  A setter stores its      *)
(* parameter, recomputes what depends on it by calling other setters, and  *)
(* tells some of the running blocks.  A floating-point value is the tuple  *)
(* of what it is computed from; BW and samp_rate are in kHz.               *)
(***************************************************************************)
EXTENDS Integers

CONSTANTS BWs, SFs, SampRates, Decimations, Syncwords, Thresholds,
          MaxDetectionDecim

ASSUME ParametersAssumption ==
  /\ BWs \subseteq Nat \ {0} /\ SampRates \subseteq Nat \ {0}
  /\ SFs \subseteq Nat /\ Decimations \subseteq Nat \ {0}
  /\ Syncwords \subseteq Nat /\ Thresholds \subseteq Nat
  /\ MaxDetectionDecim \in Nat \ {0}

VARIABLES
  built,   \* the parameters LoRaRx was built with
  rx,      \* attributes of LoRaRx, with those of its ChirpDetector in det
           \* and what running blocks have been told in told
  tx       \* attributes of LoRaTx

settings == <<built, rx, tx>>

Parameters ==
  [BW : BWs, SF : SFs, decimation : Decimations, detectionDecim : 1..MaxDetectionDecim,
   detectorThreshold : Thresholds, ignoreLowDataRateRequired : BOOLEAN,
   lowDataRate : BOOLEAN, samp_rate : SampRates, syncwordNumber : Syncwords]
-----------------------------------------------------------------------------
(* What the variables are computed from, always with the same formula.     *)
(* Python's round() takes a half to the even side.                         *)
Round(a, b) ==
  LET q == a \div b
      r == 2 * (a % b)
  IN  IF r > b \/ (r = b /\ q % 2 = 1) THEN q + 1 ELSE q

OSFOf(c) == Round(c.samp_rate, c.BW)
SymbolSizeOf(c) == (2^c.SF * c.OSF) \div c.decimation
WindowSizeOf(c) == (c.symbolSize * c.decimation) \div 4
DFTSizeOf(c) == c.symbolSize * c.decimation
PreambleOf(c) == <<c.SF, c.symbolSize, c.syncwordNumber>>
PreambleComplexOf(c) == <<c.OSF * c.decimation, PreambleOf(c)>>
MaxFrameTimeOf(c) == <<c.SF, c.BW>>
LowDataRateRequiredOf(c) == 16 * c.BW < 2^c.SF /\ ~c.ignoreLowDataRateRequired
ChirpWindowOf(c) == <<c.DFTSize, c.windowSize, c.SF, c.symbolSize * c.decimation>>

ChirpRateOf(d) == <<d.BW, d.samp_rate, d.SF>>
KernelOf(d) == <<d.DFTSize, d.windowSize, d.chirpRate>>
-----------------------------------------------------------------------------
(* The setters of ChirpDetector.  Each recomputes chirpWindow, which is    *)
(* also the kernel the running multiply_const gets.                        *)
DetSetChirpWindow(d) == [d EXCEPT !.chirpWindow = KernelOf(d)]
DetSetWindowSize(d) == DetSetChirpWindow([d EXCEPT !.windowSize = d.DFTSize])
DetSetDFTSize(d, n) == DetSetWindowSize(DetSetChirpWindow([d EXCEPT !.DFTSize = n]))
DetSetChirpRate(d) == DetSetChirpWindow([d EXCEPT !.chirpRate = ChirpRateOf(d)])
DetSetBW(d, BW) == DetSetChirpRate([d EXCEPT !.BW = BW])
DetSetSF(d, SF) == DetSetChirpRate([d EXCEPT !.SF = SF])

(* The setters of LoRaRx's variables: each is only ever called with what   *)
(* the variable's formula gives at the time.                               *)
SetChirpWindow(c) == [c EXCEPT !.chirpWindow = ChirpWindowOf(c)]
SetPreambleComplex(c) == [c EXCEPT !.preambleComplex = PreambleComplexOf(c)]
SetPreambleNormalized(c) == [c EXCEPT !.preambleNormalized = PreambleOf(c)]
SetUpchirp(c) == [c EXCEPT !.upchirp = <<c.SF, c.symbolSize>>]
SetLowDataRateRequired(c) == [c EXCEPT !.lowDataRateRequired = LowDataRateRequiredOf(c)]
SetMaxFrameTime(c) ==
  [c EXCEPT !.maxFrameTime = MaxFrameTimeOf(c), !.det.timeout = MaxFrameTimeOf(c)]
SetWindowSize(c) == SetChirpWindow([c EXCEPT !.windowSize = WindowSizeOf(c)])
SetDFTSize(c) ==
  SetChirpWindow([c EXCEPT !.DFTSize = DFTSizeOf(c), !.told.scale = DFTSizeOf(c)])
SetDetDFTSize(c) == [c EXCEPT !.det = DetSetDFTSize(c.det, c.symbolSize * c.decimation)]

(* mutant: windowSize is not recomputed                                    *)
SetSymbolSizeNoWindow(c) ==
  SetDetDFTSize(SetUpchirp(SetPreambleNormalized(SetPreambleComplex(
    SetDFTSize([c EXCEPT !.symbolSize = SymbolSizeOf(c)])))))

SetSymbolSize(c) ==
  SetDetDFTSize(SetWindowSize(SetUpchirp(SetPreambleNormalized(SetPreambleComplex(
    SetChirpWindow(SetDFTSize([c EXCEPT !.symbolSize = SymbolSizeOf(c)])))))))

SetOSF(c) == SetSymbolSize(SetPreambleComplex([c EXCEPT !.OSF = OSFOf(c)]))
-----------------------------------------------------------------------------
(* The setters of LoRaRx's parameters.                                     *)
RxBW(c, BW) ==
  LET d == SetMaxFrameTime(SetLowDataRateRequired(SetOSF([c EXCEPT !.BW = BW])))
  IN  [d EXCEPT !.det = DetSetBW(d.det, BW)]

RxSF(c, SF) ==
  LET d == SetUpchirp(SetSymbolSize(SetPreambleNormalized(SetPreambleComplex(
             SetMaxFrameTime(SetLowDataRateRequired(SetChirpWindow([c EXCEPT !.SF = SF])))))))
  IN  [d EXCEPT !.det = DetSetSF(d.det, SF), !.told.SF = SF]

(* mutant: the running multiply_const keeps its factor                     *)
RxDecimationUntold(c, decimation) ==
  SetDetDFTSize(SetWindowSize(SetSymbolSize(SetPreambleComplex(SetChirpWindow(
    SetDFTSize([c EXCEPT !.decimation = decimation]))))))

RxDecimation(c, decimation) ==
  LET d == SetDetDFTSize(SetWindowSize(SetSymbolSize(SetPreambleComplex(SetChirpWindow(
             SetDFTSize([c EXCEPT !.decimation = decimation]))))))
  IN  [d EXCEPT !.told.k = decimation]

RxSampRate(c, samp_rate) == SetOSF([c EXCEPT !.samp_rate = samp_rate])

RxSyncword(c, n) == SetPreambleNormalized(SetPreambleComplex([c EXCEPT !.syncwordNumber = n]))

RxIgnore(c, b) == SetLowDataRateRequired([c EXCEPT !.ignoreLowDataRateRequired = b])

RxThreshold(c, t) == [c EXCEPT !.detectorThreshold = t, !.det.threshold = t]
-----------------------------------------------------------------------------
(* The setters of LoRaTx, which tell no block.                             *)
TxSetPreamble(c) == [c EXCEPT !.preambleFrequency = PreambleOf(c)]
TxSetOSF(c) ==
  LET d == [c EXCEPT !.OSF = OSFOf(c)]
  IN  TxSetPreamble([d EXCEPT !.symbolSize = 2^d.SF * d.OSF])
TxSF(c, SF) ==
  LET d == TxSetPreamble([c EXCEPT !.SF = SF])
  IN  TxSetPreamble([d EXCEPT !.symbolSize = 2^d.SF * d.OSF])
-----------------------------------------------------------------------------
(* ChirpDetector.__init__ as LoRaRx calls it.                              *)
BuiltDetector(p, DFTSize) ==
  LET chirpRate == <<p.BW, p.samp_rate, p.SF>>
  IN  [samp_rate |-> p.samp_rate, BW |-> p.BW, SF |-> p.SF, DFTSize |-> DFTSize,
       windowSize |-> DFTSize, threshold |-> p.detectorThreshold,
       timeout |-> <<p.SF, p.BW>>, chirpRate |-> chirpRate,
       chirpWindow |-> <<DFTSize, DFTSize, chirpRate>>]

(* LoRaRx.__init__ with the parameters p.                                  *)
BuiltRx(p) ==
  LET OSF        == Round(p.samp_rate, p.BW)
      symbolSize == (2^p.SF * OSF) \div p.decimation
      DFTSize    == symbolSize * p.decimation
      windowSize == DFTSize \div 4
      preamble   == <<p.SF, symbolSize, p.syncwordNumber>>
  IN  [BW |-> p.BW, SF |-> p.SF, decimation |-> p.decimation,
       detectionDecim |-> p.detectionDecim, detectorThreshold |-> p.detectorThreshold,
       ignoreLowDataRateRequired |-> p.ignoreLowDataRateRequired,
       lowDataRate |-> p.lowDataRate, samp_rate |-> p.samp_rate,
       syncwordNumber |-> p.syncwordNumber,
       OSF |-> OSF, symbolSize |-> symbolSize, DFTSize |-> DFTSize, windowSize |-> windowSize,
       upchirp |-> <<p.SF, symbolSize>>, preambleNormalized |-> preamble,
       preambleComplex |-> <<OSF * p.decimation, preamble>>,
       maxFrameTime |-> <<p.SF, p.BW>>,
       lowDataRateRequired |-> 16 * p.BW < 2^p.SF /\ ~p.ignoreLowDataRateRequired,
       chirpWindow |-> <<DFTSize, windowSize, p.SF, DFTSize>>,
       det |-> BuiltDetector(p, DFTSize),
       told |-> [scale |-> DFTSize, k |-> p.decimation, SF |-> p.SF]]

(* LoRaTx.__init__ in an application that gives both the same parameters.  *)
BuiltTx(p) ==
  LET symbolSize == 2^p.SF * Round(p.samp_rate, p.BW)
  IN  [BW |-> p.BW, SF |-> p.SF, samp_rate |-> p.samp_rate,
       syncwordNumber |-> p.syncwordNumber, OSF |-> Round(p.samp_rate, p.BW),
       symbolSize |-> symbolSize,
       preambleFrequency |-> <<p.SF, symbolSize, p.syncwordNumber>>]

Build ==
  /\ built \in Parameters
  /\ ~built.lowDataRate /\ built.detectionDecim = 1    \* no variable depends on them
  /\ rx = BuiltRx(built)
  /\ tx = BuiltTx(built)

(* The user changes a parameter: the application calls the setters of both *)
(* hier blocks.                                                            *)
ChangeBW ==
  \E BW \in BWs : rx' = RxBW(rx, BW) /\ tx' = TxSetOSF([tx EXCEPT !.BW = BW])
ChangeSF ==
  \E SF \in SFs : rx' = RxSF(rx, SF) /\ tx' = TxSF(tx, SF)
ChangeSampRate ==
  \E r \in SampRates :
    rx' = RxSampRate(rx, r) /\ tx' = TxSetOSF([tx EXCEPT !.samp_rate = r])
ChangeSyncword ==
  \E n \in Syncwords :
    rx' = RxSyncword(rx, n) /\ tx' = TxSetPreamble([tx EXCEPT !.syncwordNumber = n])
ChangeDecimation ==
  \E d \in Decimations : rx' = RxDecimation(rx, d) /\ tx' = tx
ChangeThreshold ==
  \E t \in Thresholds : rx' = RxThreshold(rx, t) /\ tx' = tx
ChangeIgnore ==
  \E b \in BOOLEAN : rx' = RxIgnore(rx, b) /\ tx' = tx
ChangeLowDataRate ==
  \E b \in BOOLEAN : rx' = [rx EXCEPT !.lowDataRate = b] /\ tx' = tx
ChangeDetectionDecim ==
  \E n \in 1..MaxDetectionDecim : rx' = [rx EXCEPT !.detectionDecim = n] /\ tx' = tx

Change ==
  ChangeBW \/ ChangeSF \/ ChangeSampRate \/ ChangeSyncword \/ ChangeDecimation
  \/ ChangeThreshold \/ ChangeIgnore \/ ChangeLowDataRate \/ ChangeDetectionDecim

(* receiverController, which is not told anything, tells the demodulator   *)
(* and the Gray code the SF of what comes next.                            *)
ControllerSetsSF ==
  /\ \E SF \in {built.SF - 2, built.SF} : rx' = [rx EXCEPT !.told.SF = SF]
  /\ tx' = tx

Set == (Change \/ ControllerSetsSF) /\ built' = built

SettingsSpec == Build /\ [][Set]_settings
-----------------------------------------------------------------------------
Now == [f \in DOMAIN built |-> rx[f]]

(* However the parameters got their values, all variables have those they  *)
(* would have after __init__ with these parameters, so that no order of    *)
(* calls leaves one behind; ChirpDetector alone goes on with the samp_rate *)
(* it was built with, as set_samp_rate of LoRaRx does not pass it on.      *)
VariablesCurrent ==
  LET fresh == BuiltRx(Now)
      rate  == <<Now.BW, built.samp_rate, Now.SF>>
  IN  /\ Now \in Parameters
      /\ rx = [fresh EXCEPT !.told.SF = rx.told.SF,
                            !.det.samp_rate = built.samp_rate, !.det.chirpRate = rate,
                            !.det.chirpWindow = <<fresh.DFTSize, fresh.DFTSize, rate>>]
      /\ tx = BuiltTx(Now)

AsBuilt ==
  LET old == BuiltRx(built)
  IN  rx.det.chirpWindow = old.det.chirpWindow
      /\ rx.told.scale = old.told.scale /\ rx.told.k = old.told.k

(* Blocks that run on with the vector length, window and preamble they     *)
(* were built with are joined by some that follow the parameters: the two  *)
(* still fit exactly if BW, SF, decimation and the rounded oversampling    *)
(* are those of the construction.  The demodulator counts in a table of    *)
(* the 2^SF bins it was built for and can leave it only while SF is above  *)
(* that and the controller has not set it back.                            *)
RunningBlocks ==
  LET old == BuiltRx(built)
  IN  /\ AsBuilt <=> /\ \A f \in {"BW", "SF", "decimation"} : rx[f] = built[f]
                     /\ rx.OSF = old.OSF
      /\ rx.told.SF > built.SF => rx.told.SF = rx.SF
=============================================================================
