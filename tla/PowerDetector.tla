---------------------------- MODULE PowerDetector ----------------------------
(***************************************************************************)
(* The block PowerDetector in samples.  Port 0 carries samples, port 1 one *)
(* power item for every `decimation' samples.  A power above the threshold *)
(* opens a window, in which samples are passed on; a reset or a timeout    *)
(* closes it, and a power below the threshold arms the detector again.     *)
(* The two inputs are only kept together by consuming them in proportion.  *)
(***************************************************************************)
EXTENDS Integers, Sequences

CONSTANTS
  decimation,         \* samples for each power item
  maxSamplesToRead,   \* length of a window that is not reset
  MaxSamples          \* bound on the samples that arrive

ASSUME DecimationAssumption == decimation \in Nat \ {0}
ASSUME TimeoutAssumption == maxSamplesToRead \in Nat \ {0}
ASSUME BoundAssumption == MaxSamples \in Nat

VARIABLES
  state,            \* detection, started or waiting
  samplesToRead,    \* what is left of the window
  samples, powers,  \* items that have arrived: their number; their levels
  read0, read1,     \* items consumed of each
  passed,           \* history: samples of this or the last window passed on
  timeouts,         \* history: windows closed by the timeout
  armed,            \* history: a low power has been read since the last window
  beyond            \* history: "no", or what a call did behind its input

vars == <<state, samplesToRead, samples, powers, read0, read1, passed, timeouts,
          armed, beyond>>

Levels == {"below", "at", "above"}
-----------------------------------------------------------------------------
Init ==
  /\ state = "detection"
  /\ samplesToRead \in 0..maxSamplesToRead    \* not initialised
  /\ samples = 0 /\ powers = <<>>
  /\ read0 = 0 /\ read1 = 0
  /\ passed = 0 /\ timeouts = 0
  /\ armed = TRUE
  /\ beyond = "no"

ArriveSample ==
  /\ samples < MaxSamples
  /\ samples' = samples + 1
  /\ UNCHANGED <<state, samplesToRead, powers, read0, read1, passed, timeouts, armed, beyond>>

(* The power of a block of samples comes some time after the samples.      *)
ArrivePower ==
  /\ (Len(powers) + 1) * decimation <= samples
  /\ \E level \in Levels : powers' = Append(powers, level)
  /\ UNCHANGED <<state, samplesToRead, samples, read0, read1, passed, timeouts, armed, beyond>>

(* Power items, and blocks of samples, for noutput_items.                  *)
NBlocks(noutput) == (noutput + decimation - 1) \div decimation

(* mutant: the division is not rounded up                                  *)
PowerItemsDown(noutput) == noutput \div decimation

PowerItems(noutput) == NBlocks(noutput)

(* What forecast() makes sure of.                                          *)
Forecast(noutput) ==
  /\ samples - read0 >= NBlocks(noutput) * decimation
  /\ Len(powers) - read1 >= PowerItems(noutput)

Beyond(used0, used1) ==
  IF used0 > samples - read0 \/ used1 > Len(powers) - read1 THEN "consumed" ELSE beyond

Consume(used0, used1) ==
  /\ read0' = read0 + used0
  /\ read1' = read1 + used1

Level(i) == powers[read1 + i + 1]
Here(i) == read1 + i < Len(powers)

(* Of a loop over n items that leaves at item i and consumes i of them.    *)
BeyondLoop(i, n) ==
  IF Beyond(i * decimation, i) = "no" /\ i < n /\ ~Here(i)
  THEN "read" ELSE Beyond(i * decimation, i)
-----------------------------------------------------------------------------
(* The loop stops at the first power above the threshold, which it leaves  *)
(* at the input, as it does the samples that belong to it.                 *)
Detection(noutput) ==
  LET n == NBlocks(noutput)
  IN  /\ state = "detection"
      /\ \E i \in 0..n :
           /\ \A k \in 0..(i - 1) : Here(k) => Level(k) # "above"
           /\ i < n /\ Here(i) => Level(i) = "above"
           /\ state' = IF i < n THEN "started" ELSE "detection"
           /\ samplesToRead' = IF i < n THEN maxSamplesToRead ELSE samplesToRead
           /\ passed' = IF i < n THEN 0 ELSE passed
           /\ beyond' = BeyondLoop(i, n)
           /\ Consume(i * decimation, i)
      /\ UNCHANGED <<samples, powers, timeouts, armed>>

(* mutant: the end of the window is noticed one sample late                *)
EndsLate(nOutput) == samplesToRead < nOutput

Ends(nOutput) == samplesToRead <= nOutput

(* mutant: the last sample of the window is passed on as well              *)
PassedWhole(nOutput) == IF samplesToRead <= nOutput THEN samplesToRead ELSE nOutput

(* The loop leaves at the sample with which samplesToRead becomes 0 before *)
(* it is counted.                                                          *)
Passed(nOutput) == IF samplesToRead <= nOutput THEN samplesToRead - 1 ELSE nOutput

(* mutant: the power item of a part of a block is consumed, too            *)
PowerOfRoundedUp(used) == (used + decimation - 1) \div decimation

PowerOf(used) == used \div decimation

Started(noutput) ==
  LET nOutput == NBlocks(noutput) * decimation
      ends    == Ends(nOutput)
      i       == Passed(nOutput)
  IN  /\ state = "started"
      /\ state' = IF ends THEN "waiting" ELSE "started"
      /\ samplesToRead' = IF ends THEN 0 ELSE samplesToRead - nOutput
      /\ timeouts' = IF ends THEN timeouts + 1 ELSE timeouts
      /\ armed' = IF ends THEN FALSE ELSE armed
      /\ passed' = passed + i
      /\ beyond' = Beyond(i, PowerOf(i))
      /\ Consume(i, PowerOf(i))
      /\ UNCHANGED <<samples, powers>>

(* mutant: ends the wait at a power that is not above the threshold        *)
QuietNotAbove(i) == Level(i) # "above"

Quiet(i) == Level(i) = "below"

(* The loop goes over as many power items as there are samples, which are  *)
(* more than forecast() asked for; behind the input it compares whatever   *)
(* the buffer holds.                                                       *)
Waiting(noutput) ==
  LET nOutput == NBlocks(noutput) * decimation
  IN  /\ state = "waiting"
      /\ \E i \in 0..nOutput :
           /\ \A k \in 0..(i - 1) : Here(k) => ~Quiet(k)
           /\ i < nOutput /\ Here(i) => Quiet(i)
           /\ state' = IF i < nOutput THEN "detection" ELSE "waiting"
           /\ armed' = (armed \/ (i < nOutput /\ Here(i) /\ Level(i) = "below"))
           /\ beyond' = BeyondLoop(i, nOutput)
           /\ Consume(i * decimation, i)
      /\ UNCHANGED <<samplesToRead, samples, powers, passed, timeouts>>

Work ==
  /\ beyond # "consumed"    \* GNU Radio's pointers are wrong from then on
  /\ \E noutput \in 1..MaxSamples :
       /\ Forecast(noutput)
       /\ Detection(noutput) \/ Started(noutput) \/ Waiting(noutput)

(* The handler of the reset port.                                          *)
Reset ==
  /\ state = "started"
  /\ state' = "waiting"
  /\ armed' = FALSE
  /\ UNCHANGED <<samplesToRead, samples, powers, read0, read1, passed, timeouts, beyond>>

Next == ArriveSample \/ ArrivePower \/ Work \/ Reset

Spec == Init /\ [][Next]_vars
-----------------------------------------------------------------------------
(* No call consumes what has not arrived, and the window always has a      *)
(* sample left: samplesToRead, which is unsigned, is not counted past 0.   *)
TypeOK ==
  /\ state \in {"detection", "started", "waiting"}
  /\ samplesToRead \in 0..maxSamplesToRead
  /\ state = "started" => samplesToRead > 0
  /\ samples \in Nat /\ powers \in Seq(Levels)
  /\ read0 \in Nat /\ read1 \in Nat
  /\ beyond # "consumed" => read0 <= samples /\ read1 <= Len(powers)
  /\ passed \in Nat /\ timeouts \in Nat /\ armed \in BOOLEAN
  /\ beyond \in {"no", "read", "consumed"}

(* The part of a block that each timeout leaves over.                      *)
Drift == timeouts * ((maxSamplesToRead - 1) % decimation)

(* The samples run ahead of their powers by what the timeouts left over,   *)
(* and by nothing else: a reset, and any number of calls of any size in    *)
(* any state, keep the two inputs together.                                *)
InputsDrift ==
  LET open == IF state = "started" THEN maxSamplesToRead - samplesToRead ELSE 0
  IN  /\ open % decimation = 0
      /\ read0 = decimation * read1 + Drift

(* A window passes on at most one sample less than maxSamplesToRead, and   *)
(* just that many when the timeout ends it, however the calls cut it.      *)
WindowLength ==
  /\ passed <= maxSamplesToRead - 1
  /\ state = "started" => passed + samplesToRead = maxSamplesToRead
  /\ state = "waiting" /\ samplesToRead = 0 => passed = maxSamplesToRead - 1

(* Only the waiting state looks or consumes behind its input: if all the   *)
(* power that has arrived is at the threshold or above it, so that the end *)
(* of a signal is never passed over, or if the samples have run ahead by   *)
(* more than a block.                                                      *)
BeyondExplained ==
  [][beyond' # beyond =>
       /\ state = "waiting" /\ decimation > 1
       /\ \/ \A k \in (read1 + 1)..Len(powers) : powers[k] # "below"
          \/ Drift > decimation]_vars

(* A window opens only after a power below the threshold has been read     *)
(* since the last one, so one rise of the power gives one window.          *)
OneWindowPerRise ==
  beyond = "no" /\ state \in {"detection", "started"} => armed
=============================================================================
