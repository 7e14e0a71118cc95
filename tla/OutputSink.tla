------------------------------ MODULE OutputSink ------------------------------
(***************************************************************************)
(* OutputSinkModel: a drift estimator and a persistent resampler.  The     *)
(* samples are left out; what is kept is how many frames a block gives and *)
(* which place of the stream each is taken from.  Places and steps are     *)
(* counted in 1/Grid of a source frame, the clock ratio in 1/Grid of one.  *)
(***************************************************************************)
EXTENDS Integers

CONSTANTS
  Grid,     \* places per source frame
  History,  \* kPolyphaseHistoryFramesV1
  MaxDrift, \* the 500 ppm the estimator never leaves
  Inertia   \* weight of the old ratio against the new target

ASSUME OutputSinkAssumption ==
  /\ Grid \in Nat \ {0} /\ Grid % 4 = 0 /\ History \in Nat \ {0, 1}
  /\ MaxDrift \in 0..Grid - 1 /\ Inertia \in Nat \ {0}

Clamp(x, low, high) == IF x < low THEN low ELSE IF x > high THEN high ELSE x

\* set_source_step: a quarter of the source rate to four times it.
StepAllowed(step) == Grid <= 4 * step /\ step <= 4 * Grid

NewSink(base) ==
  [base |-> base, drift |-> 0, ratio |-> 0, step |-> base, shown |-> base, phase |-> 0, has |-> FALSE]

\* What the sink says of its clock.
Snapshot(k) == [ratio |-> k.ratio, step |-> k.shown]

\* OutputSinkModel::reset.  The snapshot is as after prepare; the step the
\* resampler works with is not put back, so it stays that of the last ratio.
ResetSink(k) ==
  [k EXCEPT !.drift = 0, !.ratio = 0, !.shown = k.base, !.phase = 0, !.has = FALSE]

\* ClockDriftEstimator::observe and the step that follows from it.
ObserveClock(k, target) ==
  LET wanted == Clamp(target, -MaxDrift, MaxDrift)
      drift == Clamp((Inertia * k.drift + wanted) \div (Inertia + 1), -MaxDrift, MaxDrift)
      step == (k.base * Grid) \div (Grid + drift)
  IN  IF StepAllowed(step) THEN [k EXCEPT !.drift = drift, !.ratio = drift, !.step = step, !.shown = step]
      ELSE [k EXCEPT !.drift = drift]

\* required_output_frames
Required(k, n) ==
  LET end == IF k.has THEN History + n ELSE n
      available == (end - 2) * Grid - k.phase
  IN  IF end < 2 \/ available < 0 THEN 0 ELSE available \div k.step + 1

\* The fast path at the source's own rate copies the block's frames and
\* stops at its end.
Passes(k) == k.step = Grid /\ k.phase % Grid = 0
FromBlock(k, n) == LET start == k.phase \div Grid IN IF start < n THEN n - start ELSE 0
Emitted(k, n) ==
  IF ~Passes(k) THEN Required(k, n)
  ELSE IF Required(k, n) < FromBlock(k, n) THEN Required(k, n) ELSE FromBlock(k, n)

\* Mutant: the fraction of a frame is dropped at the end of a block.
ProcessedForgetful(k, n) == [k EXCEPT !.phase = 0, !.has = TRUE]

Processed(k, n) ==
  LET next == k.phase + Emitted(k, n) * k.step - n * Grid
  IN  [k EXCEPT !.phase = IF next < 0 THEN 0 ELSE next, !.has = TRUE]

\* The place of the first and of the last frame a block gives, counted from
\* the start of that block: the filter starts in the history, the copy does
\* not.
FirstPlace(k) == IF k.has /\ ~Passes(k) THEN k.phase - History * Grid ELSE k.phase
LastPlace(k, n) == FirstPlace(k) + (Emitted(k, n) - 1) * k.step
=============================================================================
