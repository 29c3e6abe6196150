--------------------------------- MODULE Drift ---------------------------------
(***************************************************************************)
(* Clock drift at the receiver: the estimator (drift.rs), the resampler it  *)
(* steers (resample.rs) and the null render device behind it (receiver.rs).  *)
(* Frame i of the stream is rendered at a time the environment chooses.     *)
(* Rates are kept in units of a quarter ppm, the step of the settings; the   *)
(* fit itself is exact.  One frame of audio is due every Cadence ms.         *)
(***************************************************************************)
EXTENDS Integers, FiniteSetsExt, SequencesExt

CONSTANTS
    FrameSamples,   \* sample frames in a frame of the stream
    Half,           \* HALF: lookahead of the interpolator, in sample frames
    Unit,           \* quarter ppms in one: the grid of positions
    Cadence,        \* ms between two frames of a stream without drift
    Gaps,           \* ms between two rendered frames
    UpdateInterval, MaxStep, Deadband, Prefill, MaxEst, Window,  \* DriftConfig
    MaxGap,         \* underrun threshold of the null device, in ms
    MaxFrames       \* bound: frames rendered

ASSUME DriftAssumption ==
    /\ FrameSamples \in Nat \ {0} /\ Half \in Nat \ {0} /\ Unit \in Nat \ {0}
    /\ Cadence \in Nat \ {0} /\ Gaps \subseteq Nat /\ UpdateInterval \in Nat
    /\ MaxStep \in Nat \ {0} /\ Deadband \in Nat /\ Prefill \in Nat /\ MaxEst \in Nat
    /\ MaxEst < Unit /\ Window \in Nat \ {0} /\ MaxGap \in Nat /\ MaxFrames \in Nat

VARIABLES
    lane_repr,        \* samples of the lane: "i16" or "i24"
    est,         \* the estimator, or Off
    rs,          \* its resampler
    now,         \* arrival clock, in ms
    fed,         \* frames rendered
    device,      \* the null render device
    panicked     \* the resampler indexed outside its history

driftVars == <<lane_repr, est, rs, now, fed, device, panicked>>

Off == [on |-> FALSE]

\* A deque of input frames [first, total), the position of the next output and
\* the distance to the one after it, both on the grid.
ResamplerI16 == [step |-> Unit, pos |-> 0, first |-> 0, total |-> 0]

\* DriftEstimator::new.
Estimator ==
    [on |-> TRUE, obs |-> << >>, total |-> 0, last |-> -1, applied |-> 0,
     signal |-> "Idle", corrected |-> FALSE]

\* NullRenderSink: what it played, each sample by its position in the source.
NullRenderSink == [out |-> << >>, last |-> -1, underruns |-> 0]

DriftInit ==
    /\ lane_repr \in {"i16", "i24"} /\ est = Off /\ rs = ResamplerI16 /\ now = 0 /\ fed = 0
    /\ device = NullRenderSink /\ panicked = FALSE

-----------------------------------------------------------------------------
(***************************************************************************)
(* The fit.  obs[i] is <<x, y>>: a media time and the time it was rendered.  *)
(***************************************************************************)

\* The least-squares slope over the observations I: a fraction <<num, den>>.
Slope(obs, I) ==
    LET X  == [i \in I |-> obs[i][1]]
        Y  == [i \in I |-> obs[i][2]]
        XX == [i \in I |-> X[i] * X[i]]
        XY == [i \in I |-> X[i] * Y[i]]
        n  == Cardinality(I)
    IN << n * SumFunction(XY) - SumFunction(X) * SumFunction(Y),
          n * SumFunction(XX) - SumFunction(X) * SumFunction(X) >>

\* Residuals, times n and the slope's denominator.
Residuals(obs) ==
    LET X == [i \in DOMAIN obs |-> obs[i][1]]
        Y == [i \in DOMAIN obs |-> obs[i][2]]
        n == Len(obs)
        b == Slope(obs, DOMAIN obs)
    IN [i \in DOMAIN obs |->
          n * b[2] * Y[i] - (SumFunction(Y) * b[2] - b[1] * SumFunction(X)) - n * b[1] * X[i]]

Sorted(v) == SortSeq(v, <)
Magnitude(x) == IF x < 0 THEN -x ELSE x

\* Twice the median.
median(v) ==
    LET s == Sorted(v)
        n == Len(v)
    IN IF n = 0 THEN 0
       ELSE IF n % 2 = 1 THEN 2 * s[(n + 1) \div 2] ELSE s[n \div 2] + s[n \div 2 + 1]

\* Twice the distances from the median.
Deviations(v) == [i \in DOMAIN v |-> Magnitude(2 * v[i] - median(v))]

\* The observations whose deviations lie within four median deviations.
Near(obs, dev) == {i \in DOMAIN obs : dev[i] <= 2 * median(dev)}

\* The observations the second fit keeps.  Taking the median sorts the
\* residuals where they are, so that the test of observation i reads the ith
\* smallest residual.
Survivors(obs) == Near(obs, Deviations(Sorted(Residuals(obs))))

\* Fewer than two observations, or none that differ in media time, have no slope.
Flat(obs, I) == Cardinality(I) < 2 \/ Slope(obs, I)[2] = 0

\* The slope of the survivors, or none.
fit_slope(obs) ==
    LET Of(kept) == IF Flat(obs, kept) THEN << >> ELSE Slope(obs, kept)
    IN IF Flat(obs, DOMAIN obs) THEN << >> ELSE Of(Survivors(obs))

\* Apparent drift of a slope, in quarter ppms: media time counts frames here.
raw_ppm(b) == ((b[1] - Cadence * b[2]) * Unit) \div (Cadence * b[2])

-----------------------------------------------------------------------------
(***************************************************************************)
(* The update.  It yields the estimator and the step of the resampler.      *)
(***************************************************************************)

\* The ratio of a correction, to first order.
Ratio(ppm) == Unit - ppm

\* MUTANT: the correction jumps to the estimate.
Slew_Jumps(applied, raw) == raw

Slew(applied, raw) ==
    LET up == IF raw > applied - MaxStep THEN raw ELSE applied - MaxStep
    IN IF up < applied + MaxStep THEN up ELSE applied + MaxStep

\* MUTANT: the flag says what is applied now, not what was ever applied.
Correct_Unlatched(e, step, b) ==
    LET t == Slew(e.applied, raw_ppm(b))
    IN IF b = << >> THEN <<e, step>>
       ELSE IF Magnitude(raw_ppm(b)) > MaxEst THEN <<[e EXCEPT !.signal = "Excessive"], step>>
       ELSE IF Magnitude(t) < Deadband
            THEN <<[e EXCEPT !.signal = "Idle", !.applied = 0, !.corrected = FALSE], Ratio(0)>>
       ELSE <<[e EXCEPT !.applied = t, !.signal = "Correcting", !.corrected = TRUE],
              Ratio(t)>>

\* The update for slope b.  Nothing is applied above MaxEst, and nothing is
\* changed inside the deadband: a correction applied before stays applied.
Correct(e, step, b) ==
    LET t == Slew(e.applied, raw_ppm(b))
    IN IF b = << >> THEN <<e, step>>
       ELSE IF Magnitude(raw_ppm(b)) > MaxEst THEN <<[e EXCEPT !.signal = "Excessive"], step>>
       ELSE IF Magnitude(t) < Deadband
            THEN IF e.corrected THEN <<[e EXCEPT !.signal = "Idle"], step>>
                 ELSE <<[e EXCEPT !.signal = "Idle", !.applied = 0], Ratio(0)>>
       ELSE <<[e EXCEPT !.applied = t, !.signal = "Correcting", !.corrected = TRUE],
              Ratio(t)>>

run_update(e, step) == Correct(e, step, fit_slope(e.obs))

\* push: a sliding window of observations.
PushObs(obs, o) == Append(IF Len(obs) >= Window THEN Tail(obs) ELSE obs, o)

\* sample_frame: an update is due at first, and then once an interval.
sample_frame(e, step, ts, ms) ==
    LET s == [e EXCEPT !.obs = PushObs(@, <<ts, ms>>), !.total = @ + 1]
        due == e.last = -1 \/ (IF ms > e.last THEN ms - e.last ELSE 0) >= UpdateInterval
    IN IF due /\ s.total >= Prefill THEN run_update([s EXCEPT !.last = ms], step)
       ELSE <<s, step>>

-----------------------------------------------------------------------------
(***************************************************************************)
(* The resampler.                                                          *)
(***************************************************************************)

\* The kernel's row for a whole position is the sample itself; every other row
\* interpolates.
Kernel(pos) == [pos |-> pos, exact |-> pos % Unit = 0]

\* An output needs the input up to Half sample frames ahead of it.
can_produce(r) == (r.pos \div Unit) + Half < r.total

\* MUTANT: only the future of the next output is kept.
KeepFrom_Future(pos) == pos \div Unit

\* trim_history: the oldest input the next output reads.
KeepFrom(pos) == IF (pos \div Unit) > Half THEN (pos \div Unit) - Half ELSE 0

MaxOf(a, b) == IF a > b THEN a ELSE b
MinOf(a, b) == IF a < b THEN a ELSE b

\* Outputs a history of total frames gives, from pos, step by step.
Outputs(r) ==
    LET end == (r.total - Half) * Unit
    IN IF end <= r.pos THEN 0 ELSE (end - r.pos + r.step - 1) \div r.step

\* The history when the kth of them (from 0) is read.
FirstAt(r, k) ==
    IF k = 0 THEN r.first ELSE MaxOf(r.first, MinOf(KeepFrom(r.pos + k * r.step), r.total))

\* Whether an output at pos reads only frames that are held, or lie before the
\* start of the stream.
TapsHeld(pos, first) == MaxOf((pos \div Unit) - Half + 1, 0) >= first

\* process: append, emit while the lookahead is there, trim after each output.
process(r, frames) ==
    LET f == [r EXCEPT !.total = @ + frames]
        n == Outputs(f)
    IN [out |-> [k \in 1..n |-> Kernel(f.pos + (k - 1) * f.step)],
        ok  |-> \A k \in 0..(n - 1) : TapsHeld(f.pos + k * f.step, FirstAt(f, k)),
        rs  |-> [f EXCEPT !.pos = @ + n * f.step, !.first = FirstAt(f, n)]]

-----------------------------------------------------------------------------
(***************************************************************************)
(* The receiver's steps.                                                   *)
(***************************************************************************)

\* enable_drift, before the first frame: refused on a 24-bit lane.
EnableDrift ==
    /\ fed = 0 /\ lane_repr = "i16"
    /\ est' = Estimator /\ rs' = ResamplerI16
    /\ UNCHANGED <<lane_repr, now, fed, device, panicked>>

\* The clock the receiver shares with its device.
advance_ms(t, ms) == t + ms

\* NullRenderSink::render: a block that comes later than MaxGap after the one
\* before it counts as an underrun; 0 disables the count.
render(d, out, ms) ==
    [out |-> d.out \o out, last |-> ms,
     underruns |-> IF MaxGap > 0 /\ d.last # -1 /\ ms - d.last > MaxGap
                   THEN d.underruns + 1 ELSE d.underruns]

\* The samples of the ith frame, without an estimator.
Plain(i) == [k \in 1..FrameSamples |-> Kernel(((i - 1) * FrameSamples + k - 1) * Unit)]

\* The estimator and the step it chose, u, then the resampler and the device.
Corrected(u, t) ==
    LET p == process([rs EXCEPT !.step = u[2]], FrameSamples)
    IN /\ est' = u[1] /\ panicked' = ~p.ok
       /\ rs' = p.rs
       /\ device' = render(device, p.out, t)

\* canonicalize_with_drift and on_block, for one decoded frame: the estimator
\* reads the clock when the frame is rendered, not when it arrived.
RenderFrame(gap) ==
    /\ ~panicked /\ fed < MaxFrames
    /\ now' = advance_ms(now, gap) /\ fed' = fed + 1
    /\ \/ est.on /\ Corrected(sample_frame(est, rs.step, fed, now + gap), now + gap)
       \/ /\ ~est.on /\ device' = render(device, Plain(fed + 1), now + gap)
          /\ UNCHANGED <<est, rs, panicked>>
    /\ UNCHANGED lane_repr

DriftNext == EnableDrift \/ (\E g \in Gaps : RenderFrame(g))

DriftSpec == DriftInit /\ [][DriftNext]_driftVars

-----------------------------------------------------------------------------
(***************************************************************************)
(* Properties.                                                             *)
(***************************************************************************)

\* finalize's DriftReport.
DriftReport == [applied |-> est.corrected, final_ppm |-> est.applied,
                bit_exact |-> ~est.corrected]

\* A report of a bit-exact run is true: what was played is the source, sample
\* for sample, from its start, at most the interpolator's lookahead short; and
\* a lane without an estimator plays all of it (FR-024, DriftReport::bit_exact).
BitExactIsIdentity ==
    /\ ~est.on => Len(device.out) = fed * FrameSamples
    /\ est.on => fed * FrameSamples - Len(device.out) \in 0..Half
                   \/ DriftReport.applied
    /\ ~est.on \/ DriftReport.bit_exact =>
         \A k \in DOMAIN device.out :
            device.out[k].exact /\ device.out[k].pos = (k - 1) * Unit

\* Correcting never clicks: the resampler reads only history it holds, however
\* its ratio was changed in between, its history stays within one window and
\* one frame, and two neighbouring outputs are one sample apart, give or take
\* the largest estimate it believes (trim_history, set_ratio).
ContinuousOutput ==
    /\ ~panicked
    /\ rs.total - rs.first <= 2 * Half + FrameSamples + 1
    /\ \A k \in 1..(Len(device.out) - 1) :
         Magnitude(device.out[k + 1].pos - device.out[k].pos - Unit) <= MaxEst

\* The correction moves by at most a slew step from frame to frame, and it
\* never jumps across the deadband to the other sign (run_update).
NoOscillation ==
    [][est.on /\ est'.on =>
         /\ Magnitude(est'.applied - est.applied) <= MaxStep
         /\ est'.applied * est.applied >= 0]_driftVars

\* The fit drops the outliers and nothing else: an observation survives exactly
\* if its own residual is within four median deviations (drift.rs, fit_slope:
\* "MAD-gated outlier drop + refit").
OutliersDropped ==
    est.on /\ Len(est.obs) >= 3 =>
        Survivors(est.obs) = Near(est.obs, Deviations(Residuals(est.obs)))
=============================================================================
