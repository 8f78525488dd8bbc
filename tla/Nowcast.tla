------------------------------ MODULE Nowcast ------------------------------
(***************************************************************************)
(* inference/nowcast.py: is an issuer down, from the outcomes of attempts  *)
(* as they come in.  One tracker stands for one issuer.  Instants are      *)
(* minutes; rates, deviations and thresholds are per mille; cusum_up,      *)
(* which is kept and never read, is left out.                              *)
(***************************************************************************)
EXTENDS Integers, Sequences, SequencesExt, FiniteSetsExt, Functions

CONSTANTS BASELINE,                 \* baseline_success
          MIN_ATTEMPTS,             \* windows with fewer are not scored
          EXPECTED_OUTAGE,          \* minutes, before any outage has ended
          PEER_SPAN,                \* minutes
          CLOSED_HISTORY            \* closed windows that are kept

NoTime == -1
WINDOW == 5
DEGRADED_FRACTION == 700
CUSUM_SLACK == 100
CUSUM_THRESHOLD == 250
RECOVERY_WINDOWS == 2

degraded_below == (DEGRADED_FRACTION * BASELINE) \div 1000

(* The largest r with r * r <= x, by Newton's method from above.            *)
Root(x) ==
    LET near[r \in Nat] == IF r * r <= x THEN r ELSE near[(r + x \div r) \div 2]
    IN  near[2048]

(* The 95% Wilson interval, with z * z = 3.84; all is possible of nothing.  *)
wilson_interval(successes, attempts) ==
    IF attempts = 0 THEN [lower |-> 0, upper |-> 1000]
    ELSE LET centre == 200 * successes + 384
             margin == Root(147456 + (153600 * successes * (attempts - successes)) \div attempts)
             bound(x) == (1000 * x) \div (2 * (100 * attempts + 384))
         IN  [lower |-> Max({0, bound(centre - margin)}),
              upper |-> Min({1000, bound(centre + margin)})]

window_start(at) == at - (at % WINDOW)

NoAttempts == [attempts |-> 0, successes |-> 0]
NewTracker == [windows |-> <<>>, cusum_down |-> 0, degraded_since |-> NoTime,
               healthy_streak |-> 0, last_window |-> NoTime,
               outage_history |-> <<>>, closed |-> <<>>]

BucketAt(tracker, start) ==
    IF start \in DOMAIN tracker.windows THEN tracker.windows[start] ELSE NoAttempts

confidently_degraded(bucket) ==
    /\ bucket.attempts >= MIN_ATTEMPTS
    /\ wilson_interval(bucket.successes, bucket.attempts).upper < degraded_below

(* The evidence of a window for an outage, less the slack.                  *)
Excess(bucket) ==
    LET below == degraded_below - wilson_interval(bucket.successes, bucket.attempts).upper
    IN  (1000 * below) \div degraded_below - CUSUM_SLACK


(* A bad window during an outage takes back one good one.                   *)
worn(streak) == Max({0, streak - 1})

(* One completed window, scored.  An outage begins with enough evidence and *)
(* a bad window, and ends with enough of a streak.                          *)
step(tracker, start, bucket) ==
    LET down == Max({0, tracker.cusum_down + Excess(bucket)})
        bad == confidently_degraded(bucket)
        ongoing == tracker.degraded_since # NoTime
        streak == IF bad THEN worn(tracker.healthy_streak) ELSE tracker.healthy_streak + 1
        t == [tracker EXCEPT !.cusum_down = down]
    IN  CASE ~ongoing /\ bad /\ down > CUSUM_THRESHOLD ->
                 [t EXCEPT !.degraded_since = start, !.healthy_streak = 0]
          [] ongoing /\ ~bad /\ streak >= RECOVERY_WINDOWS ->
                 [t EXCEPT !.outage_history = Append(@, start - t.degraded_since),
                           !.degraded_since = NoTime, !.cusum_down = 0, !.healthy_streak = 0]
          [] ongoing /\ (bad \/ streak < RECOVERY_WINDOWS) ->
                 [t EXCEPT !.healthy_streak = streak]
          [] OTHER -> t

Remembered(closed, entry) ==
    LET all == Append(closed, entry)
    IN  IF Len(all) > CLOSED_HISTORY THEN Tail(all) ELSE all

(* Completed windows are scored by their start, thin ones only remembered.  *)
close_through(tracker, up_to) ==
    LET close(t, start) ==
            LET bucket == t.windows[start]
                scored == IF bucket.attempts >= MIN_ATTEMPTS THEN step(t, start, bucket) ELSE t
            IN  [scored EXCEPT
                   !.closed = Remembered(@, [start |-> start, attempts |-> bucket.attempts,
                                             successes |-> bucket.successes]),
                   !.windows = Restrict(@, DOMAIN @ \ {start})]
    IN  FoldLeft(close, tracker,
                 SetToSortSeq({w \in DOMAIN tracker.windows : w < up_to}, <))

(* An attempt of a later window closes those before it; a late one opens    *)
(* its own window again.                                                    *)
observe(tracker, at, success) ==
    LET start == window_start(at)
        t == IF tracker.last_window # NoTime /\ start > tracker.last_window
             THEN close_through(tracker, start) ELSE tracker
        bucket == BucketAt(t, start)
        filled == [attempts |-> bucket.attempts + 1,
                   successes |-> bucket.successes + (IF success THEN 1 ELSE 0)]
    IN  [t EXCEPT !.windows = [w \in DOMAIN @ \cup {start} |-> IF w = start THEN filled ELSE @[w]],
                  !.last_window = IF @ = NoTime THEN start ELSE Max({@, start})]

flush(tracker, up_to) == close_through(tracker, window_start(up_to))

(* The closed windows of the span and the ones still filling.               *)
trailing_counts(tracker, at) ==
    LET floor == at - PEER_SPAN
        kept == SelectSeq(tracker.closed, LAMBDA e : e.start >= floor)
        live == {w \in DOMAIN tracker.windows : w >= floor}
    IN  [attempts |-> FoldLeft(LAMBDA n, e : n + e.attempts, 0, kept)
                      + MapThenSumSet(LAMBDA w : tracker.windows[w].attempts, live),
         successes |-> FoldLeft(LAMBDA n, e : n + e.successes, 0, kept)
                       + MapThenSumSet(LAMBDA w : tracker.windows[w].successes, live)]

(* Minutes after at, as a fraction: what is left of a mean outage, and at   *)
(* least a quarter of it.                                                   *)
recovery_eta(tracker, at) ==
    IF tracker.degraded_since = NoTime THEN NoTime
    ELSE LET past == tracker.outage_history
             count == IF past = <<>> THEN 1 ELSE Len(past)
             total == IF past = <<>> THEN EXPECTED_OUTAGE ELSE FoldLeft(+, 0, past)
             elapsed == Max({0, at - tracker.degraded_since})
         IN  <<Max({4 * (total - count * elapsed), total}), 4 * count>>

(* Only a scored window declares an outage; the live one has no vote.       *)
status(tracker, at) ==
    CASE tracker.degraded_since # NoTime -> "degraded"
      [] /\ tracker.degraded_since = NoTime
         /\ BucketAt(tracker, window_start(at)).attempts < MIN_ATTEMPTS -> "unknown"
      [] OTHER -> "healthy"

(* The issuer's health and its peers' rate, as shares of the baseline.      *)
peer_context(tracker, at) ==
    LET c == trailing_counts(tracker, at)
        share(rate) == Min({1000, (1000 * rate) \div BASELINE})
    IN  IF c.attempts < MIN_ATTEMPTS THEN <<1000, 1000>>
        ELSE <<share(wilson_interval(c.successes, c.attempts).lower),
               share((1000 * c.successes) \div c.attempts)>>
=============================================================================
