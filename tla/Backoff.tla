-------------------------------- MODULE Backoff --------------------------------
(***************************************************************************)
(* websocket-client/utils/backoff.ts: how long the client waits before it  *)
(* tries to reconnect.  Delays are in parts of a millisecond, a jitter is  *)
(* in parts of 1, and Math.random() is what the call draws: `draw' is      *)
(* random() * jitter * 2.                                                  *)
(***************************************************************************)
EXTENDS Integers, Powers

CONSTANTS
    Missing,    \* an option that is not given
    PartsOfOne  \* the parts of 1

ASSUME PartsAssumption == 
    PartsOfOne \in Nat \ {0} /\ PartsOfOne % 10 = 0 /\ Missing \notin Nat

\* Mutant of Or: `??', which keeps a zero.
OrUndefined(option, fallback) == IF option = Missing THEN fallback ELSE option

\* `||', which takes a zero for a missing option.
Or(option, fallback) == IF option \in {Missing, 0} THEN fallback ELSE option

\* The options are numbers, or not given, and a jitter is a part of the delay.
Option == Nat \union {Missing}
Strategy ==
    [type : {"constant", "linear", "exponential", "another"}, initial : Option, step : Option,
     factor : Option, maxDelay : Option, jitter : (0..PartsOfOne) \union {Missing}]

Initial(strategy) == Or(strategy.initial, 1000)
Jitter(strategy) == Or(strategy.jitter, PartsOfOne \div 10)
Factor(strategy) == Or(strategy.factor, 2)
Limit(strategy) == Or(strategy.maxDelay, 60000) * PartsOfOne

\* The limit is applied to what the jitter has made of the delay.
exponentialDelay(strategy, attempt, draw) ==
    LET jittered == Initial(strategy) * Power(Factor(strategy), attempt)
                      * (PartsOfOne - Jitter(strategy) + draw)
    IN  IF jittered < Limit(strategy) THEN jittered ELSE Limit(strategy)

\* A type that is none of the three waits a second.
calculateDelay(strategy, attempt, draw) ==
    CASE strategy.type = "constant" -> Initial(strategy) * PartsOfOne
      [] strategy.type = "linear" ->
            (Initial(strategy) + Or(strategy.step, 1000) * attempt) * PartsOfOne
      [] strategy.type = "exponential" -> exponentialDelay(strategy, attempt, draw)
      [] OTHER -> 1000 * PartsOfOne

\* The waits of one outage: scheduleReconnect() counts the attempt before it
\* asks for the delay, so that the first attempt is number 1.
scheduledDelays(strategy, draws) ==
    [attempt \in DOMAIN draws |-> calculateDelay(strategy, attempt, draws[attempt])]

=============================================================================
