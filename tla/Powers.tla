-------------------------------- MODULE Powers --------------------------------
\* base to the n-th, as a recursive function: of the operator ^ the provers know
\* no more than that it gives numbers.
EXTENDS Integers

Power(base, n) ==
    LET power[k \in Nat] == IF k = 0 THEN 1 ELSE base * power[k - 1]
    IN  power[n]

=============================================================================
