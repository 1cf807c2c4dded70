---------------------------- MODULE RollingAverage ----------------------------
(***************************************************************************)
(* rollingAverage of 001_fragile_data_integrations/cdc (polling_clients,   *)
(* the indexer and the analytics program have the same): a closure over a  *)
(* ring of the last "period" inputs and their sum, which it never adds up  *)
(* anew.  The inputs are known by their number, and the sum is kept as a   *)
(* linear form: how often it holds each input; so what is said of it is    *)
(* true of inputs of any value.                                            *)
(***************************************************************************)
EXTENDS Integers, Sequences

CONSTANT Period

ASSUME PeriodAssumption == Period \in Nat \ {0}

VARIABLES
  storage,  \* the ring: numbers of inputs
  i,        \* the place in it, from 0, that is written next
  sum,      \* how often the sum holds each input
  taken     \* inputs so far

window == <<storage, i, sum, taken>>

WindowInit ==
  /\ storage = <<>>
  /\ i = 0
  /\ sum = [k \in 1..0 |-> 0]
  /\ taken = 0

One(k, n) == IF k = n THEN 1 ELSE 0

\* Wrong on purpose, to try the properties: the place starts over at
\* the length of the ring, before it is full.
average_WrapsAtLength ==
  LET input == taken + 1
      short == Len(storage) < Period
      ring  == IF short THEN Append(storage, input) ELSE storage
  IN /\ taken' = input
     /\ sum' = [k \in 1..input |->
          (IF k \in 1..taken THEN sum[k] ELSE IF short THEN 1 ELSE 0)
            + One(k, input) - One(k, ring[i + 1])]
     /\ storage' = [ring EXCEPT ![i + 1] = input]
     /\ i' = (i + 1) % Len(ring)

\* While the ring is short it grows by the input, which is added then, and what
\* the second addition replaces is the input itself.
average ==
  LET input == taken + 1
      short == Len(storage) < Period
      ring  == IF short THEN Append(storage, input) ELSE storage
  IN /\ taken' = input
     /\ sum' = [k \in 1..input |->
          (IF k \in 1..taken THEN sum[k] ELSE IF short THEN 1 ELSE 0)
            + One(k, input) - One(k, ring[i + 1])]
     /\ storage' = [ring EXCEPT ![i + 1] = input]
     /\ i' = (i + 1) % Period

-----------------------------------------------------------------------------
\* The average is of the last inputs, as many as the period, and of each once:
\* neither the growing of the ring nor its starting over counts one twice or
\* leaves one in the sum.
AverageIsOfTheLast ==
  /\ Len(storage) = IF taken < Period THEN taken ELSE Period
  /\ \A k \in 1..taken : sum[k] = IF k > taken - Period THEN 1 ELSE 0
=============================================================================
