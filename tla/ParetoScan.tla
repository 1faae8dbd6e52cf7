----------------------------- MODULE ParetoScan -----------------------------
(***************************************************************************)
(* What cmd_analyze does with the records of one tool: compute_pareto_front *)
(* sorts them and sweeps once through the sorted list, select_top_k takes   *)
(* the cheapest of the front.  compute_upper_envelope, which plot_chart1    *)
(* calls, is the same sweep over the mean TTFT instead of the cost, with a  *)
(* coarser sort (chart).                                                    *)
(*                                                                         *)
(* A sorted list being iterated is the set of what is left of it: the next  *)
(* element is the one before all others.                                    *)
(***************************************************************************)
EXTENDS Integers, FiniteSets

CONSTANTS
  Count,          \* records of the tool
  Prices,         \* cost_per_hour, or ttft_mean_ms in the chart
  Throughputs,    \* max_throughput_tok_s
  TopK,           \* top_k
  MinThroughput   \* min_throughput_tok_s

ASSUME ParetoAssumption ==
  /\ Count \in Nat
  /\ Prices \subseteq Nat
  /\ Throughputs \subseteq Nat
  /\ TopK \in Nat
  /\ MinThroughput \in Nat

Records == 1..Count

VARIABLES
  pc,        \* "scan", "select", "done"
  chart,     \* compute_upper_envelope instead of compute_pareto_front
  price,     \* [Records -> Prices]
  tput,      \* [Records -> Throughputs]
  meets,     \* [Records -> BOOLEAN]: meets_slo
  rest,      \* what the loop has still to visit, of viable or of eligible
  front,     \* the records put on the front
  maxTput,   \* max_throughput: the last record put on the front, or -1
  selected   \* the records of the top-k selection

vars == <<pc, chart, price, tput, meets, rest, front, maxTput, selected>>

\* compute_pareto_front keeps what meets the SLO; plot_chart1 drops records
\* without throughput first and, if none meets the SLO, keeps the others.
Viable ==
  IF ~chart
  THEN {p \in Records : meets[p]}
  ELSE LET plottable == {p \in Records : tput[p] # 0}
           inSlo == {p \in plottable : meets[p]}
       IN  IF inSlo # {} THEN inSlo ELSE plottable

\* MUTANT of Before: sorted by price alone.
MutBeforeNoTieBreak(p, q) ==
  \/ price[p] < price[q]
  \/ price[p] = price[q] /\ p < q

\* MUTANT of Before: the most expensive first.
MutBeforeReversed(p, q) ==
  \/ price[p] > price[q]
  \/ price[p] = price[q] /\ p < q

\* p is sorted before q.  sort is stable: equal keys stay in file order.
Before(p, q) ==
  \/ price[p] < price[q]
  \/ /\ price[p] = price[q]
     /\ \/ ~chart /\ tput[p] > tput[q]
        \/ (chart \/ tput[p] = tput[q]) /\ p < q

First(p) == p \in rest /\ \A q \in rest \ {p} : Before(p, q)

\* MUTANT of Lowest: a record without throughput can never be on the front.
MutLowestZero == 0

\* float("-inf"), or -1.0: below every throughput.
Lowest == -1

Init ==
  /\ pc = "scan"
  /\ chart \in BOOLEAN
  /\ price \in [Records -> Prices]
  /\ tput \in [Records -> Throughputs]
  /\ meets \in [Records -> BOOLEAN]
  /\ rest = Viable
  /\ front = {}
  /\ maxTput = Lowest
  /\ selected = {}

Improves(p) == tput[p] > maxTput

Visit(p) ==
  /\ pc = "scan"
  /\ First(p)
  /\ rest' = rest \ {p}
  /\ IF Improves(p)
     THEN front' = front \cup {p} /\ maxTput' = tput[p]
     ELSE UNCHANGED <<front, maxTput>>
  /\ UNCHANGED <<pc, chart, price, tput, meets, selected>>

\* MUTANT of Adequate: the minimum itself is not enough.
MutAdequateStrict(p) == tput[p] > MinThroughput

Adequate(p) == tput[p] >= MinThroughput

ScanEnd ==
  /\ pc = "scan"
  /\ rest = {}
  /\ IF chart
     THEN pc' = "done" /\ UNCHANGED rest
     ELSE pc' = "select" /\ rest' = {p \in front : Adequate(p)}
  /\ UNCHANGED <<chart, price, tput, meets, front, maxTput, selected>>

RoomLeft == Cardinality(selected) < TopK

\* eligible[:k] after sorting by cost, no two of the front having the same.
Select(p) ==
  /\ pc = "select"
  /\ RoomLeft
  /\ p \in rest
  /\ \A q \in rest \ {p} : price[p] < price[q] \/ (price[p] = price[q] /\ p < q)
  /\ selected' = selected \cup {p}
  /\ rest' = rest \ {p}
  /\ UNCHANGED <<pc, chart, price, tput, meets, front, maxTput>>

SelectEnd ==
  /\ pc = "select"
  /\ rest = {} \/ ~RoomLeft
  /\ pc' = "done"
  /\ UNCHANGED <<chart, price, tput, meets, rest, front, maxTput, selected>>

Next ==
  \/ \E p \in Records : Visit(p) \/ Select(p)
  \/ ScanEnd
  \/ SelectEnd

Spec == Init /\ [][Next]_vars

----------------------------------------------------------------------------
TypeOK ==
  /\ pc \in {"scan", "select", "done"}
  /\ chart \in BOOLEAN
  /\ price \in [Records -> Prices]
  /\ tput \in [Records -> Throughputs]
  /\ meets \in [Records -> BOOLEAN]
  /\ rest \subseteq Records
  /\ front \subseteq Viable
  /\ maxTput \in Throughputs \cup {Lowest}
  /\ selected \subseteq front /\ Cardinality(selected) <= TopK

Covers(p, q) == price[p] <= price[q] /\ tput[p] >= tput[q]

Dominates(p, q) == Covers(p, q) /\ ~Covers(q, p)

Scanned == pc # "scan"

\* Nothing of value is lost: every viable record is matched or beaten, in
\* price and in throughput, by one of the front.
FrontCovers ==
  Scanned => \A q \in Viable : \E p \in front : Covers(p, q)

\* No record of compute_pareto_front's front is beaten by any viable record.
FrontUndominated ==
  Scanned /\ ~chart => \A p \in front, q \in Viable : ~Dominates(q, p)

\* No two records of that front cost the same or have the same throughput.
FrontIsAChain ==
  ~chart =>
    \A p, q \in front : p # q => price[p] # price[q] /\ tput[p] # tput[q]

\* Selecting from the front costs nothing: the cheapest adequate record of
\* all the viable ones has its price among the selected.
CheapestIsSelected ==
  pc = "done" /\ ~chart /\ TopK > 0 =>
    \A q \in Viable :
      tput[q] >= MinThroughput => \E p \in selected : price[p] <= price[q]

\* compute_upper_envelope, "no other point has both lower TTFT and higher
\* throughput": this much is true of everything on the envelope.
NoneBothBetter ==
  Scanned =>
    \A p \in front, q \in Viable : ~(price[q] < price[p] /\ tput[q] > tput[p])

\* Fewer than k are selected only when no further one is worth having: every
\* adequate viable record is matched or beaten by a selected one.
ShortSelectionIsComplete ==
  pc = "done" /\ ~chart /\ Cardinality(selected) < TopK =>
    \A q \in Viable :
      tput[q] >= MinThroughput => \E p \in selected : Covers(p, q)
=============================================================================
