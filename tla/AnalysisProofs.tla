--------------------------- MODULE AnalysisProofs ---------------------------
(***************************************************************************)
(* What the programs around the rate searches compute, for any instance:   *)
(*                                                                         *)
(*  - ParetoScan: the one-pass sweep of compute_pareto_front computes the  *)
(*    Pareto front, and the top-k selection made from the front alone is   *)
(*    right about all viable records.  What the loop has left is after     *)
(*    everything it has visited, and maxTput is the best visited.          *)
(*  - EstimateSweeps: every record is what the tool said of its budget, and *)
(*    the records of a pass without failures are complete up to the budget *)
(*    at hand.                                                             *)
(*  - TopologyPruning: the k-th result is of the k-th topology, and an     *)
(*    increasing map tells which results the passing topologies are from.  *)
(*  - ConfigSpace: the keys that are hashed are injective on the spaces.   *)
(*                                                                         *)
(* The three specifications share no variable, and a theorem is about one  *)
(* of them.                                                                *)
(***************************************************************************)
EXTENDS ParetoScan, EstimateSweeps, TopologyPruning, FiniteSetTheorems,
        SequenceTheorems, TLAPS

----------------------------------------------------------------------------
\* The Pareto front and the selection

\* While scanning, what is left is sorted behind what was visited, maxTput
\* bounds the throughput of what was visited, and nothing is selected.
Swept ==
  pc = "scan" =>
    /\ rest \subseteq Viable
    /\ \A p \in Viable \ rest, q \in rest : Before(p, q)
    /\ \A p \in Viable \ rest : tput[p] <= maxTput
    /\ selected = {}

\* What was visited is covered by the front; later, everything is.
VisitedCovered ==
  \A q \in Viable \ (IF pc = "scan" THEN rest ELSE {}) :
    \E p \in front : Covers(p, q)

\* The front has been visited, is what is selected from, and maxTput is the
\* throughput of one of it.
FrontVisited ==
  /\ IF pc = "scan" THEN front \cap rest = {} ELSE rest \subseteq front
  /\ maxTput = Lowest \/ \E p \in front : tput[p] = maxTput

\* What FrontUndominated and NoneBothBetter say, already while scanning.
Undominated ==
  \A p \in front, q \in Viable :
    /\ ~chart => ~Dominates(q, p)
    /\ ~(price[q] < price[p] /\ tput[q] > tput[p])

ScanInv ==
  /\ TypeOK
  /\ Swept
  /\ VisitedCovered
  /\ FrontVisited
  /\ Undominated
  /\ FrontIsAChain

\* The selection takes the adequate records of the front in order of price.
SelectInv ==
  pc # "scan" /\ ~chart =>
    /\ rest \cup selected = {p \in front : Adequate(p)}
    /\ \A p \in selected, q \in rest : price[p] <= price[q]
    /\ pc = "done" => rest = {} \/ ~RoomLeft

\* The records never change, and with them what is viable.
LEMMA RecordsFixed ==
  ASSUME [Next]_vars
  PROVE  /\ chart' = chart
         /\ price' = price
         /\ tput' = tput
         /\ meets' = meets
         /\ Viable' = Viable
<1>1. chart' = chart /\ price' = price /\ tput' = tput /\ meets' = meets
  BY DEF Next, Visit, ScanEnd, Select, SelectEnd, vars
<1> QED BY <1>1, Zenon DEF Viable

\* Throughputs, and so maxTput, are integers.
LEMMA Numbers ==
  ASSUME TypeOK
  PROVE  /\ \A p \in Records : price[p] \in Nat /\ tput[p] \in Nat
         /\ maxTput \in Int
         /\ Viable \subseteq Records
         /\ front \subseteq Records
<1>1. \A p \in Records : price[p] \in Nat /\ tput[p] \in Nat
  BY ParetoAssumption DEF TypeOK
<1>2. maxTput \in Int
  BY ParetoAssumption DEF TypeOK, Lowest
<1>3. Viable \subseteq Records
  BY DEF Viable
<1> QED BY <1>1, <1>2, <1>3 DEF TypeOK

\* Nothing is visited at the start, and nothing is on the front.
LEMMA ScanInit == ASSUME Init PROVE ScanInv
<1>1. Viable \subseteq Records
  BY DEF Viable
<1>2. TypeOK
  BY <1>1, FS_EmptySet, ParetoAssumption DEF Init, TypeOK
<1> QED BY <1>2 DEF Init, ScanInv, Swept, VisitedCovered, FrontVisited,
  Undominated, FrontIsAChain

\* Visiting the next record keeps the sweep's invariant.
LEMMA ScanVisit ==
  ASSUME ScanInv, NEW p \in Records, Visit(p), [Next]_vars
  PROVE  ScanInv'
<1> USE DEF ScanInv
<1>1. /\ pc = "scan" /\ pc' = "scan"
      /\ p \in rest /\ rest' = rest \ {p}
      /\ \A q \in rest \ {p} : Before(p, q)
  BY DEF Visit, First
<1>2. /\ chart' = chart /\ price' = price /\ tput' = tput /\ meets' = meets
      /\ Viable' = Viable
  BY RecordsFixed
<1>3. p \in Viable /\ rest \subseteq Viable
  BY <1>1 DEF Swept
<1>4. /\ \A q \in Records : price[q] \in Nat /\ tput[q] \in Nat
      /\ maxTput \in Int
      /\ Viable \subseteq Records
      /\ front \subseteq Records
  BY Numbers
<1>5. \A r \in Viable \ rest' : r = p \/ r \in Viable \ rest
  BY <1>1
<1>6. \A r \in Viable \ rest', q \in rest' : Before(r, q)
  BY <1>1, <1>5 DEF Swept
<1>7. \A r \in front : r \in Viable \ rest /\ Before(r, p) /\ tput[r] <= maxTput
  BY <1>1 DEF TypeOK, FrontVisited, Swept
<1>8. CASE Improves(p)
  <2>1. front' = front \cup {p} /\ maxTput' = tput[p]
    BY <1>8 DEF Visit
  <2>2. TypeOK'
    BY <1>1, <1>2, <1>3, <2>1 DEF TypeOK, Visit
  <2>3. Swept'
    <3>1. \A r \in Viable \ rest' : tput[r] <= tput[p]
      BY <1>1, <1>3, <1>4, <1>5, <1>8 DEF Swept, Improves
    <3> QED BY <1>1, <1>2, <1>3, <1>6, <2>1, <3>1 DEF Swept, Before, Visit
  <2>4. VisitedCovered'
    <3>1. Covers(p, p)
      BY <1>3, <1>4 DEF Covers
    <3>2. \A q \in Viable \ rest' : \E r \in front' : Covers(r, q)
      BY <1>1, <1>5, <2>1, <3>1 DEF VisitedCovered
    <3> QED BY <1>1, <1>2, <3>2 DEF VisitedCovered, Covers
  <2>5. FrontVisited'
    BY <1>1, <1>2, <2>1 DEF FrontVisited
  <2>6. Undominated'
    <3>1. ASSUME NEW q \in Viable
          PROVE  /\ ~chart => ~Dominates(q, p)
                 /\ ~(price[q] < price[p] /\ tput[q] > tput[p])
      <4>1. CASE q \in rest \ {p}
        BY <1>1, <1>3, <1>4, <4>1 DEF Before, Dominates, Covers
      <4>2. CASE q \notin rest
        BY <1>1, <1>3, <1>4, <1>8, <4>2 DEF Swept, Improves, Dominates, Covers
      <4>3. CASE q = p
        BY <1>3, <1>4, <4>3 DEF Dominates, Covers
      <4> QED BY <4>1, <4>2, <4>3
    <3>2. \A r \in front', q \in Viable :
            /\ ~chart => ~Dominates(q, r)
            /\ ~(price[q] < price[r] /\ tput[q] > tput[r])
      BY <2>1, <3>1 DEF Undominated
    <3> QED BY <1>2, <3>2 DEF Undominated, Dominates, Covers
  <2>7. FrontIsAChain'
    <3>1. ASSUME ~chart, NEW r \in front
          PROVE  price[r] # price[p] /\ tput[r] # tput[p]
      BY <1>3, <1>4, <1>7, <1>8, <3>1 DEF Improves, Before
    <3>2. ~chart => \A r, q \in front' :
                      r # q => price[r] # price[q] /\ tput[r] # tput[q]
      BY <2>1, <3>1 DEF FrontIsAChain
    <3> QED BY <1>2, <3>2 DEF FrontIsAChain
  <2> QED BY <2>2, <2>3, <2>4, <2>5, <2>6, <2>7
<1>9. CASE ~Improves(p)
  <2>1. UNCHANGED <<front, maxTput>>
    BY <1>9 DEF Visit
  <2>2. TypeOK'
    BY <1>1, <1>2, <1>3, <2>1 DEF TypeOK, Visit
  <2>3. tput[p] <= maxTput
    BY <1>3, <1>4, <1>9 DEF Improves
  <2>4. Swept'
    <3>1. \A r \in Viable \ rest' : tput[r] <= maxTput
      BY <1>1, <1>5, <2>3 DEF Swept
    <3> QED BY <1>1, <1>2, <1>3, <1>6, <2>1, <3>1 DEF Swept, Before, Visit
  <2>5. VisitedCovered'
    <3>1. PICK r \in front : tput[r] = maxTput
      BY <1>3, <1>4, <2>3 DEF FrontVisited, Lowest
    <3>2. Covers(r, p)
      BY <1>3, <1>4, <1>7, <2>3, <3>1 DEF Before, Covers
    <3>3. \A q \in Viable \ rest' : \E s \in front : Covers(s, q)
      BY <1>1, <1>5, <3>2 DEF VisitedCovered
    <3> QED BY <1>1, <1>2, <2>1, <3>3 DEF VisitedCovered, Covers
  <2>6. FrontVisited'
    BY <1>1, <1>2, <2>1 DEF FrontVisited
  <2>7. Undominated' /\ FrontIsAChain'
    BY <1>2, <2>1 DEF Undominated, Dominates, Covers, FrontIsAChain
  <2> QED BY <2>2, <2>4, <2>5, <2>6, <2>7
<1> QED BY <1>8, <1>9

\* Once everything is visited, no step touches the front.
LEMMA ScanOther ==
  ASSUME ScanInv, [Next]_vars, ~ \E p \in Records : Visit(p)
  PROVE  ScanInv'
<1> USE DEF ScanInv
<1>1. /\ chart' = chart /\ price' = price /\ tput' = tput /\ meets' = meets
      /\ Viable' = Viable
  BY RecordsFixed
<1>2. UNCHANGED <<front, maxTput>>
  BY DEF Next, ScanEnd, Select, SelectEnd, vars
<1>3. Undominated' /\ FrontIsAChain'
  BY <1>1, <1>2 DEF Undominated, Dominates, Covers, FrontIsAChain
<1>4. front \subseteq Records
  BY Numbers
<1>5. CASE ScanEnd
  <2>1. pc = "scan" /\ pc' \in {"select", "done"} /\ rest = {}
    BY <1>5 DEF ScanEnd
  <2>2. TypeOK'
    BY <1>1, <1>2, <1>4, <1>5, <2>1 DEF TypeOK, ScanEnd
  <2>3. VisitedCovered'
    <3>1. \A q \in Viable : \E r \in front : Covers(r, q)
      BY <2>1 DEF VisitedCovered
    <3> QED BY <1>1, <1>2, <3>1 DEF VisitedCovered, Covers
  <2>4. rest' \subseteq front'
    BY <1>2, <1>5, <2>1 DEF ScanEnd
  <2>5. FrontVisited' /\ Swept'
    BY <1>1, <1>2, <2>1, <2>4 DEF FrontVisited, Swept
  <2> QED BY <1>3, <2>2, <2>3, <2>5
<1>6. CASE SelectEnd \/ \E p \in Records : Select(p)
  <2>1. pc = "select" /\ pc' \in {"select", "done"}
    BY <1>6 DEF Select, SelectEnd
  <2>2. rest' \subseteq rest /\ selected' \subseteq selected \cup rest
    BY <1>6 DEF Select, SelectEnd
  <2>3. Cardinality(selected') <= TopK
    <3>1. CASE SelectEnd
      BY <3>1 DEF SelectEnd, TypeOK
    <3>2. ASSUME NEW p \in Records, Select(p)
          PROVE  Cardinality(selected') <= TopK
      <4>1. selected' = selected \cup {p} /\ Cardinality(selected) < TopK
        BY <3>2 DEF Select, RoomLeft
      <4>2. IsFiniteSet(Records)
        BY FS_Interval, ParetoAssumption DEF Records
      <4>3. IsFiniteSet(selected)
        BY <1>4, <4>2, FS_Subset DEF TypeOK
      <4>4. Cardinality(selected) \in Nat
        BY <4>3, FS_CardinalityType
      <4>5. Cardinality(selected') \in {Cardinality(selected),
                                        Cardinality(selected) + 1}
        BY <4>1, <4>3, FS_AddElement
      <4> QED BY <4>1, <4>4, <4>5, ParetoAssumption
    <3> QED BY <1>6, <3>1, <3>2
  <2>7. TypeOK'
    BY <1>1, <1>2, <2>1, <2>2, <2>3 DEF TypeOK, FrontVisited
  <2>4. \A q \in Viable : \E r \in front : Covers(r, q)
    BY <2>1 DEF VisitedCovered
  <2>5. VisitedCovered'
    BY <1>1, <1>2, <2>1, <2>4 DEF VisitedCovered, Covers
  <2>6. FrontVisited' /\ Swept'
    BY <1>1, <1>2, <2>1, <2>2 DEF FrontVisited, Swept
  <2> QED BY <1>3, <2>5, <2>6, <2>7
<1>7. CASE UNCHANGED vars
  BY <1>1, <1>7 DEF vars, TypeOK, Swept, VisitedCovered, FrontVisited,
    Undominated, FrontIsAChain, Before, Covers, Dominates
<1> QED BY <1>5, <1>6, <1>7 DEF Next

\* The sweep's invariant holds throughout, for the front and the envelope.
LEMMA ScanInvariant == Spec => []ScanInv
<1>1. Init => ScanInv
  BY ScanInit
<1>2. ScanInv /\ [Next]_vars => ScanInv'
  BY ScanVisit, ScanOther
<1> QED BY <1>1, <1>2, PTL DEF Spec

\* Whichever way it is computed, the front loses no viable record of value:
\* one of the front is as cheap and as fast.
THEOREM FrontLosesNothing == Spec => []FrontCovers
<1>1. ScanInv => FrontCovers
  BY DEF ScanInv, VisitedCovered, FrontCovers, Scanned
<1> QED BY <1>1, ScanInvariant, PTL

\* The front of compute_pareto_front holds no record that another beats, and
\* nothing twice.
THEOREM FrontIsPareto == Spec => [](FrontUndominated /\ FrontIsAChain)
<1>1. ScanInv => FrontUndominated /\ FrontIsAChain
  BY DEF ScanInv, Undominated, FrontUndominated, FrontIsAChain
<1> QED BY <1>1, ScanInvariant, PTL

\* compute_upper_envelope shows nothing that another record beats in both
\* coordinates.
THEOREM EnvelopeIsSound == Spec => []NoneBothBetter
<1>1. ScanInv => NoneBothBetter
  BY DEF ScanInv, Undominated, NoneBothBetter
<1> QED BY <1>1, ScanInvariant, PTL

\* Every step keeps the selection a cheapest part of what was eligible.
LEMMA SelectStep ==
  ASSUME ScanInv, SelectInv, [Next]_vars
  PROVE  SelectInv'
<1> SUFFICES ASSUME pc' # "scan", ~chart'
             PROVE  /\ rest' \cup selected' = {p \in front' : Adequate(p)'}
                    /\ \A p \in selected', q \in rest' : price'[p] <= price'[q]
                    /\ pc' = "done" => rest' = {} \/ ~RoomLeft'
  BY DEF SelectInv
<1>1. chart' = chart /\ price' = price /\ tput' = tput
  BY RecordsFixed
<1>2. /\ \A p \in Records : price[p] \in Nat /\ tput[p] \in Nat
      /\ front \subseteq Records
  BY Numbers DEF ScanInv
<1>3. ASSUME NEW p \in Records, Visit(p)
      PROVE  FALSE
  BY <1>3 DEF Visit
<1>4. CASE ScanEnd
  <2>1. /\ front' = front
        /\ rest' = {p \in front : Adequate(p)}
        /\ selected' = {}
        /\ pc' = "select"
    BY <1>4 DEF ScanEnd, ScanInv, Swept
  <2> QED BY <1>1, <2>1 DEF Adequate
<1>5. ASSUME NEW p \in Records, Select(p)
      PROVE  /\ rest' \cup selected' = {r \in front' : Adequate(r)'}
             /\ \A r \in selected', q \in rest' : price'[r] <= price'[q]
             /\ pc' # "done"
  <2>1. /\ pc = "select" /\ pc' = "select" /\ front' = front
        /\ p \in rest /\ rest' = rest \ {p}
        /\ selected' = selected \cup {p}
        /\ \A q \in rest \ {p} :
             price[p] < price[q] \/ (price[p] = price[q] /\ p < q)
    BY <1>5 DEF Select
  <2>2. rest \subseteq Records
    BY DEF ScanInv, TypeOK
  <2>3. \A q \in rest \ {p} : price[p] <= price[q]
    BY <1>2, <2>1, <2>2
  <2>4. /\ rest \cup selected = {r \in front : Adequate(r)}
        /\ \A r \in selected, q \in rest : price[r] <= price[q]
    BY <1>1, <2>1 DEF SelectInv
  <2>5. rest' \cup selected' = {r \in front' : Adequate(r)'}
    BY <1>1, <2>1, <2>4 DEF Adequate
  <2> QED BY <1>1, <2>1, <2>3, <2>4, <2>5
<1>6. CASE SelectEnd
  BY <1>1, <1>6 DEF SelectEnd, SelectInv, Adequate, RoomLeft
<1>7. CASE UNCHANGED vars
  BY <1>7 DEF vars, SelectInv, Adequate, RoomLeft
<1> QED BY <1>3, <1>4, <1>5, <1>6, <1>7 DEF Next

\* select_top_k always has the cheapest of the adequate records.
LEMMA SelectInvariant == Spec => []SelectInv
<1>1. Init => SelectInv
  BY DEF Init, SelectInv
<1>2. ScanInv /\ SelectInv /\ [Next]_vars => SelectInv'
  BY SelectStep
<1> QED BY <1>1, <1>2, ScanInvariant, PTL DEF Spec

\* The selection is made from the front alone, and is right about all viable
\* records: the cheapest adequate price is selected, and a short selection
\* leaves out no adequate record of value.
THEOREM SelectionIsRight ==
  Spec => [](CheapestIsSelected /\ ShortSelectionIsComplete)
<1>1. ASSUME ScanInv, SelectInv, pc = "done", ~chart,
             NEW q \in Viable, tput[q] >= MinThroughput
      PROVE  \E p \in rest \cup selected : Covers(p, q)
  <2>1. PICK p \in front : Covers(p, q)
    BY <1>1 DEF ScanInv, VisitedCovered
  <2>2. Adequate(p)
    BY <1>1, <2>1, Numbers, ParetoAssumption DEF Adequate, Covers, ScanInv
  <2> QED BY <1>1, <2>1, <2>2 DEF SelectInv
<1>2. ScanInv /\ SelectInv => CheapestIsSelected
  <2> SUFFICES ASSUME ScanInv, SelectInv, pc = "done", ~chart, TopK > 0,
                      NEW q \in Viable, tput[q] >= MinThroughput
               PROVE  \E p \in selected : price[p] <= price[q]
    BY DEF CheapestIsSelected
  <2>1. PICK p \in rest \cup selected : Covers(p, q)
    BY <1>1
  <2>2. CASE p \in selected
    BY <2>1, <2>2 DEF Covers
  <2>3. CASE p \in rest
    <3>1. ~RoomLeft
      BY <2>3 DEF SelectInv
    <3>2. selected # {}
      BY <3>1, FS_EmptySet, ParetoAssumption DEF RoomLeft
    <3>3. PICK s \in selected : price[s] <= price[p]
      BY <2>3, <3>2 DEF SelectInv
    <3>4. {q, p, s} \subseteq Records
      BY <2>3, <3>3, Numbers DEF ScanInv, TypeOK
    <3> QED BY <2>1, <3>3, <3>4, Numbers DEF Covers, ScanInv
  <2> QED BY <2>2, <2>3
<1>3. ScanInv /\ SelectInv => ShortSelectionIsComplete
  <2> SUFFICES ASSUME ScanInv, SelectInv, pc = "done", ~chart, RoomLeft,
                      NEW q \in Viable, tput[q] >= MinThroughput
               PROVE  \E p \in selected : Covers(p, q)
    BY DEF ShortSelectionIsComplete, RoomLeft
  <2>1. rest = {}
    BY DEF SelectInv
  <2> QED BY <1>1, <2>1
<1> QED BY <1>2, <1>3, ScanInvariant, SelectInvariant, PTL

----------------------------------------------------------------------------
\* The analytical tools

\* What FromRow and FromAnswer yield at a budget.
RowAt(r, b) ==
  [tp |-> r[1], pp |-> r[2], replicas |-> b \div (r[1] * r[2]), dp |-> 1,
   batch |-> r[3], throughput |-> Rate[r] * (b \div (r[1] * r[2])),
   qps |-> Requests[r] * (b \div (r[1] * r[2])),
   ttft |-> TTFT[r], meets |-> TTFT[r] <= Slo,
   gpus |-> r[1] * r[2] * (b \div (r[1] * r[2]))]

\* The tokens/s are of the operating point of the time to first token and the
\* concurrency, or the unconstrained best without a time; the requests/s are
\* always the unconstrained ones.
FiguresOf(result, a) ==
  /\ \/ /\ result.throughput = a.constrained
        /\ result.ttft = a.ttft
        /\ result.batch = a.concurrency
     \/ /\ a.constrained = None
        /\ result.throughput = a.best
        /\ result.ttft = 0
  /\ result.qps = Default(a.requests, 0)

\* A result of the tool at a budget.
FromTool(result, b) ==
  IF estimator = "AIConfigurator"
    THEN \E r \in frontier : r[1] * r[2] <= b /\ result = RowAt(r, b)
    ELSE FiguresOf(result, answer[b])

Written(p, b, r) == [pass |-> p, budget |-> b, result |-> r]

EstimateType ==
  /\ estimator \in {"AIConfigurator", "llm-optimizer"}
  /\ frontier \subseteq Rows
  /\ estimator = "llm-optimizer" => answer \in [1..MaxGpus -> Answers]
  /\ stage \in {"down", "call", "rows", "done"}
  /\ pass \in Nat
  /\ stage # "down" => pass >= 1
  /\ budget \in 1..(MaxGpus + 1)
  /\ stage = "rows" => budget <= MaxGpus
  /\ stage = "done" => budget = MaxGpus + 1

\* Every record, written or about to be, is what the tool said of its budget.
RecordsFromTool ==
  /\ \A e \in log : /\ e.pass \in 1..pass
                    /\ e.budget \in 1..MaxGpus
                    /\ FromTool(e.result, e.budget)
  /\ stage = "rows" => \A r \in rows : FromTool(r, budget)

\* A pass without failures has all rows of the budgets behind it, and of the
\* one at hand those that are not left to write.
BudgetsComplete ==
  stage # "down" /\ estimator = "AIConfigurator" /\ ~failed =>
    \A r \in frontier, b \in 1..MaxGpus :
      /\ r[1] * r[2] <= b /\ b < budget => Written(pass, b, RowAt(r, b)) \in log
      /\ stage = "rows" /\ r[1] * r[2] <= b /\ b = budget =>
           RowAt(r, b) \in rows \/ Written(pass, b, RowAt(r, b)) \in log

\* All of it is inductive together.
EstimateInv == EstimateType /\ RecordsFromTool /\ BudgetsComplete

\* The rows of a call are written for the budget that was asked about.
LEMMA FromRowIs ==
  ASSUME NEW r
  PROVE  FromRow(r) = RowAt(r, budget)
BY DEF FromRow, Cluster, Copies, RowAt

\* The constrained throughput comes with its time and concurrency, the best
\* one without a time, and either with the unconstrained requests/s.
LEMMA AnswerGivesFigures ==
  ASSUME NEW a \in Answers, Parsed(a)
  PROVE  FiguresOf(FromAnswer(a), a)
<1>1. CASE a.constrained = None
  BY <1>1, EstimateAssumption, ExperimentAssumption DEF FromAnswer, Throughput,
     Default, Parsed, FiguresOf
<1>2. CASE a.constrained # None
  BY <1>2, EstimateAssumption, ExperimentAssumption DEF FromAnswer, Throughput,
     Default, Parsed, FiguresOf
<1> QED BY <1>1, <1>2

\* Before the first sweep there is nothing to be wrong.
LEMMA EstimateStarts ==
  ASSUME EstimateInit
  PROVE  EstimateInv
BY EstimateAssumption, ExperimentAssumption DEF EstimateInit, EstimateInv,
   EstimateType, RecordsFromTool, BudgetsComplete

\* Calls, appends, failures and kills keep the invariant.
LEMMA EstimateStep ==
  ASSUME EstimateInv,
         [EstimateNext]_estimateVars
  PROVE  EstimateInv'
<1>. USE DEF EstimateInv
<1>0. MaxGpus \in Nat
  BY EstimateAssumption, ExperimentAssumption
<1>1. CASE Start
  <2>1. EstimateType'
    BY <1>0, <1>1 DEF Start, EstimateType
  <2>2. RecordsFromTool'
    BY <1>0, <1>1 DEF Start, RecordsFromTool, FromTool, EstimateType
  <2>3. BudgetsComplete'
    BY <1>0, <1>1 DEF Start, BudgetsComplete, EstimateType
  <2> QED BY <2>1, <2>2, <2>3
<1>2. CASE Call
  <2>1. EstimateType'
    BY <1>0, <1>2 DEF Call, EstimateType
  <2>2. \A r \in rows' : FromTool(r, budget)
    <3>1. CASE estimator = "AIConfigurator"
      BY <1>2, <3>1, FromRowIs DEF Call, FromTool
    <3>2. CASE estimator = "llm-optimizer"
      <4>1. answer[budget] \in Answers
        BY <1>0, <1>2, <3>2 DEF Call, EstimateType
      <4> QED
        BY <1>2, <3>2, <4>1, AnswerGivesFigures DEF Call, FromTool
    <3> QED BY <3>1, <3>2 DEF EstimateType
  <2>3. RecordsFromTool'
    BY <1>2, <2>2 DEF Call, RecordsFromTool, FromTool
  <2>4. estimator = "AIConfigurator" =>
          \A r \in frontier :
            r[1] * r[2] <= budget => RowAt(r, budget) \in rows'
    BY <1>2, FromRowIs DEF Call
  <2>5. BudgetsComplete'
    BY <1>0, <1>2, <2>4 DEF Call, BudgetsComplete, EstimateType
  <2> QED BY <2>1, <2>3, <2>5
<1>3. CASE CallFails
  <2>1. EstimateType'
    BY <1>0, <1>3 DEF CallFails, EstimateType
  <2>2. RecordsFromTool'
    BY <1>3 DEF CallFails, RecordsFromTool, FromTool
  <2>3. BudgetsComplete'
    BY <1>3 DEF CallFails, BudgetsComplete
  <2> QED BY <2>1, <2>2, <2>3
<1>4. CASE AppendRow
  <2>1. EstimateType'
    BY <1>0, <1>4 DEF AppendRow, EstimateType
  <2>2. PICK q \in rows : /\ log' = log \cup {Written(pass, budget, q)}
                          /\ rows' = rows \ {q}
    BY <1>4 DEF AppendRow, Written
  <2>3. /\ UNCHANGED <<estimator, frontier, answer>>
        /\ UNCHANGED <<stage, pass, budget, failed>>
        /\ stage = "rows"
    BY <1>4 DEF AppendRow
  <2>4. RecordsFromTool'
    <3>1. pass \in 1..pass /\ budget \in 1..MaxGpus
      BY <1>0, <2>3 DEF EstimateType
    <3>2. FromTool(q, budget)
      BY <2>2, <2>3 DEF RecordsFromTool
    <3> QED
      BY <2>2, <2>3, <3>1, <3>2 DEF RecordsFromTool, FromTool, Written
  <2>5. BudgetsComplete'
    BY <1>0, <2>2, <2>3 DEF BudgetsComplete
  <2> QED BY <2>1, <2>4, <2>5
<1>5. CASE NextBudget
  <2>1. EstimateType'
    BY <1>0, <1>5 DEF NextBudget, EstimateType
  <2>2. RecordsFromTool'
    BY <1>5 DEF NextBudget, RecordsFromTool, FromTool
  <2>3. BudgetsComplete'
    BY <1>0, <1>5 DEF NextBudget, RowsOver,
       BudgetsComplete, EstimateType
  <2> QED BY <2>1, <2>2, <2>3
<1>6. CASE Finish
  <2>1. EstimateType'
    BY <1>0, <1>6 DEF Finish, EstimateType
  <2>2. RecordsFromTool'
    BY <1>6 DEF Finish, RecordsFromTool, FromTool
  <2>3. BudgetsComplete'
    BY <1>0, <1>6 DEF Finish, BudgetsComplete, EstimateType
  <2> QED BY <2>1, <2>2, <2>3
<1>7. CASE Kill
  <2>1. EstimateType'
    BY <1>0, <1>7 DEF Kill, EstimateType
  <2>2. RecordsFromTool'
    BY <1>7 DEF Kill, RecordsFromTool, FromTool
  <2>3. BudgetsComplete'
    BY <1>7 DEF Kill, BudgetsComplete
  <2> QED BY <2>1, <2>2, <2>3
<1>8. CASE UNCHANGED estimateVars
  <2>1. EstimateType'
    BY <1>8 DEF estimateVars, EstimateType
  <2>2. RecordsFromTool'
    BY <1>8 DEF estimateVars, RecordsFromTool, FromTool
  <2>3. BudgetsComplete'
    BY <1>8 DEF estimateVars, BudgetsComplete
  <2> QED BY <2>1, <2>2, <2>3
<1> QED
  BY <1>1, <1>2, <1>3, <1>4, <1>5, <1>6, <1>7, <1>8 DEF EstimateNext

\* run_full_sweep of both tools, through kills and repetitions: the variables
\* have their types, every record is what the tool said of the budget it is
\* filed under, and an unfailed pass has missed nothing so far.
THEOREM EstimateInvariant == EstimateSpec => []EstimateInv
<1>1. EstimateInit => EstimateInv
  BY EstimateStarts
<1>2. EstimateInv /\ [EstimateNext]_estimateVars => EstimateInv'
  BY EstimateStep
<1> QED BY <1>1, <1>2, PTL DEF EstimateSpec

\* For whatever sections the text of llm-optimizer has, the tokens/s of a
\* record belong to the time to first token and the concurrency beside them,
\* or are the unconstrained best without a time, and the requests/s of every
\* record are those of the unconstrained section.
THEOREM FiguresMatch == EstimateSpec => []PlottedFiguresBelongTogether
<1>1. EstimateInv => PlottedFiguresBelongTogether
  BY DEF EstimateInv, RecordsFromTool, FromTool, FiguresOf,
     PlottedFiguresBelongTogether
<1> QED BY <1>1, EstimateInvariant, PTL

\* A deployment recorded for neighbouring budgets, or by repeated sweeps, has
\* the same figures each time: AIConfigurator is asked per replica.
THEOREM CopiesAgree == EstimateSpec => []RepeatedRecordsAgree
<1>1. ASSUME EstimateInv
      PROVE  RepeatedRecordsAgree
  <2>. SUFFICES
         ASSUME estimator = "AIConfigurator", NEW e \in log, NEW f \in log,
                e.result.tp = f.result.tp, e.result.pp = f.result.pp,
                e.result.replicas = f.result.replicas,
                e.result.batch = f.result.batch
         PROVE  e.result = f.result
    BY DEF RepeatedRecordsAgree
  <2>1. PICK r \in frontier : e.result = RowAt(r, e.budget)
    BY <1>1 DEF EstimateInv, RecordsFromTool, FromTool
  <2>2. PICK q \in frontier : f.result = RowAt(q, f.budget)
    BY <1>1 DEF EstimateInv, RecordsFromTool, FromTool
  <2>3. r[1] = q[1] /\ r[2] = q[2] /\ r[3] = q[3]
    BY <2>1, <2>2 DEF RowAt
  <2>4. r = q
    BY <1>1, <2>3, EstimateAssumption, ExperimentAssumption DEF EstimateInv,
       EstimateType
  <2> QED BY <2>1, <2>2, <2>4 DEF RowAt
<1> QED BY <1>1, EstimateInvariant, PTL

\* Integer division, as the runner uses it.
LEMMA Division ==
  ASSUME NEW g \in Nat, NEW n \in Nat \ {0}
  PROVE  /\ \A b \in 1..g : n <= b => b \div n \in 1..(g \div n)
         /\ \A k \in 1..(g \div n) :
              k * n \in 1..g /\ (k * n) \div n = k /\ n <= k * n
OBVIOUS

\* The docstring's "the 8 calls cover all 25 valid topology triples", for any
\* number of GPUs: an unfailed pass has a record of every number of replicas
\* that fits, and of no other.
THEOREM TopologiesCovered == EstimateSpec => []CallsCoverTopologies
<1>1. ASSUME EstimateInv, stage = "done", estimator = "AIConfigurator", ~failed
      PROVE  {<<e.result.tp, e.result.pp, e.result.replicas>> :
                e \in {x \in log : x.pass = pass}}
             = {t \in Topologies(MaxGpus) :
                  \E r \in frontier : r[1] = t[1] /\ r[2] = t[2]}
  <2>. DEFINE L == {<<e.result.tp, e.result.pp, e.result.replicas>> :
                      e \in {x \in log : x.pass = pass}}
              R == {t \in Topologies(MaxGpus) :
                      \E r \in frontier : r[1] = t[1] /\ r[2] = t[2]}
  <2>0. MaxGpus \in Nat /\ \A r \in frontier : r[1] * r[2] \in Nat \ {0}
    BY <1>1, EstimateAssumption, ExperimentAssumption DEF EstimateInv,
       EstimateType, TP_VALUES, PP_VALUES
  <2>a. \A r \in frontier :
          r[1] * r[2] <= MaxGpus => <<r[1], r[2]>> \in Pairs(MaxGpus)
    BY <1>1, EstimateAssumption DEF EstimateInv, EstimateType, Pairs
  <2>1. ASSUME NEW t \in L PROVE t \in R
    <3>1. PICK e \in log :
            e.pass = pass /\ t = <<e.result.tp, e.result.pp, e.result.replicas>>
      OBVIOUS
    <3>2. e.budget \in 1..MaxGpus
      BY <1>1 DEF EstimateInv, RecordsFromTool
    <3>3. PICK r \in frontier :
            r[1] * r[2] <= e.budget /\ e.result = RowAt(r, e.budget)
      BY <1>1 DEF EstimateInv, RecordsFromTool, FromTool
    <3>4. t = <<r[1], r[2], e.budget \div (r[1] * r[2])>>
      BY <3>1, <3>3 DEF RowAt
    <3>5. e.budget \div (r[1] * r[2]) \in 1..(MaxGpus \div (r[1] * r[2]))
      BY <2>0, <3>2, <3>3, Division
    <3>6. t \in Topologies(MaxGpus)
      <4>0. PICK n \in Nat \ {0}, b \in 1..MaxGpus :
              n = r[1] * r[2] /\ b = e.budget
        BY <2>0, <3>2
      <4>1. PICK p \in Pairs(MaxGpus) : p[1] = r[1] /\ p[2] = r[2]
        <5>1. n <= MaxGpus
          BY <2>0, <3>3, <4>0
        <5> QED BY <2>a, <4>0, <5>1
      <4>2. PICK k \in 1..(MaxGpus \div (p[1] * p[2])) : t = <<p[1], p[2], k>>
        BY <3>4, <3>5, <4>1
      <4> QED BY <4>2 DEF Topologies
    <3> QED BY <3>4, <3>6
  <2>2. ASSUME NEW t \in R PROVE t \in L
    <3>1. PICK p \in Pairs(MaxGpus) :
            \E k \in 1..(MaxGpus \div (p[1] * p[2])) : t = <<p[1], p[2], k>>
      BY DEF Topologies
    <3>2. PICK k \in 1..(MaxGpus \div (p[1] * p[2])) : t = <<p[1], p[2], k>>
      BY <3>1
    <3>3. PICK r \in frontier : r[1] = p[1] /\ r[2] = p[2]
      BY <3>2
    <3>4. PICK n \in Nat \ {0} : n = r[1] * r[2]
      BY <2>0
    <3>5. k \in 1..(MaxGpus \div n)
      BY <3>2, <3>3, <3>4
    <3>6. PICK b \in 1..MaxGpus : b \div n = k /\ n <= b
      BY <2>0, <3>5, Division
    <3>7. Written(pass, b, RowAt(r, b)) \in log
      BY <1>1, <2>0, <3>4, <3>6 DEF EstimateInv, EstimateType, BudgetsComplete
    <3>8. t = <<RowAt(r, b).tp, RowAt(r, b).pp, RowAt(r, b).replicas>>
      BY <3>2, <3>3, <3>4, <3>6 DEF RowAt
    <3> QED BY <3>7, <3>8 DEF Written
  <2> QED BY <2>1, <2>2
<1>2. EstimateInv => CallsCoverTopologies
  BY <1>1 DEF CallsCoverTopologies
<1> QED BY <1>2, EstimateInvariant, PTL

----------------------------------------------------------------------------
\* Finite sets

\* An instance counts as this module does.
LEMMA SameCardinality ==
  ASSUME NEW S
  PROVE  Cardinality(S) = Cardinality(S)
BY DEF Cardinality, Cardinality

\* Pairs of members of finite sets.
LEMMA FinitePairs ==
  ASSUME NEW S, IsFiniteSet(S), NEW T, IsFiniteSet(T)
  PROVE  IsFiniteSet(S \X T)
BY FS_Product

\* A set mapped into a finite one without collisions is finite.
LEMMA FiniteByInjection ==
  ASSUME NEW S, NEW T, IsFiniteSet(T), NEW f \in [S -> T],
         \A x, y \in S : f[x] = f[y] => x = y
  PROVE  IsFiniteSet(S)
<1>1. f \in Injection(S, T)
  BY DEF Injection, IsInjective
<1> QED BY <1>1, FS_Injection

\* The intervals from 0.
LEMMA FiniteRanges ==
  \A k \in Nat : IsFiniteSet(0..k)
BY FS_Interval

\* Sets of at most four members.
LEMMA FiniteSmall ==
  \A a, b, c, d : IsFiniteSet({a, b, c, d})
<1>. TAKE a, b, c, d
<1>1. /\ IsFiniteSet({a}) /\ IsFiniteSet({b})
      /\ IsFiniteSet({c}) /\ IsFiniteSet({d})
  BY FS_Singleton
<1>2. IsFiniteSet({a} \cup {b}) /\ IsFiniteSet({c} \cup {d})
  BY <1>1, FS_Union
<1>3. IsFiniteSet(({a} \cup {b}) \cup ({c} \cup {d}))
  BY <1>2, FS_Union
<1>4. {a, b, c, d} = ({a} \cup {b}) \cup ({c} \cup {d})
  OBVIOUS
<1> QED BY <1>3, <1>4

\* A map without collisions on a finite set keeps its cardinality.
LEMMA SameCount ==
  ASSUME NEW S, IsFiniteSet(S), NEW f, f = [x \in S |-> f[x]],
         \A x, y \in S : f[x] = f[y] => x = y
  PROVE  Cardinality({f[x] : x \in S}) = Cardinality(S)
<1>. DEFINE T == {f[x] : x \in S}
<1>1. f \in [S -> T]
  OBVIOUS
<1>2. f \in Bijection(S, T)
  BY <1>1 DEF Bijection, Injection, Surjection, IsInjective
<1>3. ExistsBijection(S, T)
  BY <1>2 DEF ExistsBijection
<1> QED BY <1>3, FS_Bijection

----------------------------------------------------------------------------
\* The pruning pass

\* The three enumerations, with the topologies each yields.
Tools == {"blis", "vidur", "llm-optimizer"}

Space(tl, n) ==
  IF tl = "blis" THEN TopologiesNoPP(n) ELSE Topologies(n)

\* How many topologies of S come before t.
Rank(S, t) == Cardinality({s \in S : Earlier(s, t)})

\* Enumerated, for the tool tl and the budget n.
Ordered(tl, n) ==
  [k \in 1..Cardinality(Space(tl, n)) |->
     CHOOSE t \in Space(tl, n) : Rank(Space(tl, n), t) = k - 1]

\* ToDict, for the tool tl.
DictOf(tl, t) ==
  IF tl = "llm-optimizer" THEN [tp |-> t[1], pp |-> t[2], dp |-> t[3]]
  ELSE IF tl = "blis"     THEN [tp |-> t[1], replicas |-> t[2]]
                          ELSE [tp |-> t[1], pp |-> t[2], replicas |-> t[3]]

\* A topology is a pair or a triple of numbers.
LEMMA SpaceShape ==
  ASSUME NEW tl \in Tools, NEW n \in Nat, NEW t \in Space(tl, n)
  PROVE  IF tl = "blis"
           THEN t \in TP_VALUES \X (1..n)
           ELSE t \in TP_VALUES \X PP_VALUES \X (1..n)
<1>1. CASE tl = "blis"
  <2>1. PICK p \in TP_VALUES : \E r \in 1..(n \div p) : t = <<p, r>>
    BY <1>1 DEF Space, TopologiesNoPP
  <2>2. PICK r \in 1..(n \div p) : t = <<p, r>>
    BY <2>1
  <2>3. n \div p \in 0..n
    BY DEF TP_VALUES
  <2> QED BY <1>1, <2>2, <2>3
<1>2. CASE tl # "blis"
  <2>1. PICK p \in Pairs(n) :
          \E r \in 1..(n \div (p[1] * p[2])) : t = <<p[1], p[2], r>>
    BY <1>2 DEF Space, Topologies
  <2>2. p[1] \in TP_VALUES /\ p[2] \in PP_VALUES
    BY DEF Pairs
  <2>3. PICK k \in 1..32 : k = p[1] * p[2]
    BY <2>2 DEF TP_VALUES, PP_VALUES
  <2>4. PICK r \in 1..(n \div k) : t = <<p[1], p[2], r>>
    BY <2>1, <2>3
  <2>5. n \div k \in 0..n
    OBVIOUS
  <2> QED BY <1>2, <2>2, <2>4, <2>5
<1> QED BY <1>1, <1>2

\* A budget has finitely many topologies.
LEMMA SpaceFinite ==
  ASSUME NEW tl \in Tools, NEW n \in Nat
  PROVE  IsFiniteSet(Space(tl, n))
<1>. DEFINE S == Space(tl, n)
<1>1. IsFiniteSet(0..8) /\ IsFiniteSet(0..4) /\ IsFiniteSet(0..n)
  <2>1. 8 \in Nat /\ 4 \in Nat
    OBVIOUS
  <2> QED BY <2>1, FiniteRanges, Zenon
<1>2. CASE tl = "blis"
  <2>1. IsFiniteSet((0..8) \X (0..n))
    BY <1>1, FinitePairs
  <2>2. S \subseteq (0..8) \X (0..n)
    BY <1>2, SpaceShape DEF TP_VALUES
  <2> QED BY <2>1, <2>2, FS_Subset
<1>3. CASE tl # "blis"
  <2>. DEFINE A == (0..8) \X (0..4)
              B == 0..n
              f == [t \in S |-> <<<<t[1], t[2]>>, t[3]>>]
  <2>1. IsFiniteSet(A \X B)
    BY <1>1, FinitePairs
  <2>2. ASSUME NEW t \in S
        PROVE  <<t[1], t[2]>> \in A /\ t[3] \in B /\ t = <<t[1], t[2], t[3]>>
    BY <1>3, SpaceShape DEF TP_VALUES, PP_VALUES
  <2>3. ASSUME NEW s \in S, NEW t \in S, f[s] = f[t]
        PROVE  s = t
    BY <2>2, <2>3
  <2>. HIDE DEF A, B, S
  <2>4. f \in [S -> A \X B]
    BY <2>2
  <2>. HIDE DEF f
  <2>5. IsFiniteSet(S)
    BY <2>1, <2>3, <2>4, FiniteByInjection
  <2> QED BY <2>5 DEF S
<1> QED BY <1>2, <1>3

\* The nested loops order the topologies strictly and totally.
LEMMA EarlierIsOrder ==
  ASSUME NEW tl \in Tools, NEW n \in Nat
  PROVE  /\ \A s \in Space(tl, n) : ~Earlier(s, s)
         /\ \A s, t \in Space(tl, n) :
              s = t \/ Earlier(s, t) \/ Earlier(t, s)
         /\ \A s, t, u \in Space(tl, n) :
              Earlier(s, t) /\ Earlier(t, u)
                => Earlier(s, u)
<1>1. CASE tl = "blis"
  <2>1. ASSUME NEW s \in Space(tl, n), NEW t \in Space(tl, n)
        PROVE  Earlier(s, t) <=>
                 \/ s[1] < t[1]
                 \/ s[1] = t[1] /\ s[2] < t[2]
    <3>1. DOMAIN s = 1..2
      BY <1>1, SpaceShape
    <3> QED BY <3>1 DEF Earlier
  <2>2. \A s \in Space(tl, n) :
          s[1] \in Nat /\ s[2] \in Nat /\ s = <<s[1], s[2]>>
    BY <1>1, SpaceShape DEF TP_VALUES
  <2> QED BY <2>1, <2>2
<1>2. CASE tl # "blis"
  <2>1. ASSUME NEW s \in Space(tl, n), NEW t \in Space(tl, n)
        PROVE  Earlier(s, t) <=>
                 \/ s[1] < t[1]
                 \/ s[1] = t[1] /\ s[2] < t[2]
                 \/ s[1] = t[1] /\ s[2] = t[2] /\ s[3] < t[3]
    <3>1. DOMAIN s = 1..3
      BY <1>2, SpaceShape
    <3> QED BY <3>1 DEF Earlier
  <2>2. \A s \in Space(tl, n) : /\ s[1] \in Nat /\ s[2] \in Nat /\ s[3] \in Nat
                               /\ s = <<s[1], s[2], s[3]>>
    BY <1>2, SpaceShape DEF TP_VALUES, PP_VALUES
  <2> QED BY <2>1, <2>2
<1> QED BY <1>1, <1>2

\* The ranks are all different and below the number of topologies, so that
\* every rank belongs to one.
LEMMA EveryRankTaken ==
  ASSUME NEW tl \in Tools, NEW n \in Nat
  PROVE  LET S == Space(tl, n)
         IN  \A k \in 1..Cardinality(S) : \E t \in S : Rank(S, t) = k - 1
<1>. DEFINE S == Space(tl, n)
            N == Cardinality(S)
            before == [t \in S |-> {s \in S : Earlier(s, t)}]
            f == [t \in S |-> Cardinality(before[t])]
<1>1. IsFiniteSet(S) /\ N \in Nat
  BY SpaceFinite, FS_CardinalityType
<1>2. ASSUME NEW t \in S
      PROVE  /\ IsFiniteSet(before[t])
             /\ before[t] \subseteq S \ {t}
  BY <1>1, EarlierIsOrder, FS_Subset
<1>3. ASSUME NEW t \in S
      PROVE  f[t] \in 0..(N - 1)
  <2>1. IsFiniteSet(S \ {t}) /\ Cardinality(S \ {t}) = N - 1
    BY <1>1, FS_RemoveElement
  <2>2. Cardinality(before[t]) \in Nat /\ Cardinality(before[t]) <= N - 1
    BY <1>2, <2>1, FS_Subset, FS_CardinalityType
  <2> QED BY <1>1, <2>2
<1>4. ASSUME NEW s \in S, NEW t \in S, Earlier(s, t)
      PROVE  f[s] < f[t]
  <2>1. before[s] \subseteq before[t] /\ before[s] # before[t]
    BY <1>4, EarlierIsOrder
  <2>2. /\ Cardinality(before[s]) <= Cardinality(before[t])
        /\ Cardinality(before[s]) # Cardinality(before[t])
    BY <1>2, <2>1, FS_Subset
  <2> QED BY <1>3, <2>2
<1>5. ASSUME NEW s \in S, NEW t \in S, f[s] = f[t]
      PROVE  s = t
  <2>1. s = t \/ Earlier(s, t) \/ Earlier(t, s)
    BY EarlierIsOrder
  <2>2. f[s] \in 0..(N - 1) /\ f[t] \in 0..(N - 1)
    BY <1>3
  <2>3. ~(f[s] < f[t]) /\ ~(f[t] < f[s])
    BY <1>1, <1>5, <2>2
  <2> QED BY <1>4, <2>1, <2>3
<1>6. \A t \in S : f[t] = Rank(S, t)
  BY SameCardinality DEF Rank
<1>. HIDE DEF f, S, N
<1>7. f \in Injection(S, 0..(N - 1))
  BY <1>3, <1>5 DEF f, Injection, IsInjective
<1>8. IsFiniteSet(0..(N - 1)) /\ Cardinality(0..(N - 1)) = N
  BY <1>1, FS_Interval
<1>9. f \in Surjection(S, 0..(N - 1))
  BY <1>7, <1>8, FS_Injection DEF N
<1>10. \A k \in 1..N : \E t \in S : f[t] = k - 1
  BY <1>1, <1>9 DEF Surjection
<1> QED BY <1>6, <1>10 DEF S, N

\* The enumeration is a sequence of topologies without repetition.
LEMMA OrderedIsEnumeration ==
  ASSUME NEW tl \in Tools, NEW n \in Nat
  PROVE  /\ Ordered(tl, n) \in Seq(Space(tl, n))
         /\ Len(Ordered(tl, n)) \in Nat
         /\ \A j, k \in 1..Len(Ordered(tl, n)) :
              Ordered(tl, n)[j] = Ordered(tl, n)[k] => j = k
<1>. DEFINE S == Space(tl, n)
            N == Cardinality(S)
            E == Ordered(tl, n)
<1>1. N \in Nat /\ E = [k \in 1..N |-> CHOOSE t \in S : Rank(S, t) = k - 1]
  BY SpaceFinite, FS_CardinalityType, SameCardinality DEF Ordered
<1>2. ASSUME NEW k \in 1..N
      PROVE  E[k] \in S /\ Rank(S, E[k]) = k - 1
  BY <1>1, EveryRankTaken
<1>. HIDE DEF E, S, N
<1>3. E \in [1..N -> S]
  BY <1>1, <1>2
<1>4. E \in Seq(S) /\ Len(E) = N
  BY <1>1, <1>3
<1> QED BY <1>1, <1>2, <1>4 DEF E, S, N

\* _topology_to_dict keeps the parallelism and the GPUs, and tells topologies
\* apart.
LEMMA DictFaithful ==
  ASSUME NEW tl \in Tools, NEW n \in Nat, NEW s \in Space(tl, n),
         NEW t \in Space(tl, n)
  PROVE  /\ DictOf(tl, t).tp = t[1]
         /\ DictGpus(DictOf(tl, t)) =
              IF tl = "blis" THEN t[1] * t[2] ELSE t[1] * t[2] * t[3]
         /\ DictOf(tl, s) = DictOf(tl, t) => s = t
<1>1. CASE tl = "blis"
  <2>1. /\ s = <<s[1], s[2]>> /\ t = <<t[1], t[2]>>
        /\ t[1] \in Nat /\ t[2] \in Nat
    BY <1>1, SpaceShape DEF TP_VALUES
  <2>2. DictOf(tl, t) = [tp |-> t[1], replicas |-> t[2]]
        /\ DictOf(tl, s) = [tp |-> s[1], replicas |-> s[2]]
    BY <1>1 DEF DictOf
  <2> QED BY <1>1, <2>1, <2>2 DEF DictGpus
<1>2. CASE tl # "blis"
  <2>1. /\ s = <<s[1], s[2], s[3]>> /\ t = <<t[1], t[2], t[3]>>
        /\ t[1] \in Nat /\ t[2] \in Nat /\ t[3] \in Nat
    BY <1>2, SpaceShape DEF TP_VALUES, PP_VALUES
  <2>2. CASE tl = "llm-optimizer"
    <3>1. DictOf(tl, t) = [tp |-> t[1], pp |-> t[2], dp |-> t[3]]
          /\ DictOf(tl, s) = [tp |-> s[1], pp |-> s[2], dp |-> s[3]]
      BY <2>2 DEF DictOf
    <3> QED BY <1>2, <2>1, <3>1 DEF DictGpus
  <2>3. CASE tl # "llm-optimizer"
    <3>1. DictOf(tl, t) = [tp |-> t[1], pp |-> t[2], replicas |-> t[3]]
          /\ DictOf(tl, s) = [tp |-> s[1], pp |-> s[2], replicas |-> s[3]]
      BY <1>2, <2>3 DEF DictOf
    <3> QED BY <1>2, <2>1, <3>1 DEF DictGpus
  <2> QED BY <2>2, <2>3
<1> QED BY <1>1, <1>2

\* f tells which results the passing topologies are from.
Picks(f, rs, ps, E) ==
  /\ f \in [1..Len(ps) -> 1..Len(rs)]
  /\ \A i, j \in 1..Len(ps) : i < j => f[i] < f[j]
  /\ \A i \in 1..Len(ps) : ps[i] = E[f[i]]
  /\ \A k \in 1..Len(rs) : rs[k].passes <=> \E i \in 1..Len(ps) : f[i] = k

\* After n records, the topologies loaded are those of the picks up to n.
ReadUpTo(f, ls, ps, n, tl) ==
  /\ Len(ls) <= Len(ps)
  /\ \A i \in 1..Len(ps) : i <= Len(ls) <=> f[i] <= n
  /\ \A i \in 1..Len(ls) : ls[i] = DictOf(tl, ps[i])

\* A result that does not pass is not picked.
LEMMA PickNone ==
  ASSUME NEW R, NEW P, NEW rs \in Seq(R), NEW ps \in Seq(P), NEW E, NEW f,
         Picks(f, rs, ps, E), NEW r \in R, ~r.passes
  PROVE  Picks(f, Append(rs, r), ps, E)
<1>1. /\ Len(Append(rs, r)) = Len(rs) + 1 /\ Len(rs) \in Nat /\ Len(ps) \in Nat
      /\ \A k \in 1..Len(rs) : Append(rs, r)[k] = rs[k]
      /\ Append(rs, r)[Len(rs) + 1] = r
  BY AppendProperties, LenProperties
<1> QED BY <1>1 DEF Picks

\* One that passes is the last one picked.
LEMMA PickOne ==
  ASSUME NEW R, NEW P, NEW rs \in Seq(R), NEW ps \in Seq(P), NEW E, NEW f,
         Picks(f, rs, ps, E), NEW r \in R, r.passes, NEW t \in P,
         t = E[Len(rs) + 1]
  PROVE  \E g : Picks(g, Append(rs, r), Append(ps, t), E)
<1>. DEFINE n == Len(rs)
            m == Len(ps)
            g == [i \in 1..(m + 1) |-> IF i = m + 1 THEN n + 1 ELSE f[i]]
<1>1. /\ Len(Append(rs, r)) = n + 1 /\ n \in Nat
      /\ \A k \in 1..n : Append(rs, r)[k] = rs[k]
      /\ Append(rs, r)[n + 1] = r
  BY AppendProperties, LenProperties
<1>2. /\ Len(Append(ps, t)) = m + 1 /\ m \in Nat
      /\ \A i \in 1..m : Append(ps, t)[i] = ps[i]
      /\ Append(ps, t)[m + 1] = t
  BY AppendProperties, LenProperties
<1>. HIDE DEF n, m
<1>3. g \in [1..(m + 1) -> 1..(n + 1)]
  BY <1>1, <1>2 DEF Picks, n, m
<1>4. \A i \in 1..m : g[i] = f[i] /\ f[i] \in 1..n
  BY <1>2 DEF Picks, n, m
<1>5. g[m + 1] = n + 1
  BY <1>2
<1>. HIDE DEF g
<1>6. \A i, j \in 1..(m + 1) : i < j => g[i] < g[j]
  BY <1>1, <1>2, <1>4, <1>5 DEF Picks, m
<1>7. \A i \in 1..(m + 1) : Append(ps, t)[i] = E[g[i]]
  <2>. SUFFICES ASSUME NEW i \in 1..(m + 1) PROVE Append(ps, t)[i] = E[g[i]]
    OBVIOUS
  <2>1. CASE i = m + 1
    BY <1>2, <1>5, <2>1 DEF n
  <2>2. CASE i # m + 1
    <3>1. i \in 1..m
      BY <1>2, <2>2
    <3> QED BY <1>2, <1>4, <3>1 DEF Picks, m
  <2> QED BY <2>1, <2>2
<1>8. ASSUME NEW k \in 1..(n + 1)
      PROVE  Append(rs, r)[k].passes <=> \E i \in 1..(m + 1) : g[i] = k
  <2>1. CASE k = n + 1
    BY <1>1, <1>2, <1>5, <2>1
  <2>2. CASE k # n + 1
    <3>1. k \in 1..n
      BY <1>1, <2>2
    <3>2. rs[k].passes <=> \E i \in 1..m : f[i] = k
      BY <3>1 DEF Picks, n, m
    <3>3. (\E i \in 1..(m + 1) : g[i] = k) <=> \E i \in 1..m : f[i] = k
      BY <1>2, <1>4, <1>5, <2>2
    <3> QED BY <1>1, <3>1, <3>2, <3>3
  <2> QED BY <2>1, <2>2
<1>9. Picks(g, Append(rs, r), Append(ps, t), E)
  BY <1>1, <1>2, <1>3, <1>6, <1>7, <1>8 DEF Picks
<1> QED BY <1>9

\* Reading one more record loads its topology if it was picked.
LEMMA ReadNext ==
  ASSUME NEW R, NEW P, NEW D, NEW rs \in Seq(R), NEW ps \in Seq(P),
         NEW ls \in Seq(D), NEW E, NEW f, NEW tl, Picks(f, rs, ps, E),
         NEW n \in Nat, n < Len(rs), ReadUpTo(f, ls, ps, n, tl),
         NEW d \in D, d = DictOf(tl, E[n + 1])
  PROVE  /\ ~rs[n + 1].passes => ReadUpTo(f, ls, ps, n + 1, tl)
         /\ rs[n + 1].passes => ReadUpTo(f, Append(ls, d), ps, n + 1, tl)
<1>0. /\ Len(rs) \in Nat /\ Len(ps) \in Nat /\ Len(ls) \in Nat
      /\ n + 1 \in 1..Len(rs)
  BY LenProperties
<1>1. ASSUME ~rs[n + 1].passes
      PROVE  ReadUpTo(f, ls, ps, n + 1, tl)
  <2>1. \A i \in 1..Len(ps) : f[i] \in 1..Len(rs) /\ f[i] # n + 1
    BY <1>0, <1>1 DEF Picks
  <2>2. \A i \in 1..Len(ps) : f[i] <= n <=> f[i] <= n + 1
    BY <1>0, <2>1
  <2> QED BY <2>2 DEF ReadUpTo
<1>2. ASSUME rs[n + 1].passes
      PROVE  ReadUpTo(f, Append(ls, d), ps, n + 1, tl)
  <2>1. PICK j \in 1..Len(ps) : f[j] = n + 1
    BY <1>0, <1>2 DEF Picks
  <2>2. \A i \in 1..Len(ps) : f[i] \in 1..Len(rs)
    BY DEF Picks
  <2>3. j = Len(ls) + 1
    <3>1. j > Len(ls)
      BY <1>0, <2>1 DEF ReadUpTo
    <3>2. ~(j > Len(ls) + 1)
      <4>. SUFFICES ASSUME j > Len(ls) + 1 PROVE FALSE
        OBVIOUS
      <4>1. Len(ls) + 1 \in 1..Len(ps)
        BY <1>0
      <4>2. f[Len(ls) + 1] < n + 1
        BY <1>0, <2>1, <4>1 DEF Picks
      <4>3. ~(f[Len(ls) + 1] <= n)
        BY <1>0, <4>1 DEF ReadUpTo
      <4> QED BY <2>2, <4>1, <4>2, <4>3
    <3> QED BY <1>0, <3>1, <3>2
  <2>4. /\ Len(Append(ls, d)) = Len(ls) + 1
        /\ \A i \in 1..Len(ls) : Append(ls, d)[i] = ls[i]
        /\ Append(ls, d)[Len(ls) + 1] = d
    BY AppendProperties
  <2>5. ASSUME NEW i \in 1..Len(ps)
        PROVE  i <= Len(ls) + 1 <=> f[i] <= n + 1
    <3>1. CASE i < j
      BY <1>0, <2>1, <2>2, <2>3, <3>1 DEF Picks
    <3>2. CASE i = j
      BY <1>0, <2>1, <2>3, <3>2
    <3>3. CASE i > j
      BY <1>0, <2>1, <2>2, <2>3, <3>3 DEF Picks
    <3> QED BY <3>1, <3>2, <3>3
  <2>6. ASSUME NEW i \in 1..(Len(ls) + 1)
        PROVE  Append(ls, d)[i] = DictOf(tl, ps[i])
    <3>1. CASE i = Len(ls) + 1
      <4>1. ps[i] = E[n + 1]
        BY <2>1, <2>3, <3>1 DEF Picks
      <4> QED BY <2>4, <3>1, <4>1
    <3>2. CASE i # Len(ls) + 1
      <4>1. i \in 1..Len(ls)
        BY <1>0, <3>2
      <4> QED BY <2>4, <4>1 DEF ReadUpTo
    <3> QED BY <3>1, <3>2
  <2>7. Len(ls) + 1 <= Len(ps)
    BY <1>0, <2>3
  <2> QED BY <2>4, <2>5, <2>6, <2>7 DEF ReadUpTo
<1> QED BY <1>1, <1>2

\* What results and loaded topologies may be.
Dicts(tl, n) == {DictOf(tl, t) : t \in Space(tl, n)}

Verdicts(tl, n) ==
  [topology : Dicts(tl, n), ttft : Nat \cup {None},
   status : {"ok", "timeout", "skipped"}, passes : BOOLEAN]

\* The variables have their types.
PruneType ==
  /\ maxGpus \in 1..MaxGpus
  /\ tool \in Tools
  /\ phase \in {"start", "pruning", "saving", "saved", "loaded"}
  /\ results \in Seq(Verdicts(tool, maxGpus))
  /\ passing \in Seq(Space(tool, maxGpus))
  /\ loaded \in Seq(Dicts(tool, maxGpus))
  /\ read \in 0..Len(results)

\* The results are those of the first topologies, in order.
ResultsInOrder ==
  /\ Len(results) <= Len(Ordered(tool, maxGpus))
  /\ \A k \in 1..Len(results) :
       /\ results[k].topology = DictOf(tool, Ordered(tool, maxGpus)[k])
       /\ results[k].passes =>
            \/ results[k].status = "skipped"
            \/ results[k].ttft \in Nat /\ 2 * results[k].ttft <= 3 * Slo

\* What is known of the variables between one step of cmd_prune and the next.
Stages ==
  /\ phase = "start" => results = <<>> /\ passing = <<>>
  /\ IF phase \in {"saved", "loaded"} THEN file = results
                                  ELSE read = 0 /\ loaded = <<>>
  /\ phase = "loaded" => read = Len(results)

\* The passing topologies are picked from the results, and read back in order.
Selection ==
  \E f : /\ Picks(f, results, passing, Ordered(tool, maxGpus))
         /\ ReadUpTo(f, loaded, passing, read, tool)

\* All of it is inductive together.
PruneInv == PruneType /\ ResultsInOrder /\ Stages /\ Selection

\* The definitions with parameters are those of the module.
LEMMA Names ==
  /\ Enumerated = Ordered(tool, maxGpus)
  /\ \A t : ToDict(t) = DictOf(tool, t)
BY DEF Enumerated, ToDict, Ordered, DictOf, Space, Rank

\* At the start nothing is evaluated, picked or read.
LEMMA PruneStarts ==
  ASSUME PruneInit
  PROVE  PruneInv
<1>. USE DEF PruneInit
<1>1. PruneType
  BY DEF PruneType, Tools
<1>2. ResultsInOrder
  <2>1. maxGpus \in Nat
    BY PruningAssumption, ExperimentAssumption
  <2> QED BY <2>1, OrderedIsEnumeration DEF ResultsInOrder, Tools
<1>3. Stages
  BY DEF Stages
<1>4. Selection
  <2>. DEFINE f == [i \in 1..0 |-> 1]
  <2>1. /\ Picks(f, <<>>, <<>>, Ordered(tool, maxGpus))
        /\ ReadUpTo(f, <<>>, <<>>, 0, tool)
    BY DEF Picks, ReadUpTo
  <2> QED BY <2>1 DEF Selection
<1> QED BY <1>1, <1>2, <1>3, <1>4 DEF PruneInv

\* The result of a topology that is passed without evaluation.
LEMMA SkippedResult ==
  ASSUME NEW tl, NEW n, NEW t \in Space(tl, n),
         NEW r, r = [topology |-> DictOf(tl, t), ttft |-> None,
                     status |-> "skipped", passes |-> TRUE]
  PROVE  /\ r \in Verdicts(tl, n)
         /\ r.topology = DictOf(tl, t)
         /\ r.status = "skipped"
         /\ r.passes
<1>1. PICK d \in Dicts(tl, n) : d = DictOf(tl, t)
  BY DEF Dicts
<1>2. r = [topology |-> d, ttft |-> None, status |-> "skipped", passes |-> TRUE]
  BY <1>1
<1>3. r \in Verdicts(tl, n)
  BY <1>2 DEF Verdicts
<1> QED BY <1>1, <1>2, <1>3

\* Evaluating, saving and reading back keep the invariant.
LEMMA PruneStep ==
  ASSUME PruneInv, [PruneNext]_pruneVars
  PROVE  PruneInv'
<1>. USE DEF PruneInv
<1>0. /\ maxGpus \in Nat
      /\ Ordered(tool, maxGpus) \in Seq(Space(tool, maxGpus))
      /\ Len(Ordered(tool, maxGpus)) \in Nat
  BY OrderedIsEnumeration, PruningAssumption, ExperimentAssumption DEF PruneType
<1>a. PICK E \in Seq(Space(tool, maxGpus)) : E = Ordered(tool, maxGpus)
  BY <1>0
<1>b. Len(E) \in Nat /\ \A k \in 1..Len(E) : E[k] \in Space(tool, maxGpus)
  BY <1>0, <1>a
<1>1. CASE PassAll
  <2>1. /\ results' = [k \in DOMAIN E |->
                         Result(E[k], None, "skipped", TRUE)]
        /\ passing' = E
        /\ phase = "start" /\ phase' = "saving"
        /\ UNCHANGED <<maxGpus, tool, file, read, loaded>>
    BY <1>1, <1>a, Names DEF PassAll
  <2>2. read = 0 /\ loaded = <<>>
    BY <2>1 DEF Stages
  <2>3. /\ results' \in Seq(Verdicts(tool, maxGpus)) /\ Len(results') = Len(E)
        /\ \A k \in 1..Len(E) : /\ results'[k].topology = DictOf(tool, E[k])
                                /\ results'[k].status = "skipped"
                                /\ results'[k].passes
    <3>1. ASSUME NEW k \in 1..Len(E)
          PROVE  Result(E[k], None, "skipped", TRUE) =
                   [topology |-> DictOf(tool, E[k]), ttft |-> None,
                    status |-> "skipped", passes |-> TRUE]
      BY Names DEF Result
    <3>2. DOMAIN E = 1..Len(E)
      BY <1>a
    <3>3. PICK rs : rs = [k \in 1..Len(E) |->
                            Result(E[k], None, "skipped", TRUE)]
      OBVIOUS
    <3>4. results' = rs
      BY <2>1, <3>2, <3>3
    <3>5. ASSUME NEW k \in 1..Len(E)
          PROVE  rs[k] = [topology |-> DictOf(tool, E[k]), ttft |-> None,
                          status |-> "skipped", passes |-> TRUE]
      BY <3>1, <3>3
    <3>6. ASSUME NEW k \in 1..Len(E)
          PROVE  /\ rs[k] \in Verdicts(tool, maxGpus)
                 /\ rs[k].topology = DictOf(tool, E[k])
                 /\ rs[k].status = "skipped"
                 /\ rs[k].passes
      <4>1. E[k] \in Space(tool, maxGpus)
        BY <1>b
      <4>2. rs[k] = [topology |-> DictOf(tool, E[k]), ttft |-> None,
                     status |-> "skipped", passes |-> TRUE]
        BY <3>5
      <4> QED BY <4>1, <4>2, SkippedResult
    <3>7. rs \in [1..Len(E) -> Verdicts(tool, maxGpus)]
      BY <3>3, <3>6
    <3>8. rs \in Seq(Verdicts(tool, maxGpus)) /\ Len(rs) = Len(E)
      BY <1>b, <3>7
    <3> QED BY <3>4, <3>6, <3>8, Zenon
  <2>4. PruneType'
    BY <1>b, <2>1, <2>2, <2>3 DEF PruneType
  <2>5. ResultsInOrder'
    <3>1. maxGpus' = maxGpus /\ tool' = tool
      BY <2>1
    <3> QED BY <1>a, <1>b, <2>3, <3>1 DEF ResultsInOrder
  <2>6. Stages'
    BY <2>1, <2>2 DEF Stages
  <2>7. Selection'
    <3>. DEFINE f == [i \in 1..Len(E) |-> i]
    <3>1. Picks(f, results', E, E)
      BY <1>b, <2>1, <2>3 DEF Picks
    <3>2. ReadUpTo(f, <<>>, E, 0, tool)
      BY <1>b DEF ReadUpTo
    <3> QED BY <1>a, <2>1, <2>2, <3>1, <3>2 DEF Selection
  <2> QED BY <2>4, <2>5, <2>6, <2>7
<1>2. CASE StartPruning
  BY <1>2 DEF StartPruning, PruneType, ResultsInOrder, Stages, Selection
<1>3. CASE Evaluate
  <2>1. PICK ttft \in TTFTs, status \in {"ok", "timeout"} :
          LET t == Enumerated[Len(results) + 1]
              v == Passes(ttft, status)
          IN  /\ results' = Append(results, Result(t, ttft, status, v))
              /\ passing' = IF v THEN Append(passing, t) ELSE passing
    BY <1>3 DEF Evaluate
  <2>2. /\ phase = "pruning" /\ Len(results) < Len(E)
        /\ UNCHANGED <<maxGpus, tool, phase, file, read, loaded>>
    BY <1>3, <1>a, Names DEF Evaluate
  <2>3. PICK v \in BOOLEAN : v = Passes(ttft, status)
    BY DEF Passes
  <2>4. PICK t \in Space(tool, maxGpus) : t = E[Len(results) + 1]
    BY <1>b, <2>2 DEF PruneType
  <2>5. PICK r : r = [topology |-> DictOf(tool, t), ttft |-> ttft,
                      status |-> status, passes |-> v]
    OBVIOUS
  <2>6. /\ results' = Append(results, r)
        /\ passing' = IF v THEN Append(passing, t) ELSE passing
    BY <1>a, <2>1, <2>3, <2>4, <2>5, Names DEF Result
  <2>7. r \in Verdicts(tool, maxGpus)
    BY <2>4, <2>5, PruningAssumption, ExperimentAssumption DEF Verdicts, Dicts
  <2>8. r.passes => r.ttft \in Nat /\ 2 * r.ttft <= 3 * Slo
    BY <2>3, <2>5, PruningAssumption, ExperimentAssumption DEF Passes
  <2>9. read = 0 /\ loaded = <<>>
    BY <2>2 DEF Stages
  <2>10. /\ results' \in Seq(Verdicts(tool, maxGpus))
         /\ Len(results') = Len(results) + 1 /\ Len(results) \in Nat
         /\ \A k \in 1..Len(results) : results'[k] = results[k]
         /\ results'[Len(results) + 1] = r
    BY <2>6, <2>7, AppendProperties, LenProperties DEF PruneType
  <2>11. PruneType'
    <3>1. passing' \in Seq(Space(tool, maxGpus))
      BY <2>6 DEF PruneType
    <3> QED BY <2>2, <2>9, <2>10, <3>1 DEF PruneType
  <2>12. ResultsInOrder'
    <3>1. \A k \in 1..(Len(results) + 1) :
            k \in 1..Len(results) \/ k = Len(results) + 1
      BY <2>10
    <3>2. r.topology = DictOf(tool, E[Len(results) + 1])
      BY <2>4, <2>5
    <3> QED BY <1>a, <1>b, <2>2, <2>8, <2>10, <3>1, <3>2 DEF ResultsInOrder
  <2>13. Stages'
    BY <2>2, <2>9 DEF Stages
  <2>14. Selection'
    <3>1. PICK f : Picks(f, results, passing, E)
      BY <1>a DEF Selection
    <3>2. \E g : Picks(g, results', passing', E)
      <4>1. CASE v
        <5>1. r.passes
          BY <2>5, <4>1
        <5>2. \E g : Picks(g, Append(results, r), Append(passing, t), E)
          BY <2>4, <2>7, <3>1, <5>1, PickOne DEF PruneType
        <5> QED BY <2>6, <4>1, <5>2
      <4>2. CASE ~v
        <5>1. ~r.passes
          BY <2>5, <4>2
        <5>2. Picks(f, Append(results, r), passing, E)
          BY <2>7, <3>1, <5>1, PickNone DEF PruneType
        <5> QED BY <2>6, <4>2, <5>2
      <4> QED BY <4>1, <4>2
    <3>3. PICK g : Picks(g, results', passing', E)
      BY <3>2
    <3>4. ReadUpTo(g, <<>>, passing', 0, tool)
      <4>1. passing' \in Seq(Space(tool, maxGpus)) /\ Len(passing') \in Nat
        BY <2>2, <2>11, LenProperties DEF PruneType
      <4> QED BY <3>3, <4>1 DEF ReadUpTo, Picks
    <3> QED BY <1>a, <2>2, <2>9, <3>3, <3>4 DEF Selection
  <2> QED BY <2>11, <2>12, <2>13, <2>14
<1>4. CASE EndPruning
  BY <1>4 DEF EndPruning, PruneType, ResultsInOrder, Stages, Selection
<1>5. CASE Save
  BY <1>5 DEF Save, PruneType, ResultsInOrder, Stages, Selection
<1>6. CASE Load
  <2>1. /\ phase = "saved" /\ read < Len(results) /\ read' = read + 1
        /\ loaded' = IF results[read + 1].passes
                       THEN Append(loaded, results[read + 1].topology)
                       ELSE loaded
        /\ UNCHANGED <<maxGpus, tool, phase, results, passing, file>>
    BY <1>6 DEF Load, Stages
  <2>2. read \in Nat /\ Len(results) \in Nat /\ read + 1 \in 1..Len(results)
    BY <2>1, LenProperties DEF PruneType
  <2>3. PICK d \in Dicts(tool, maxGpus) :
          d = results[read + 1].topology /\ d = DictOf(tool, E[read + 1])
    <3>1. results[read + 1] \in Verdicts(tool, maxGpus)
      BY <2>2 DEF PruneType
    <3> QED BY <1>a, <2>2, <3>1 DEF Verdicts, ResultsInOrder
  <2>4. PruneType'
    BY <2>1, <2>2, <2>3 DEF PruneType
  <2>5. ResultsInOrder' /\ Stages'
    BY <2>1 DEF ResultsInOrder, Stages
  <2>6. Selection'
    <3>1. PICK f : /\ Picks(f, results, passing, E)
                   /\ ReadUpTo(f, loaded, passing, read, tool)
      BY <1>a DEF Selection
    <3>2. ReadUpTo(f, loaded', passing, read + 1, tool)
      <4>1. CASE results[read + 1].passes
        <5>1. ReadUpTo(f, Append(loaded, d), passing, read + 1, tool)
          BY <2>1, <2>2, <2>3, <3>1, <4>1, ReadNext DEF PruneType
        <5> QED BY <2>1, <2>3, <4>1, <5>1
      <4>2. CASE ~results[read + 1].passes
        <5>1. ReadUpTo(f, loaded, passing, read + 1, tool)
          BY <2>1, <2>2, <2>3, <3>1, <4>2, ReadNext DEF PruneType
        <5> QED BY <2>1, <4>2, <5>1
      <4> QED BY <4>1, <4>2
    <3> QED BY <1>a, <2>1, <3>1, <3>2 DEF Selection
  <2> QED BY <2>4, <2>5, <2>6
<1>7. CASE EndLoading
  BY <1>7 DEF EndLoading, PruneType, ResultsInOrder, Stages, Selection
<1>8. CASE UNCHANGED pruneVars
  BY <1>8 DEF pruneVars, PruneType, ResultsInOrder, Stages, Selection
<1> QED
  BY <1>1, <1>2, <1>3, <1>4, <1>5, <1>6, <1>7, <1>8 DEF PruneNext

\* cmd_prune: the results are those of the first topologies in the order of
\* the enumeration, and what passes and what is read back is picked from them.
THEOREM PruneInvariant == PruneSpec => []PruneInv
<1>1. PruneInit => PruneInv
  BY PruneStarts
<1>2. PruneInv /\ [PruneNext]_pruneVars => PruneInv'
  BY PruneStep
<1> QED BY <1>1, <1>2, PTL DEF PruneSpec

\* What save_prune_results writes and load_pruned_topologies reads back is,
\* topology by topology, what prune_topologies returns, whichever of the three
\* dictionary forms the tool uses.
THEOREM RoundTripSafe == PruneSpec => []PruningRoundTrip
<1>1. ASSUME PruneInv, phase = "loaded"
      PROVE
    /\ Len(loaded) = Len(passing)
    /\ IsInjective(loaded)
    /\ \A k \in DOMAIN loaded :
         /\ loaded[k].tp = passing[k][1]
         /\ DictGpus(loaded[k]) = Gpus(passing[k])
         /\ \E j \in DOMAIN results :
              /\ results[j].topology = loaded[k]
              /\ \/ results[j].status = "skipped"
                 \/ results[j].ttft \in Nat /\ 2 * results[j].ttft <= 3 * Slo
  <2>. USE <1>1 DEF PruneInv
  <2>1. maxGpus \in Nat /\ tool \in Tools
    BY PruningAssumption, ExperimentAssumption DEF PruneType
  <2>2. PICK E \in Seq(Space(tool, maxGpus)) : E = Ordered(tool, maxGpus)
    BY <2>1, OrderedIsEnumeration
  <2>3. PICK f : /\ Picks(f, results, passing, E)
                 /\ ReadUpTo(f, loaded, passing, read, tool)
    BY <2>2 DEF Selection
  <2>4. /\ Len(results) \in Nat /\ Len(passing) \in Nat
        /\ Len(loaded) \in Nat /\ Len(E) \in Nat
        /\ Len(results) <= Len(E) /\ DOMAIN loaded = 1..Len(loaded)
        /\ DOMAIN results = 1..Len(results)
    BY <2>2, LenProperties DEF PruneType, ResultsInOrder
  <2>5. Len(loaded) = Len(passing)
    <3>1. CASE Len(passing) = 0
      BY <2>3, <2>4, <3>1 DEF ReadUpTo
    <3>2. CASE Len(passing) > 0
      <4>1. f[Len(passing)] <= read
        BY <2>3, <2>4, <3>2 DEF Picks, Stages
      <4> QED BY <2>3, <2>4, <3>2, <4>1 DEF ReadUpTo
    <3> QED BY <2>4, <3>1, <3>2
  <2>6. ASSUME NEW k \in 1..Len(loaded)
        PROVE  /\ f[k] \in 1..Len(results) /\ f[k] \in 1..Len(E)
               /\ passing[k] = E[f[k]] /\ E[f[k]] \in Space(tool, maxGpus)
               /\ loaded[k] = DictOf(tool, E[f[k]])
               /\ results[f[k]].passes
    <3>1. k \in 1..Len(passing)
      BY <2>5
    <3>2. f[k] \in 1..Len(results) /\ passing[k] = E[f[k]]
      BY <2>3, <3>1 DEF Picks
    <3>3. results[f[k]].passes
      BY <2>3, <3>1, <3>2 DEF Picks
    <3>4. f[k] \in 1..Len(E)
      BY <2>4, <3>2
    <3>5. E[f[k]] \in Space(tool, maxGpus)
      BY <3>4
    <3> QED BY <2>3, <3>2, <3>3, <3>4, <3>5 DEF ReadUpTo
  <2>7. IsInjective(loaded)
    <3>. SUFFICES ASSUME NEW i \in 1..Len(loaded), NEW k \in 1..Len(loaded),
                         loaded[i] = loaded[k]
                  PROVE  i = k
      BY <2>4 DEF IsInjective
    <3>1. E[f[i]] = E[f[k]]
      BY <2>1, <2>6, DictFaithful
    <3>2. f[i] = f[k]
      BY <2>1, <2>2, <2>6, <3>1, OrderedIsEnumeration
    <3>3. i \in 1..Len(passing) /\ k \in 1..Len(passing) /\ f[i] \in Nat
      BY <2>5, <2>6
    <3>4. ~(i < k) /\ ~(k < i)
      BY <2>3, <3>2, <3>3 DEF Picks
    <3> QED BY <3>4
  <2>8. ASSUME NEW k \in 1..Len(loaded)
        PROVE  /\ loaded[k].tp = passing[k][1]
               /\ DictGpus(loaded[k]) = Gpus(passing[k])
               /\ results[f[k]].topology = loaded[k]
               /\ \/ results[f[k]].status = "skipped"
                  \/ /\ results[f[k]].ttft \in Nat
                     /\ 2 * results[f[k]].ttft <= 3 * Slo
    <3>1. /\ DictOf(tool, E[f[k]]).tp = E[f[k]][1]
          /\ DictGpus(DictOf(tool, E[f[k]])) = Gpus(E[f[k]])
      BY <2>1, <2>6, DictFaithful DEF Gpus
    <3> QED BY <2>2, <2>6, <3>1 DEF ResultsInOrder
  <2> QED BY <2>4, <2>5, <2>6, <2>7, <2>8
<1>2. PruneInv => PruningRoundTrip
  BY <1>1 DEF PruningRoundTrip
<1> QED BY <1>2, PruneInvariant, PTL

----------------------------------------------------------------------------
\* The pruned BLIS space

\* The batching combinations that are kept are those with fewer sequences.
LEMMA BatchingKept ==
  ASSUME NEW b
  PROVE  b \in BatchingCombos({32, 64, 128, 256})
           <=> /\ b \in BatchingCombos({32, 64, 128, 256, 512})
               /\ b[1] # 512
BY DEF BatchingCombos

\* The name under which a policy is kept that is not one of the mixed ones.
KeptAs(p) ==
  IF p.scheduler \in PRIORITY_AWARE_SCHEDULERS THEN p
  ELSE [p EXCEPT !.preemption = "fcfs",
                 !.admission = IF @ = None THEN @ ELSE "always-admit"]

\* Policies that shed by tier or preempt by priority, but not both.
Mixed(p) ==
  /\ p.scheduler \in PRIORITY_AWARE_SCHEDULERS
  /\ p.admission # None
  /\ ~(p.admission = "tier-shed" <=> p.preemption = "priority")

\* Of the other policies, what _is_valid_*_replica_policy removes is only a
\* name for one it keeps.
LEMMA PoliciesKept ==
  ASSUME NEW n \in Nat
  PROVE  /\ PrunedPolicies(n) \subseteq Policies(n)
         /\ \A p \in PrunedPolicies(n) : ~Mixed(p)
         /\ \A p \in Policies(n) :
              ~Mixed(p) => KeptAs(p) \in PrunedPolicies(n)
<1>0. None # "always-admit" /\ None # "tier-shed"
  BY NoneIsNoValue DEF ADMISSION_POLICIES
<1>. USE DEF PrunedPolicies, ValidMultiReplica,
     ValidSingleReplica, SCHEDULERS,
     ADMISSION_POLICIES, PREEMPTION_POLICIES,
     PRIORITY_AWARE_SCHEDULERS, Mixed, KeptAs
<1>. SUFFICES ASSUME NEW p \in Policies(n)
              PROVE  /\ p \in PrunedPolicies(n) => ~Mixed(p)
                     /\ ~Mixed(p) => KeptAs(p) \in PrunedPolicies(n)
  OBVIOUS
<1>1. /\ p.scheduler \in SCHEDULERS
      /\ p.preemption \in PREEMPTION_POLICIES
  BY DEF Policies
<1>2. KeptAs(p) \in Policies(n)
  BY DEF Policies
<1>3. CASE n > 1
  <2>1. p.admission \in {"always-admit", "tier-shed"}
    BY <1>3 DEF Policies
  <2>2. p \in PrunedPolicies(n) => ~Mixed(p)
    BY <1>3
  <2>3. ~Mixed(p) => ValidMultiReplica(KeptAs(p))
    BY <1>0, <1>1, <2>1 DEF Policies
  <2> QED BY <1>2, <1>3, <2>2, <2>3
<1>4. CASE ~(n > 1)
  <2>1. p.admission = None
    BY <1>4 DEF Policies
  <2>2. ValidSingleReplica(KeptAs(p))
    BY <1>1 DEF Policies
  <2> QED BY <1>2, <1>4, <2>1, <2>2
<1> QED BY <1>3, <1>4

\* enumerate_pruned_blis_configs, for any budget: it leaves out the 512
\* sequences, the mixed policies and names for what it keeps, nothing else.
THEOREM BehavioursKept == PruneSpec => []PruningKeepsBehaviours
<1>1. PruningKeepsBehaviours
  <2>. DEFINE full == {c \in BlisConfigs(maxGpus) : c[2][1] # 512}
              kept == PrunedBlisConfigs(maxGpus)
              mixed == {c \in full : Mixed(c[3])}
  <2>0. \A t \in TopologiesNoPP(maxGpus) : t[2] \in Nat
    BY DEF TopologiesNoPP
  <2>1. kept \subseteq full \ mixed
    <3>. SUFFICES ASSUME NEW c \in kept PROVE c \in full /\ ~Mixed(c[3])
      OBVIOUS
    <3>1. PICK t \in TopologiesNoPP(maxGpus) :
            c \in {t} \X BatchingCombos({32, 64, 128, 256})
                  \X PrunedPolicies(t[2]) \X BLOCK_SIZES
      BY DEF PrunedBlisConfigs
    <3>2. c \in {t} \X BatchingCombos({32, 64, 128, 256, 512})
                \X Policies(t[2]) \X BLOCK_SIZES
          /\ c[2][1] # 512 /\ ~Mixed(c[3])
      BY <2>0, <3>1, BatchingKept, PoliciesKept
    <3> QED BY <3>2 DEF BlisConfigs
  <2>2. {Behaviour(c) : c \in full \ mixed} \subseteq kept
    <3>. SUFFICES ASSUME NEW c \in full, ~Mixed(c[3])
                  PROVE  Behaviour(c) \in kept
      OBVIOUS
    <3>1. PICK t \in TopologiesNoPP(maxGpus) :
            c \in {t} \X BatchingCombos({32, 64, 128, 256, 512})
                  \X Policies(t[2]) \X BLOCK_SIZES
      BY DEF BlisConfigs
    <3>2. Behaviour(c) = <<c[1], c[2], KeptAs(c[3]), c[4]>>
      BY <3>1 DEF Behaviour, KeptAs
    <3>3. Behaviour(c) \in
            {t} \X BatchingCombos({32, 64, 128, 256})
                \X PrunedPolicies(t[2]) \X BLOCK_SIZES
      BY <2>0, <3>1, <3>2, BatchingKept, PoliciesKept
    <3> QED BY <3>3 DEF PrunedBlisConfigs
  <2> QED BY <2>1, <2>2 DEF PruningKeepsBehaviours, Mixed
<1> QED BY <1>1, PTL

----------------------------------------------------------------------------
\* The configurations a hash stands for

\* Token limits and thresholds.
Limits == 0..8192

\* Sets of records that hold the two spaces.
Bases(n) ==
  [tp : TP_VALUES, pp : PP_VALUES, replicas : 0..(n + 1),
   max_num_seqs : {32, 64, 128, 256, 512}]

VidurBox(n) ==
  [base : Bases(n), scheduler : {"vllm", "sarathi", "orca"},
   tokens : Limits \cup {None},
   routing : {"round_robin", "lor", "random", None}]

ServingSimBox(n) ==
  [base : Bases(n), prefill : Limits \X Limits, block : {16, 32},
   prefix : BOOLEAN, routing : {"LOAD", "RR", "RAND", None}]

\* These sets are finite.
LEMMA LimitsFinite == IsFiniteSet(Limits)
<1>1. PICK k \in Nat : k = 8192
  OBVIOUS
<1>2. IsFiniteSet(0..k)
  BY FiniteRanges
<1> QED BY <1>1, <1>2 DEF Limits

\* So are the common parts,
LEMMA BasesFinite ==
  ASSUME NEW n \in Nat
  PROVE  IsFiniteSet(Bases(n))
<1>. DEFINE A == (0..8) \X (0..4)
            B == (0..(n + 1)) \X (0..512)
            f == [b \in Bases(n) |->
                    <<<<b.tp, b.pp>>, <<b.replicas, b.max_num_seqs>>>>]
<1>1. IsFiniteSet(0..8) /\ IsFiniteSet(0..4) /\ IsFiniteSet(0..512)
      /\ IsFiniteSet(0..(n + 1))
  <2>1. 8 \in Nat /\ 4 \in Nat /\ 512 \in Nat /\ n + 1 \in Nat
    OBVIOUS
  <2> QED BY <2>1, FiniteRanges, Zenon
<1>2. IsFiniteSet(A) /\ IsFiniteSet(B)
  BY <1>1, FinitePairs
<1>3. ASSUME NEW b \in Bases(n)
      PROVE  <<b.tp, b.pp>> \in A /\ <<b.replicas, b.max_num_seqs>> \in B
  BY DEF Bases, TP_VALUES, PP_VALUES
<1>4. ASSUME NEW b \in Bases(n), NEW d \in Bases(n), f[b] = f[d]
      PROVE  b = d
  <2>1. /\ b.tp = d.tp /\ b.pp = d.pp /\ b.replicas = d.replicas
        /\ b.max_num_seqs = d.max_num_seqs
    BY <1>4
  <2> QED BY <2>1 DEF Bases
<1>. HIDE DEF A, B
<1>5. f \in [Bases(n) -> A \X B]
  BY <1>3
<1>6. IsFiniteSet(A \X B)
  BY <1>2, FinitePairs
<1>. HIDE DEF f
<1> QED BY <1>4, <1>5, <1>6, FiniteByInjection

\* the configurations of Vidur,
LEMMA VidurFinite ==
  ASSUME NEW n \in Nat
  PROVE  IsFiniteSet(VidurBox(n))
<1>. DEFINE A == {"vllm", "sarathi", "orca"}
            B == Limits \cup {None}
            C == {"round_robin", "lor", "random", None}
            f == [c \in VidurBox(n) |->
                    <<<<c.base, c.scheduler>>, <<c.tokens, c.routing>>>>]
<1>1. IsFiniteSet(A) /\ IsFiniteSet(C)
  <2>1. IsFiniteSet({"vllm", "sarathi", "orca", "orca"}) /\ IsFiniteSet(C)
    BY FiniteSmall, Zenon
  <2>2. A = {"vllm", "sarathi", "orca", "orca"}
    OBVIOUS
  <2> QED BY <2>1, <2>2
<1>2. IsFiniteSet(B)
  BY LimitsFinite, FS_Singleton, FS_Union
<1>3. ASSUME NEW c \in VidurBox(n)
      PROVE  /\ c.base \in Bases(n) /\ c.scheduler \in A
             /\ c.tokens \in B /\ c.routing \in C
  BY DEF VidurBox
<1>4. ASSUME NEW c \in VidurBox(n), NEW d \in VidurBox(n), f[c] = f[d]
      PROVE  c = d
  <2>1. /\ c.base = d.base /\ c.scheduler = d.scheduler /\ c.tokens = d.tokens
        /\ c.routing = d.routing
    BY <1>4
  <2> QED BY <2>1 DEF VidurBox
<1>. HIDE DEF A, B, C
<1>5. f \in [VidurBox(n) -> (Bases(n) \X A) \X (B \X C)]
  BY <1>3
<1>6. IsFiniteSet((Bases(n) \X A) \X (B \X C))
  BY <1>1, <1>2, BasesFinite, FinitePairs
<1>. HIDE DEF f
<1> QED BY <1>4, <1>5, <1>6, FiniteByInjection

\* and those of LLMServingSim.
LEMMA ServingSimFinite ==
  ASSUME NEW n \in Nat
  PROVE  IsFiniteSet(ServingSimBox(n))
<1>. DEFINE A == Limits \X Limits
            B == {16, 32} \X BOOLEAN
            C == {"LOAD", "RR", "RAND", None}
            f == [c \in ServingSimBox(n) |->
                    <<<<c.base, c.prefill>>,
                      <<<<c.block, c.prefix>>, c.routing>>>>]
<1>1. IsFiniteSet(A)
  BY LimitsFinite, FinitePairs
<1>2. IsFiniteSet(B)
  <2>1. /\ IsFiniteSet({16, 32, 32, 32})
        /\ IsFiniteSet({TRUE, FALSE, FALSE, FALSE})
    BY FiniteSmall, Zenon
  <2>2. {16, 32} = {16, 32, 32, 32} /\ BOOLEAN = {TRUE, FALSE, FALSE, FALSE}
    OBVIOUS
  <2> QED BY <2>1, <2>2, FinitePairs
<1>3. IsFiniteSet(C)
  BY FiniteSmall, Zenon
<1>4. ASSUME NEW c \in ServingSimBox(n)
      PROVE  /\ c.base \in Bases(n) /\ c.prefill \in A
             /\ <<c.block, c.prefix>> \in B /\ c.routing \in C
  BY DEF ServingSimBox
<1>5. ASSUME NEW c \in ServingSimBox(n), NEW d \in ServingSimBox(n), f[c] = f[d]
      PROVE  c = d
  <2>1. /\ c.base = d.base /\ c.prefill = d.prefill /\ c.block = d.block
        /\ c.prefix = d.prefix /\ c.routing = d.routing
    BY <1>5
  <2> QED BY <2>1 DEF ServingSimBox
<1>. HIDE DEF A, B, C
<1>6. f \in [ServingSimBox(n) -> (Bases(n) \X A) \X (B \X C)]
  BY <1>4
<1>7. IsFiniteSet((Bases(n) \X A) \X (B \X C))
  BY <1>1, <1>2, <1>3, BasesFinite, FinitePairs
<1>. HIDE DEF f
<1> QED BY <1>5, <1>6, <1>7, FiniteByInjection

\* The enumerated common parts are among them,
LEMMA BaseIn ==
  ASSUME NEW n \in Nat, NEW pairs \in SUBSET Pairs(n),
         NEW lean \in BOOLEAN,
         NEW b \in Base(n, pairs, Batches(lean))
  PROVE  b \in Bases(n)
<1>1. PICK p \in pairs :
        \E r \in Replicas(n, p), m \in Batches(lean) :
              b = [tp |-> p[1], pp |-> p[2], replicas |-> r, max_num_seqs |-> m]
  BY DEF Base
<1>2. p[1] \in TP_VALUES /\ p[2] \in PP_VALUES
  BY DEF Pairs
<1>3. PICK k \in Nat \ {0} : k = p[1] * p[2]
  BY <1>2 DEF TP_VALUES, PP_VALUES
<1>4. Replicas(n, p) \subseteq 0..(n + 1)
  <2>1. n \div k \in 0..(n + 1)
    BY <1>3
  <2> QED BY <1>3, <2>1 DEF Replicas
<1>5. Batches(lean) \subseteq {32, 64, 128, 256, 512}
  BY DEF Batches
<1> QED BY <1>1, <1>2, <1>4, <1>5 DEF Bases

\* as are Vidur's configurations, of which orca alone has no token limit,
LEMMA VidurIn ==
  ASSUME NEW n \in Nat, NEW lean \in BOOLEAN,
         NEW c \in VidurConfigs(n, lean)
  PROVE  /\ c \in VidurBox(n)
         /\ c.scheduler = "orca" => c.tokens = None
         /\ c.scheduler # "orca" => c.tokens \in Nat
<1>1. PICK s \in VidurSchedulers(lean),
           b \in Base(n, ServedPairs(n, lean),
                              Batches(lean)) :
             c \in [base : {b}, scheduler : {s},
                    tokens : Variants(s, lean),
                    routing : Routed(b.replicas,
                                             VidurRoutings(lean))]
  BY DEF VidurConfigs
<1>2. b \in Bases(n)
  BY BaseIn DEF ServedPairs
<1>3. s \in {"vllm", "sarathi", "orca"}
  BY DEF VidurSchedulers
<1>4. Variants(s, lean) \subseteq IF s = "orca" THEN {None} ELSE Limits
  BY <1>3 DEF Variants, Limits
<1>5. Routed(b.replicas, VidurRoutings(lean))
        \subseteq {"round_robin", "lor", "random", None}
  BY DEF Routed, VidurRoutings
<1>6. /\ s = "orca" => c.tokens = None
      /\ s # "orca" => c.tokens \in Limits
  BY <1>1, <1>4
<1>7. c.base = b /\ c.scheduler = s
  BY <1>1
<1>8. c = [base |-> c.base, scheduler |-> c.scheduler, tokens |-> c.tokens,
           routing |-> c.routing]
  BY <1>1
<1>9. c.routing \in {"round_robin", "lor", "random", None}
  BY <1>1, <1>5
<1>10. c.tokens \in Limits \cup {None}
  BY <1>6
<1>11. c \in VidurBox(n)
  BY <1>2, <1>3, <1>7, <1>8, <1>9, <1>10 DEF VidurBox
<1>12. Limits \subseteq Nat
  BY DEF Limits
<1>. HIDE DEF Limits
<1> QED BY <1>6, <1>7, <1>11, <1>12, Zenon

\* and those of LLMServingSim, whose lean space has one prefill setting.
LEMMA ServingSimIn ==
  ASSUME NEW n \in Nat, NEW lean \in BOOLEAN,
         NEW c \in ServingSimConfigs(n, lean)
  PROVE  /\ c \in ServingSimBox(n)
         /\ lean => c.prefill = <<4096, 0>>
<1>1. PICK b \in Base(n, SimPairs(n, lean),
                              Batches(lean)) :
             c \in [base : {b}, prefill : Prefills(lean),
                    block : SimBlocks(lean),
                    prefix : SimPrefix(lean),
                    routing : Routed(b.replicas,
                                             SimRoutings(lean))]
  BY DEF ServingSimConfigs
<1>2. b \in Bases(n)
  BY BaseIn DEF SimPairs, ServedPairs
<1>3. Prefills(lean) \subseteq Limits \X Limits
  BY DEF Prefills, Limits
<1>4. lean => Prefills(lean) = {<<4096, 0>>}
  BY DEF Prefills
<1>5. Routed(b.replicas, SimRoutings(lean))
        \subseteq {"LOAD", "RR", "RAND", None}
  BY DEF Routed, SimRoutings
<1>6. /\ SimBlocks(lean) \subseteq {16, 32}
      /\ SimPrefix(lean) \subseteq BOOLEAN
  BY DEF SimBlocks, SimPrefix
<1> QED BY <1>1, <1>2, <1>3, <1>4, <1>5, <1>6 DEF ServingSimBox

\* The default 4096 for a missing token limit collides with nothing: the
\* scheduler is hashed too.
LEMMA VidurApart ==
  ASSUME NEW n \in Nat, NEW lean \in BOOLEAN
  PROVE  Cardinality({VidurKey(c) :
                        c \in VidurConfigs(n, lean)})
           = Cardinality(VidurConfigs(n, lean))
<1>. DEFINE V == VidurConfigs(n, lean)
            f == [c \in V |-> VidurKey(c)]
<1>1. IsFiniteSet(V)
  BY VidurIn, VidurFinite, FS_Subset
<1>2. ASSUME NEW c \in V, NEW d \in V, f[c] = f[d]
      PROVE  c = d
  <2>1. /\ c.base = d.base /\ c.routing = d.routing /\ c.scheduler = d.scheduler
        /\ (IF c.tokens = None THEN 4096 ELSE c.tokens)
             = (IF d.tokens = None THEN 4096 ELSE d.tokens)
    BY <1>2 DEF VidurKey
  <2>2. c.tokens = d.tokens
    <3>1. CASE c.scheduler = "orca"
      <4>1. c.tokens = None
        BY <3>1, VidurIn
      <4>2. d.scheduler = "orca"
        BY <2>1, <3>1
      <4>3. d.tokens = None
        BY <4>2, VidurIn
      <4> QED BY <4>1, <4>3
    <3>2. CASE c.scheduler # "orca"
      <4>1. c.tokens \in Nat /\ d.tokens \in Nat
        BY <2>1, <3>2, VidurIn
      <4> QED BY <2>1, <4>1, NoneIsNoValue
    <3> QED BY <3>1, <3>2
  <2>3. c \in VidurBox(n) /\ d \in VidurBox(n)
    BY VidurIn
  <2> QED BY <2>1, <2>2, <2>3 DEF VidurBox
<1>3. /\ f = [c \in V |-> f[c]]
      /\ {f[c] : c \in V} = {VidurKey(c) : c \in V}
  OBVIOUS
<1>. HIDE DEF f, V
<1>4. Cardinality({f[c] : c \in V}) = Cardinality(V)
  BY <1>1, <1>2, <1>3, SameCount
<1> QED BY <1>3, <1>4 DEF V

\* What compute_config_hash sees of a positive threshold.
Merged(c) == [c EXCEPT !.prefill = <<@[1], IF @[2] > 0 THEN 1 ELSE 0>>]

\* Only the size of a positive threshold is lost, and none is positive in the
\* lean space.
LEMMA ServingSimApart ==
  ASSUME NEW n \in Nat, NEW lean \in BOOLEAN
  PROVE  LET sim == ServingSimConfigs(n, lean)
         IN  /\ Cardinality({ServingSimKey(c) : c \in sim})
                  = Cardinality({Merged(c) : c \in sim})
             /\ lean => Cardinality({ServingSimKey(c) : c \in sim})
                          = Cardinality(sim)
<1>. DEFINE V == ServingSimConfigs(n, lean)
            M == {Merged(c) : c \in V}
            f == [m \in M |-> ServingSimKey(m)]
            g == [c \in V |-> Merged(c)]
<1>1. IsFiniteSet(V)
  BY ServingSimIn, ServingSimFinite, FS_Subset
<1>2. IsFiniteSet(M)
  <2>1. g \in Surjection(V, M)
    BY DEF Surjection
  <2>. HIDE DEF g, V, M
  <2> QED BY <1>1, <2>1, FS_Surjection
<1>3. ASSUME NEW c \in V
      PROVE  /\ Merged(c) \in ServingSimBox(n)
             /\ Merged(c).prefill[2] \in {0, 1}
             /\ Merged(c).prefill =
                  <<Merged(c).prefill[1], Merged(c).prefill[2]>>
             /\ ServingSimKey(Merged(c)) = ServingSimKey(c)
             /\ lean => Merged(c) = c
  <2>1. c \in ServingSimBox(n) /\ (lean => c.prefill = <<4096, 0>>)
    BY ServingSimIn
  <2>2. PICK x \in Limits, y \in Limits : c.prefill = <<x, y>>
    BY <2>1 DEF ServingSimBox
  <2>3. PICK z \in {0, 1} : z = (IF y > 0 THEN 1 ELSE 0)
    OBVIOUS
  <2>4. Merged(c) = [c EXCEPT !.prefill = <<x, z>>]
    BY <2>2, <2>3 DEF Merged
  <2>5. x \in Nat /\ y \in Nat /\ (y > 0 <=> z > 0) /\ z \in Limits
    BY <2>3 DEF Limits
  <2>6. Merged(c) \in ServingSimBox(n) /\ Merged(c).prefill = <<x, z>>
    BY <2>1, <2>4, <2>5 DEF ServingSimBox
  <2>7. ServingSimKey(Merged(c)) = ServingSimKey(c)
    BY <2>1, <2>2, <2>4, <2>5, <2>6 DEF ServingSimKey, ServingSimBox
  <2>8. lean => Merged(c) = c
    BY <2>1, <2>2, <2>3, <2>4 DEF ServingSimBox
  <2> QED BY <2>6, <2>7, <2>8
<1>4. ASSUME NEW c \in M, NEW d \in M, f[c] = f[d]
      PROVE  c = d
  <2>1. /\ c.base = d.base /\ c.routing = d.routing /\ c.block = d.block
        /\ c.prefix = d.prefix /\ c.prefill[1] = d.prefill[1]
        /\ (c.prefill[2] > 0) = (d.prefill[2] > 0)
    BY <1>4 DEF ServingSimKey
  <2>2. c \in ServingSimBox(n) /\ d \in ServingSimBox(n)
        /\ c.prefill = <<c.prefill[1], c.prefill[2]>>
        /\ d.prefill = <<d.prefill[1], d.prefill[2]>>
        /\ c.prefill[2] \in {0, 1} /\ d.prefill[2] \in {0, 1}
    BY <1>3
  <2>3. c.prefill[2] = d.prefill[2]
    BY <2>1, <2>2
  <2> QED BY <2>1, <2>2, <2>3 DEF ServingSimBox
<1>5. {f[m] : m \in M} = {ServingSimKey(c) : c \in V}
  BY <1>3
<1>6. f = [m \in M |-> f[m]]
  OBVIOUS
<1>7. lean => M = V
  BY <1>3
<1>. HIDE DEF f, M
<1>8. Cardinality({f[m] : m \in M}) = Cardinality(M)
  BY <1>2, <1>4, <1>6, SameCount
<1> QED BY <1>5, <1>7, <1>8 DEF M

\* compute_config_hash, for any budget and both sizes of the spaces: a
\* configuration is skipped as completed only for itself, or for one of
\* LLMServingSim with another positive prefill threshold.
THEOREM HashesApart == PruneSpec => []HashesTellApart
<1>1. ASSUME PruneInv
      PROVE  HashesTellApart
  <2>1. maxGpus \in Nat
    BY <1>1, PruningAssumption, ExperimentAssumption DEF PruneInv, PruneType
  <2>2. ASSUME NEW lean \in BOOLEAN
        PROVE
    LET vidur == VidurConfigs(maxGpus, lean)
        sim   == ServingSimConfigs(maxGpus, lean)
    IN  /\ Cardinality({VidurKey(c) : c \in vidur})
             = Cardinality(vidur)
        /\ Cardinality({ServingSimKey(c) : c \in sim})
             = Cardinality({Merged(c) : c \in sim})
        /\ lean => Cardinality({ServingSimKey(c) : c \in sim})
                     = Cardinality(sim)
    BY <2>1, VidurApart, ServingSimApart, SameCardinality
  <2> QED BY <2>2, Zenon DEF HashesTellApart, Merged
<1> QED BY <1>1, PruneInvariant, PTL
=============================================================================
