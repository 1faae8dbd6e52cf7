------------------------- MODULE MCEstimateSweeps -------------------------
(***************************************************************************)
(* A small instance of EstimateSweeps: rows that all differ in speed, some *)
(* too slow for the SLO, and answers with and without each section.        *)
(***************************************************************************)
EXTENDS EstimateSweeps

MCRows == {<<1, 1, 8>>, <<1, 1, 16>>, <<1, 2, 8>>, <<2, 1, 8>>, <<2, 2, 8>>,
           <<4, 1, 8>>}
MCRate == [r \in MCRows |-> 100 * r[1] + 10 * r[2] + r[3]]
MCRequests == [r \in MCRows |-> 10 * r[1] + r[2] + r[3]]
MCTTFT == [r \in MCRows |-> 400 \div r[1]]

Silent == [tp |-> None, pp |-> None, best |-> None, requests |-> None,
           constrained |-> None, ttft |-> None, concurrency |-> None,
           optimal |-> None]
Unconstrained == [Silent EXCEPT !.best = 900, !.requests = 90, !.optimal = 24]
Constrained == [Silent EXCEPT !.tp = 2, !.constrained = 700, !.ttft = 250,
                              !.concurrency = 16]
Full == [Constrained EXCEPT !.pp = 1, !.best = 900, !.requests = 90,
                            !.optimal = 24]

MCAnswers == {Silent, Unconstrained, Constrained, Full}
=============================================================================
