---------------------------- MODULE MCAutoDecision ----------------------------
(* Two runs over two symbols: with a budget for none, one or both of them, *)
(* with force, and dry.                                                    *)
EXTENDS AutoDecision

Request(n, f, d) == [budget |-> n, force |-> f, dry |-> d]
MCRequests == {Request(n, FALSE, FALSE) : n \in {0, 1, 2}}
                 \union {Request(1, TRUE, FALSE), Request(2, FALSE, TRUE)}
=============================================================================
