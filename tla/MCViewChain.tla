----------------------------- MODULE MCViewChain -----------------------------
(* Three sources are enough for a derived view over two views, for one over *)
(* a view and over another derived view of it, and for a chain of two.      *)
EXTENDS ViewChain

\* Never 0, so that a value that was not computed shows, and not symmetric.
OneMoreThanSum(vals) ==
  LET sum[i \in 0..Len(vals)] == IF i = 0 THEN 1 ELSE sum[i - 1] + i * vals[i]
  IN  sum[Len(vals)]

\* scale10 of test_chain.cpp:19.
Scale10(vals) == vals[1] * 10
=============================================================================
