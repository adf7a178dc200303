----------------------------- MODULE MCQueryDAAT -----------------------------
(* QueryDAAT with scores that are sums over the lists, and that are often   *)
(* the same for two documents.                                              *)
EXTENDS QueryDAAT, FiniteSetsExt

MCScore(T, d) == MapThenSumSet(LAMBDA t : 1 + ((2 * t + d) % 3), T)

=============================================================================
