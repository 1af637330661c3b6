---------------------------- MODULE MCProcessor ----------------------------
(***************************************************************************)
(* Model values and symmetry for checking module Processor with TLC.       *)
(***************************************************************************)
EXTENDS Processor, TLC

\* Connections and configured tickers are interchangeable (safety only).
Symmetry == Permutations(Conn) \cup Permutations(Ticker)
=============================================================================
