--------------------------- MODULE MCTradeJournal ---------------------------
(* TradeJournal on small sets, for TLC. *)
EXTENDS TradeJournalProofs, TLC

\* Requests are told apart only by what they do: sound for the safety runs.
Symmetry == Permutations(Requests)
=============================================================================
