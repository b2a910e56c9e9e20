-------------------------- MODULE MCMatchingEngine ---------------------------
(* MatchingEngine on a book of four ticks with two words of two bits.  The  *)
(* prices are two levels of it, one below it and the largest uint64_t.      *)
EXTENDS MatchingEngine

MCLow == 1
MCHigh == 4
MCWordBits == 2
MCWrap == 16
MCPrices == {0, 1, 2, 15}
MCNarrow == 8
MCShares == {1, 2}
=============================================================================
