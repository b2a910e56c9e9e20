---------------------------- MODULE MCDepthLists -----------------------------
(* DepthLists on a book of six ticks whose bitmap has words of three bits:  *)
(* levels share words and straddle them, and prices outside the book occur. *)
EXTENDS DepthLists

MCLow == 1
MCHigh == 6
MCWordBits == 3
MCWrap == 16
MCPrices == 0 .. 7
=============================================================================
