----------------------------- MODULE MCSessions -----------------------------
(* Three connections, one after the other, of one descriptor: the first    *)
(* one leaves, the second is rejected and sends its Logon twice, the third *)
(* is innocent and sends nothing.                                          *)
EXTENDS Sessions

MCScript ==
    [k \in Conns |-> CASE k = 1 -> <<"order", "order">>
                       [] k = 2 -> <<"logon", "logon">>
                       [] OTHER -> <<>>]
=============================================================================
