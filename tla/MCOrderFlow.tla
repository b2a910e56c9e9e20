---------------------------- MODULE MCOrderFlow -----------------------------
(* Constants of the runs order_flow and order_live: a broker with two      *)
(* connections and, in order_live, a user nobody registered.               *)
EXTENDS OrderFlow

CONSTANTS b1, b2, x1

MCUser == [s \in Sessions |-> IF s = x1 THEN "stranger" ELSE "broker"]

Form(v, s, kind, broker, tag, n) ==
    [view |-> v, session |-> s, kind |-> kind, broker |-> broker, tag |-> tag, cancels |-> n]

MCScripts ==
    {<<Form(b1, b1, "retail", "broker", 1, 0), Form(b2, b2, "retail", "broker", 2, 0)>>,
     <<Form(b1, b1, "retail", "broker", 1, 0), Form(b2, b2, "direct", "", 2, 1)>>,
     <<Form(b1, b1, "retail", "nobody", 1, 0), Form(b2, b2, "algo", "", 2, 0)>>,
     <<Form(b2, b1, "retail", "broker", 1, 1), Form(b1, b1, "direct", "", 1, 0)>>,
     <<Form(b2, b2, "direct", "", 1, 1), Form(b2, b2, "direct", "", 1, 0)>>,
     <<Form(b2, b2, "direct", "", 1, 0), Form(b2, b2, "unlisted", "", 2, 1)>>}

MCLiveScripts ==
    {<<Form(b2, b2, "retail", "broker", 1, 0)>>,
     <<Form(b2, b2, "unlisted", "", 1, 0)>>,
     <<Form(b1, b1, "direct", "", 1, 0)>>}
=============================================================================
