------------------------------- MODULE MCFlows ------------------------------
(***************************************************************************)
(* Flows for TLC: three public probers, three private hosts that send, and *)
(* an exposed service on each. Two keys, two sources and two ports fit.    *)
(***************************************************************************)
EXTENDS Flows

Reject(s, p, t) == [src |-> s, dst |-> "h1", port |-> p, action |-> "REJECT",
                    opens |-> TRUE, start |-> t, bytes |-> 1]
Accept(s, d, p, t, n) == [src |-> s, dst |-> d, port |-> p, action |-> "ACCEPT",
                          opens |-> TRUE, start |-> t, bytes |-> n]

MCPublic == {"p1", "p2", "p3"}
MCPrivate == {"h1", "h2", "h3"}
MCFlow == {Reject("p1", 22, 1), Reject("p1", 80, 2), Reject("p1", 443, 2),
           Reject("p2", 22, 3), Reject("p3", 22, 4),
           Accept("p1", "h1", 22, 2, 1), Accept("p2", "h1", 22, 5, 1),
           Accept("p1", "h2", 22, 3, 1), Accept("p1", "h3", 22, 4, 1),
           Accept("h1", "p1", 80, 1, 2), Accept("h2", "p1", 80, 2, 1),
           Accept("h2", "p2", 80, 6, 1), Accept("h3", "p1", 80, 3, 3)}
=============================================================================
