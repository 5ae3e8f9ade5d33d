--------------------------- MODULE MCEchoInbound ---------------------------
\* The inbound listener for TLC: two deliveries about one task, of one
\* provider or of two; two webhooks are sent, one of them again.
EXTENDS EchoInbound

CONSTANTS t1, d1, d2
Pair(a, b) == (d1 :> a) @@ (d2 :> b)
About(f, k) == [from |-> f, kind |-> k, task |-> t1]
MCTraffic ==
    (Pair(About("github", "merged"), About("github", "closed")) :> 3)
    @@ (Pair(About("gitlab", "closed"), About("slack", "status")) :> 2)
    @@ (Pair(About("bitbucket", "merged"), About("button", "cancel")) :> 2)
    @@ (Pair(About("discord", "retry"), About("discord", "cancel")) :> 2)
=============================================================================
