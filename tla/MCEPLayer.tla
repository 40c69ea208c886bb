------------------------------- MODULE MCEPLayer -------------------------------
(* Two ranks and two layers, with and without dual-batch overlap.            *)
EXTENDS EPLayer

Setup(d, a, w, r, al, t, dry) ==
    [dbo |-> d, async |-> a, static |-> w, rocm |-> r, alias |-> al, timer |-> t, dry |-> dry]
MCSetups ==
    {Setup(TRUE, TRUE, TRUE, FALSE, TRUE, "off", {}),
     Setup(TRUE, TRUE, FALSE, FALSE, FALSE, "off", {}),
     Setup(TRUE, TRUE, FALSE, TRUE, FALSE, "barrier", {1})}
        \cup {Setup(FALSE, TRUE, FALSE, FALSE, al, t, Ranks) :
                al \in BOOLEAN, t \in {"on", "sync", "barrier"}}
        \cup {Setup(FALSE, TRUE, TRUE, FALSE, al, "on", {}) : al \in BOOLEAN}
        \cup {Setup(FALSE, FALSE, FALSE, FALSE, TRUE, "on", {})}

=============================================================================
