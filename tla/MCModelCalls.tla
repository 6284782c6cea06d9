----------------------------- MODULE MCModelCalls -----------------------------
(* A finite instance of ModelCalls for TLC: one route of each of two       *)
(* providers.                                                              *)
EXTENDS ModelCalls

MCProviderOf == [r \in Routes |-> IF r = "cloud_b" THEN "cloud" ELSE "local"]
MCEstimate   == [r \in Routes |-> IF r = "local_a" THEN 1 ELSE 3]
MCListings   == {<<"local_a", "cloud_b">>}

MCSymmetry   == Permutations(Procs)
==============================================================================
