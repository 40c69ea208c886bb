----------------------------- MODULE MCEPExperts -----------------------------
(* Two ranks of two experts, three slots a token and up to two tokens: rows  *)
(* with one and with two owned slots in every order, and rows of padding.    *)
(* The hidden size is above and below the width of the up projection.        *)
EXTENDS EPExperts

MCDims == {<< 2, 3, 1 >>, << 2, 1, 1 >>}

=============================================================================
