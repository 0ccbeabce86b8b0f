----------------------------- MODULE MCPayloads -----------------------------
(* An instance of Payloads: bodies of 0 to 6 bytes, a number and its prefix *)
(* among them, and the chains with at most one codec of each marker.        *)
EXTENDS Payloads, TLC

MCSymmetry == Permutations(Threads)

MCValues ==
    {[kind |-> "null", data |-> << >>],
     [kind |-> "binary", data |-> <<255, 0, 128, 7, 254, 33>>],
     [kind |-> "binary", data |-> <<200, 3, 77, 91>>],
     [kind |-> "json", data |-> <<49>>],
     [kind |-> "json", data |-> <<49, 50>>],
     [kind |-> "proto", data |-> <<8, 150, 1>>]}

MCChains ==
    {<< >>, <<"base64">>, <<"gzip">>, <<"custom", "gzip">>, <<"base64", "custom">>}
=============================================================================
