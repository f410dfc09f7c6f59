------------------------------- MODULE MCRunner -------------------------------
(* Runner for TLC: the inputs of hacl's chacha20.                               *)
EXTENDS Runner

HaclOrder    == <<"key", "message", "nonce">>
HaclSecret   == {"key"}
HaclInSize   == [i \in {"key", "message", "nonce"} |-> 1]
HaclSegments == <<"key">>
HaclSize     == [s \in 0..0 |-> 1]
HaclStart    == [s \in 0..1 |-> s]
HaclPreset   == [i \in {"message", "nonce"} |-> <<0>>]
HaclSeed     == [i \in {"key"} |-> <<1>>]
HaclDeclared == {[secrets |-> <<"key", "message", "output">>, publics |-> <<"nonce">>]}
=============================================================================
