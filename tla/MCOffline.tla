------------------------------- MODULE MCOffline -------------------------------
(* Offline for TLC: the programs of MCExamples; a runner config with two secrets *)
(* around a public, buffers of one and two bytes, and a program that reads both  *)
(* secrets as one stream.                                                        *)
EXTENDS Offline, MCExamples

MCOrder    == <<"data", "nonce", "key">>
MCSecret   == {"data", "key"}
MCInSize   == [i \in {"data", "nonce", "key"} |-> IF i = "key" THEN 2 ELSE 1]
MCSegments == <<"key", "data">>
MCSize     == [s \in 0..1 |-> 2 - s]
MCStart    == [s \in 0..2 |-> IF s = 0 THEN 0 ELSE s + 1]
MCPreset   == [i \in {"nonce"} |-> <<1>>]
MCSeed     == [i \in {"data", "key"} |-> IF i = "key" THEN <<0, 1>> ELSE <<1>>]
MCDeclared ==
  {[secrets |-> <<"data", "key">>, publics |-> <<"nonce">>],
   [secrets |-> <<"key", "data">>, publics |-> <<"nonce">>],
   [secrets |-> <<"data">>, publics |-> <<"nonce">>],
   [secrets |-> <<"data">>, publics |-> <<"key", "nonce">>],
   [secrets |-> <<"data", "key", "nonce">>, publics |-> << >>],
   [secrets |-> <<"data", "key", "out">>, publics |-> <<"nonce">>]}
=============================================================================
