----------------------------- MODULE MCVerifier -----------------------------
(* Keys of two bytes. *)
EXTENDS Verifier, TLC
CONSTANTS w1, w2, np

TwoBytes == w1 :> <<170, 1>> @@ w2 :> <<0, 255>> @@ np :> <<128, 77>>
=============================================================================
