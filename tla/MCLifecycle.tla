----------------------------- MODULE MCLifecycle ----------------------------
(* Two edits; the second removes an account, or changes one that stays.     *)
EXTENDS Lifecycle, TLC

MCConfigured == 0 :> <<"a", "b">> @@ 1 :> <<"b", "a">> @@ 2 :> <<"a">>
MCConfiguredOne == 0 :> <<"a">> @@ 1 :> <<"a">>
=============================================================================
