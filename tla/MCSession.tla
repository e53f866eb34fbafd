------------------------------ MODULE MCSession ------------------------------
(* The boot of initEngine: the call that loads the WASM module, the seed   *)
(* of the zone cache, and one for the look-ups of the catalogue.           *)
EXTENDS Session

Calls == <<"init", "seed", "catalogue">>
PageCallers == {SolveOf(g) : g \in Gens} \cup {CheckOf(g) : g \in Gens} \cup {ThePass, Other}
=============================================================================
