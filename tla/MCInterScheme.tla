---------------------------- MODULE MCInterScheme ----------------------------
(***************************************************************************)
(* Instances of InterScheme for TLC: the parties in the scheme, behind one *)
(* of two proxies, or unknown, with the proxies' accounts varied and those *)
(* of the payer.                                                           *)
(***************************************************************************)
EXTENDS InterScheme

Places ==
  {w \in [Fsp -> Place] :
     /\ w["payer"] \in {"scheme", "R1"}
     /\ w["payee"] # "R1" \/ w["payer"] # "R1"
     /\ w["sendingFxp"] # "unknown"
     /\ w["receivingFxp"] = "scheme"}

OwnAccounts == {<<"payee", "middle">>, <<"payee", "target">>, <<"sendingFxp", "source">>,
                <<"sendingFxp", "middle">>, <<"receivingFxp", "middle">>, <<"receivingFxp", "target">>}

ManyDeployments ==
  {[where |-> w, accounts |-> OwnAccounts \union payer \union proxies] :
     w \in Places,
     payer \in {{<<"payer", "source">>}, {<<"payer", "source">>, <<"payer", "middle">>}},
     proxies \in SUBSET ({"R1", "R2"} \X {"source", "middle"})}
==============================================================================
