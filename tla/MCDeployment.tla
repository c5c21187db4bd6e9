---------------------------- MODULE MCDeployment ----------------------------
(* One, two and three organizations. *)
EXTENDS Deployment

MCChain == [single |-> <<"acme">>, losswindow |-> <<"mfg", "retail">>,
            supplychain |-> <<"manufacturer", "distributor", "retailer">>]
=============================================================================
