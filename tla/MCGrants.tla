------------------------------ MODULE MCGrants ------------------------------
(* supplychain's accounts: each organisation exports to the next, and the    *)
(* manufacturer's subject is granted once more to the retailer.             *)
EXTENDS Grants

Chain ==
    {[exporter |-> "manufacturer", importer |-> "distributor", subject |-> "lot"],
     [exporter |-> "distributor", importer |-> "retailer", subject |-> "dist"],
     [exporter |-> "manufacturer", importer |-> "retailer", subject |-> "lot"]}
=============================================================================
