---------------------------- MODULE MCGraphServices ----------------------------
(* A small instance of GraphServices.  The seed data are a foundry and a   *)
(* chip designer that depends on it and requires a commodity; a car maker  *)
(* is known to EDGAR only, and "UNKNOWN" stands for whoever is not traded. *)
EXTENDS GraphServices

CONSTANTS j1, j2, j3

TwoJobs == {j1, j2}
ThreeJobs == {j1, j2, j3}
Symmetric == Permutations(Jobs)

Listed == {"FAB", "CHIP", "CAR"}
AllTickers == Listed \cup {"UNKNOWN"}
CuratedNames == [t \in Tickers |-> "official"]
AllNames == {"official", "in filing", "First Private", "Second Private"}

Item(t, n, k) == [ticker |-> t, name |-> n, type |-> k]
Supplier(t) == Item(t, "in filing", "supplier")
Customer(t) == Item(t, "in filing", "customer")

(* What the model may find: a company that is both a supplier and a        *)
(* customer (which makes a cycle), a supplier, or the filer itself.        *)
ModelExtractions ==
  [t \in {"CHIP", "CAR"} |->
     IF t = "CHIP"
     THEN {<<Supplier("FAB"), Customer("FAB")>>}
     ELSE {<<Supplier("CAR")>>, <<Supplier("CHIP")>>}]

(* Two filings that each name a private company, and not the same one.     *)
PrivateExtractions ==
  [t \in {"CHIP", "FAB"} |->
     IF t = "CHIP" THEN {<<Item("UNKNOWN", "First Private", "customer")>>}
     ELSE {<<Item("UNKNOWN", "Second Private", "supplier")>>}]

Companies == <<"FAB", "CHIP">>
CommodityData == <<"GAS">>
DependsData == <<<<"CHIP", "FAB">>>>
RequiresData == <<<<"FAB", "GAS">>, <<"CHIP", "GAS">>>>
EventData == <<[id |-> "STRAIT", severity |-> 10, targets |-> <<"FAB">>]>>
ExpectedTraces == {[target |-> "FAB", hops |-> 1, companies |-> {"CHIP"}],
                   [target |-> "GAS", hops |-> 1, companies |-> {"FAB", "CHIP"}]}

(* Two articles; rules 2 and 7 match "tsunami" and "war" in the second,    *)
(* beyond the cap together.                                                *)
Article(id, hits, names) == [id |-> id, hits |-> hits, names |-> names]
ArticleBatches ==
  {<<Article("EVT2", {4}, {}), Article("EVT1", {2, 7}, {"FAB"})>>}
ParserCompanies == <<"FAB", "CHIP">>
ParserCommodities == <<"GAS">>
=============================================================================
