------------------------------- MODULE MCTables --------------------------------
(***************************************************************************)
(* What is derived from messages and what clients are given of it: one     *)
(* aggregate (MCAggregate), the posts of an owner with a delegate, one     *)
(* client of one list, and one client that asks for prices.  They share no *)
(* state here: a behaviour is one of the four.                             *)
(***************************************************************************)
EXTENDS MCAggregate, Posts, Listing, Pricing

VARIABLE part

Auth(who, types, posttypes, keys) ==
    [address |-> who, chain |-> {}, channels |-> {}, types |-> types,
     post_types |-> posttypes, aggregate_keys |-> keys]

\* "edit" is by a delegate, "hijack" amends what its owner does not own; "coup" is
\* the delegate's update of the list itself, "synced" is a stranger's, which chain
\* sync delivers, and leaves the delegate other posts.
MCAttr == [m \in Item |->
    [sender |-> CASE m \in {"original", "grant", "forget"} -> "alice"
                  [] m \in {"edit", "coup"} -> "bob"
                  [] m \in {"hijack", "synced"} -> "carol",
     address |-> IF m = "hijack" THEN "carol" ELSE "alice",
     chain |-> "ETH", channel |-> "main",
     type |-> CASE m \in Grant -> "AGGREGATE" [] m \in Removal -> "FORGET" [] OTHER -> "POST",
     post_type |-> CASE m \in Amend -> "amend" [] m = "original" -> "blog"
                     [] OTHER -> NoLabel,
     key |-> IF m \in Grant THEN "security" ELSE NoLabel]]

MCRef == [a \in Amend |-> "original"]
MCTarget == [f \in Removal |-> "original"]
MCStamp == [m \in Post \cup Amend \cup Grant |->
               CASE m = "coup" -> 2 [] m = "synced" -> 3 [] OTHER -> 1]
MCAuthorizations == [g \in Grant |->
    CASE g = "grant"  -> {Auth("bob", {}, {"blog"}, {"settings"})}
      [] g = "coup"   -> {Auth("carol", {}, {}, {})}
      [] g = "synced" -> {Auth("bob", {}, {"news"}, {"settings"})}]

Vms == {v \in [type: {"PROGRAM", "INSTANCE"}, memory: {5, 15, 18}, vcpus: {1, 3},
                volumes: {0, 3}, confidential: BOOLEAN, internet: BOOLEAN, size: {0}] :
           /\ ~ (v.confidential /\ v.internet)
           /\ (v.memory = 5) = (v.vcpus = 3) /\ v.memory = 18 => v.volumes = 0}
Blobs == [type: {"STORE"}, memory: {0}, vcpus: {0}, volumes: {0},
          confidential: {FALSE}, internet: {FALSE}, size: {0, 9}]
MCQuoted == Vms \cup Blobs

MCProduct == {"Storage", "Program", "Instance", "InstanceConfidential",
              "InstanceGpuPremium", "InstanceGpuStandard"}
Amount(h, c) == [holding |-> h, payg |-> 0, credit |-> c]
MCDefaultPrices == [p \in MCProduct |->
    [storage |-> Amount(1, 2),
     compute_unit |-> CASE p = "Storage" -> NoCompute
                        [] p \in {"Program", "Instance"} -> Amount(3, 4)
                        [] OTHER -> Amount(6, 8)]]
Step(min, discount) == [min_compute_units |-> min, discount |-> discount]
MCDefaultDiscounts == <<Step(2, 1), Step(4, 3)>>
Tier(name, units, vram, factor, ids, patterns) ==
    [name |-> name, compute_units |-> units, vram_gb |-> vram, multiplier |-> factor, device_ids |-> ids,
     name_patterns |-> patterns, category |-> "standard"]
MCDefaultTiers == [t \in {"t4", "a40"} |->
    IF t = "t4" THEN Tier(t, 2, 16, 4, {"1eb8"}, {"T4"})
    ELSE Tier(t, 5, 8, 8, {"2235"}, {"A40"})]

\* One list replaces the discounts, in no order; the other keeps them, adds a tier without
\* compute units, whose id is a prefix, and makes confidential VMs cheap.
MCPriceList ==
    {[prices |-> [p \in {"Program"} |-> [storage |-> Amount(2, 2), compute_unit |-> Amount(5, 5)]],
      volume_discounts |-> {<<Step(4, 6), Step(1, 2), Step(3, 4), Step(3, 5)>>},
      gpu_tiers |-> <<>>],
     [prices |-> [p \in {"InstanceConfidential"} |->
                     [storage |-> Amount(0, 0), compute_unit |-> Amount(1, 1)]],
      volume_discounts |-> {},
      gpu_tiers |-> [t \in {"any"} |-> Tier(t, 0, 10, 5, {"22"}, {})]]}
MCDevice == {[id |-> "2235", name |-> "other"], [id |-> "1eb8", name |-> "RTX A4000"],
             [id |-> "ffff", name |-> "RTX A4000"]}
MCStartsWith == {<<"2235", "2235">>, <<"2235", "22">>, <<"1eb8", "1eb8">>}
MCNames == {<<"A40", "A40">>, <<"RTX A4000", "A40">>}
MCBaseStorage == [t \in {"PROGRAM", "INSTANCE"} |-> IF t = "PROGRAM" THEN 2 ELSE 4]

OneVm == vm = CHOOSE c \in Blobs : TRUE
NoClient == list = list_messages /\ ~ asc /\ size = 1 /\ rows = {}

MCInit ==
    /\ part \in {"aggregate", "posts", "list", "prices"}
    /\ Init /\ PostsInit /\ ListingInit /\ PricingInit
    /\ part # "list" => NoClient
    /\ part # "prices" => OneVm
    /\ asc => size = 1

MCNext ==
    /\ UNCHANGED part
    /\ \/ part = "aggregate" /\ Next /\ UNCHANGED <<postVars, listVars, pricingVars>>
       \/ part = "posts" /\ PostsNext /\ UNCHANGED <<vars, listVars, pricingVars>>
       \/ part = "list" /\ ListingNext /\ UNCHANGED <<vars, postVars, pricingVars>>
       \/ part = "prices" /\ PricingNext /\ UNCHANGED <<vars, postVars, listVars>>

\* A bound: the two intruders, which leave nothing behind, are not handled together.
OneIntruder == "out" \in {step'["hijack"], step'["coup"]}

MCSpec == MCInit /\ [][MCNext]_<<part, vars, postVars, listVars, pricingVars>>

=============================================================================
