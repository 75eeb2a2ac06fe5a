-------------------------------- MODULE Pricing --------------------------------
(***************************************************************************)
(* Prices (src/services/cost.rs) and the endpoints that quote them         *)
(* (src/web/handlers.rs).  A client asks what a message would cost         *)
(* (price_estimate, estimate_cost) and what a stored one costs             *)
(* (get_message_price).  A quote takes three locks one after the other,    *)
(* for storage, compute units and discount; the pricing aggregate may      *)
(* replace the list between them.                                          *)
(*                                                                         *)
(* Amounts are numbers.  A discount is in parts of Whole, the internet     *)
(* multiplier in parts of Tenths; costs stay multiplied by both.  What the *)
(* balance check charges is in Vm: it takes neither hours nor discounts.   *)
(***************************************************************************)
EXTENDS Integers, SequencesExt

CONSTANTS
    Quoted,       \* the message that is asked about: one of these records
    DefaultPrices, \* [product -> [storage, compute_unit]], of CostService::new: Storage,
                   \* Program, Instance, InstanceConfidential and two for GPUs
    DefaultDiscounts, \* and its volume discounts: <<[min_compute_units, discount], ...>>
    DefaultTiers,  \* and its GPU tiers
    PriceList,     \* pricing aggregates: records of prices, volume_discounts (a set of one
                   \* list, or of none if there is none) and gpu_tiers
    UnitMemory,    \* MiB of one compute unit (2048)
    WordU32,          \* u32 arithmetic is below WordU32 (2^32)
    Whole, Tenths, \* a discount of Whole is free; Tenths of internet_multiplier is 1
    InternetMultiplier,
    BaseStorage,   \* [{"PROGRAM", "INSTANCE"} -> MiB] every such VM is quoted
    Hours,         \* a month
    Mib,           \* bytes of a MiB
    Device,        \* GPUs: records of id and name
    StartsWith,    \* pairs of a device id and a prefix of it, itself included
    Names,         \* pairs of a device name and a pattern that it contains
    PremiumNames,  \* names of tiers that contain a100, h100 or a40
    MaxUpdates     \* bound: aggregates that arrive

Column == {"holding", "payg", "credit"}
Requests == {"estimate", "price"}

\* compute_unit of a product that has none (Storage).
NoCompute == "none"

\* Prices and discounts as they are published: none is negative.
Amounts == [Column -> Nat]
Priced(p) == \A q \in DOMAIN p : p[q].storage \in Amounts
                                /\ (q # "Storage" => p[q].compute_unit \in Amounts)
Discounts == Seq([min_compute_units : Nat, discount : 0..Whole])

ASSUME PricingAssumption ==
    /\ WordU32 \in Nat \ {0} /\ UnitMemory \in Nat \ {0} /\ Mib \in Nat \ {0}
    /\ Tenths \in Nat /\ InternetMultiplier \in Nat /\ InternetMultiplier >= Tenths
    /\ Whole \in Nat /\ Hours \in Nat /\ BaseStorage \in [{"PROGRAM", "INSTANCE"} -> Nat]
    /\ {"Storage", "Program", "Instance", "InstanceConfidential"} \subseteq DOMAIN DefaultPrices
    /\ Priced(DefaultPrices) /\ DefaultDiscounts \in Discounts
    /\ \A a \in PriceList : Priced(a.prices) /\ a.volume_discounts \subseteq Discounts
    /\ Quoted \subseteq [type : {"PROGRAM", "INSTANCE", "STORE"}, memory : Nat, vcpus : Nat,
                         volumes : Nat, size : Nat, confidential : BOOLEAN, internet : BOOLEAN]

VARIABLES
    vm,         \* the message
    prices,     \* CostService: prices,
    discounts,  \* volume_discounts, in the order of the list,
    published,  \* the list they came from, in the order it had there, and
    tiers,      \* gpu_tiers: [tier id -> GpuTier]
    updates,    \* aggregates so far
    asking,     \* the request being answered, with
    lock,       \* the lock it takes next,
    job,        \* what it asks the service for,
    partial,    \* what it has of the cost,
    since,      \* and updates when it began
    quotes      \* [Requests -> the last answer]

serviceVars == <<prices, discounts, published, tiers, updates>>
pricingVars == <<vm, serviceVars, asking, lock, job, partial, since, quotes>>

-----------------------------------------------------------------------------
(* CostService                                                             *)

Free == [c \in Column |-> 0]
Plus(a, b) == [c \in Column |-> a[c] + b[c]]
Times(a, n) == [c \in Column |-> a[c] * n]

\* saturating_add: close to the largest u32 the units are one too few.
calculate_compute_units(memory, vcpus) ==
    Max({Min({memory + UnitMemory - 1, WordU32 - 1}) \div UnitMemory, vcpus})

calculate_storage_cost(list, mib, hours, product) ==
    Times(list[product].storage, mib * hours * Tenths)

calculate_compute_cost(list, units, hours, product, internet) ==
    Times(list[product].compute_unit,
          units * hours * (IF internet THEN InternetMultiplier ELSE Tenths))

\* The loop keeps the last entry it reaches and stops at the first it does not.
get_volume_discount(list, units) ==
    LET reached == {n \in DOMAIN list :
                       \A i \in 1..n : list[i].min_compute_units <= units}
    IN  IF reached = {} THEN 0 ELSE list[Max(reached)].discount

Discounted(cost, discount) == Times(cost, Whole - discount)

\* Wrong variant of SortedDiscounts: the list is kept as it was published.
SortedDiscounts_published(list) == list

\* sort_by is stable.
SortedDiscounts(list) ==
    LET Before(i, j) ==
            \/ list[i].min_compute_units < list[j].min_compute_units
            \/ list[i].min_compute_units = list[j].min_compute_units /\ i < j
        Nth(n) == CHOOSE i \in DOMAIN list : Cardinality({j \in DOMAIN list : Before(j, i)}) = n - 1
    IN  [n \in DOMAIN list |-> list[Nth(n)]]

\* CostService::new lists its discounts in order.
ASSUME DefaultsAssumption == SortedDiscounts(DefaultDiscounts) = DefaultDiscounts

\* What a newer table does not have keeps what it had.
Over(new, old) == [x \in DOMAIN new \cup DOMAIN old |-> IF x \in DOMAIN new THEN new[x] ELSE old[x]]

\* What the price aggregate is meant to do when it changes: only tests call it yet.
update_from_aggregate(a) ==
    /\ updates < MaxUpdates
    /\ prices' = Over(a.prices, prices)
    /\ \/ a.volume_discounts = {} /\ UNCHANGED <<published, discounts>>
       \/ published' \in a.volume_discounts /\ discounts' = SortedDiscounts(published')
    /\ tiers' = Over(a.gpu_tiers, tiers)
    /\ updates' = updates + 1
    /\ UNCHANGED <<vm, asking, lock, job, partial, since, quotes>>

-----------------------------------------------------------------------------
(* GPUs                                                                    *)

IdMatches(tier, device) == \E p \in tier.device_ids : <<device.id, p>> \in StartsWith
NameMatches(tier, device) == \E p \in tier.name_patterns : <<device.name, p>> \in Names

\* The tiers it may return: the map's order decides which of them.
find_gpu_tier_by_device(device) ==
    LET byId   == {t \in DOMAIN tiers : IdMatches(tiers[t], device)}
        byName == {t \in DOMAIN tiers : NameMatches(tiers[t], device)}
    IN  IF byId # {} THEN byId ELSE byName

is_premium(tier) == tier.category = "premium" \/ tier.vram_gb >= 24 \/ tier.name \in PremiumNames

GpuProduct(tier) ==
    IF is_premium(tier) THEN "InstanceGpuPremium" ELSE "InstanceGpuStandard"

TierUnits(tier, memory, vcpus) ==
    IF tier.compute_units > 0 THEN tier.compute_units
    ELSE calculate_compute_units(memory, vcpus)

GpuCost(units, product, multiplier, mib) ==
    Discounted(Plus(calculate_storage_cost(prices, mib, Hours, product),
                    Times(calculate_compute_cost(prices, units, Hours, product, FALSE),
                          multiplier)),
               get_volume_discount(discounts, units))

calculate_gpu_instance_cost(memory, vcpus, mib, t) ==
    GpuCost(TierUnits(tiers[t], memory, vcpus), GpuProduct(tiers[t]),
            tiers[t].multiplier, mib)

\* A device of no tier is taken for a standard one with a multiplier of 5.
DefaultMultiplier == 5

\* Wrong variant of the next: the units of the VM, not of the tier.
calculate_gpu_instance_cost_by_device_units(memory, vcpus, mib, device) ==
    {GpuCost(calculate_compute_units(memory, vcpus), GpuProduct(tiers[t]),
             tiers[t].multiplier, mib) : t \in find_gpu_tier_by_device(device)}

calculate_gpu_instance_cost_by_device(memory, vcpus, mib, device) ==
    IF find_gpu_tier_by_device(device) = {}
    THEN {GpuCost(calculate_compute_units(memory, vcpus), "InstanceGpuStandard",
                  DefaultMultiplier, mib)}
    ELSE {GpuCost(TierUnits(tiers[t], memory, vcpus), GpuProduct(tiers[t]),
                  tiers[t].multiplier, mib) : t \in find_gpu_tier_by_device(device)}

-----------------------------------------------------------------------------
(* The endpoints                                                           *)

PricingInit ==
    /\ vm \in Quoted
    /\ prices = DefaultPrices /\ tiers = DefaultTiers /\ updates = 0
    /\ discounts = DefaultDiscounts /\ published = DefaultDiscounts
    /\ asking = "none" /\ lock = "idle" /\ job = <<>> /\ partial = Free /\ since = 0
    /\ quotes = [r \in Requests |-> <<>>]

ask(request, what) ==
    /\ asking = "none"
    /\ asking' = request /\ job' = what /\ lock' = "storage"
    /\ partial' = Free /\ since' = updates
    /\ UNCHANGED <<vm, serviceVars, quotes>>

Job(product, memory, vcpus, mib, internet) ==
    [product |-> product, units |-> calculate_compute_units(memory, vcpus),
     mib |-> mib, internet |-> internet]

\* Wrong variant of EstimateJob: the volumes in place of what every VM has.
EstimateJob_volumes ==
    Job(IF vm.type = "PROGRAM" THEN "Program" ELSE "Instance",
        vm.memory % WordU32, vm.vcpus % WordU32, vm.volumes, vm.internet)

\* What a VM is asked about for.  The numbers are u64 in the JSON: `as u32'.
\* trusted_execution makes a program an InstanceConfidential, too.
EstimateJob ==
    Job(IF vm.confidential THEN "InstanceConfidential"
        ELSE IF vm.type = "PROGRAM" THEN "Program" ELSE "Instance",
        vm.memory % WordU32, vm.vcpus % WordU32,
        BaseStorage[vm.type] + vm.volumes, vm.internet)

\* STORE: the size of the content, in bytes, is taken for MiB.
StoreJob(mib) == [product |-> "Storage", units |-> 0, mib |-> Max({mib, 1}), internet |-> FALSE]

price_estimate ==
    ask("estimate", IF vm.type = "STORE" THEN StoreJob(vm.size) ELSE EstimateJob)

\* The row's volumes and internet are not looked at, and trusted_execution is a
\* column that no statement fills.
PriceJob ==
    Job(IF vm.type = "PROGRAM" THEN "Program" ELSE "Instance",
        vm.memory, vm.vcpus, BaseStorage[vm.type], FALSE)

\* The row is one that the handlers stored: memory and vcpus fit u32.
get_message_price ==
    /\ vm.memory < WordU32 /\ vm.vcpus < WordU32
    /\ ask("price", IF vm.type = "STORE" THEN StoreJob(vm.size \div Mib) ELSE PriceJob)

calculate_storage ==
    /\ lock = "storage"
    /\ partial' = calculate_storage_cost(prices, job.mib, Hours, job.product)
    /\ lock' = IF job.product = "Storage" THEN "answer" ELSE "compute"
    /\ UNCHANGED <<vm, serviceVars, asking, job, since, quotes>>

calculate_compute ==
    /\ lock = "compute"
    /\ partial' = Plus(partial, calculate_compute_cost(prices, job.units, Hours,
                                                       job.product, job.internet))
    /\ lock' = "discount"
    /\ UNCHANGED <<vm, serviceVars, asking, job, since, quotes>>

calculate_discount ==
    /\ lock = "discount"
    /\ partial' = Discounted(partial, get_volume_discount(discounts, job.units))
    /\ lock' = "answer"
    /\ UNCHANGED <<vm, serviceVars, asking, job, since, quotes>>

answer_quote ==
    /\ lock = "answer"
    /\ quotes' = [quotes EXCEPT ![asking] =
                     [cost |-> partial, product |-> job.product, since |-> since,
                      until |-> updates]]
    /\ asking' = "none" /\ lock' = "idle" /\ job' = <<>> /\ partial' = Free /\ since' = 0
    /\ UNCHANGED <<vm, serviceVars>>

PricingNext ==
    \/ price_estimate \/ get_message_price
    \/ calculate_storage \/ calculate_compute \/ calculate_discount \/ answer_quote
    \/ \E a \in PriceList : update_from_aggregate(a)

PricingSpec == PricingInit /\ [][PricingNext]_pricingVars

-----------------------------------------------------------------------------
(* Properties                                                              *)

\* A VM never costs more than its sender was told before sending it: two quotes
\* of one list and one product, by two endpoints that each work out resources,
\* storage and internet for themselves.
EstimateCoversPrice ==
    LET e == quotes["estimate"]
        p == quotes["price"]
    IN  /\ vm.type # "STORE"
        /\ e # <<>> /\ p # <<>>
        /\ e.product = p.product
        /\ {e.since, e.until} = {p.since, p.until} /\ e.since = e.until
        => \A c \in Column : e.cost[c] >= p.cost[c]

\* Whatever order a list of discounts is published in, a VM gets that of the
\* highest threshold it reaches (the loop of get_volume_discount stops early).
DiscountIsTheReached ==
    \A units \in 0..Max({published[i].min_compute_units : i \in DOMAIN published} \cup {0}) :
        LET Threshold(i) == published[i].min_compute_units
            reached == {i \in DOMAIN published : Threshold(i) <= units}
            best    == {i \in reached : \A j \in reached :
                           Threshold(j) < Threshold(i) \/ (Threshold(j) = Threshold(i) /\ j <= i)}
        IN  get_volume_discount(discounts, units)
                \in IF best = {} THEN {0} ELSE {published[i].discount : i \in best}

\* The two functions for GPUs, by tier and by device, bill the same.
GpuCostsAgree ==
    \A device \in Device :
        find_gpu_tier_by_device(device) # {} =>
            calculate_gpu_instance_cost_by_device(vm.memory, vm.vcpus,
                                                  vm.volumes, device)
                = {calculate_gpu_instance_cost(vm.memory, vm.vcpus,
                                               vm.volumes, t) :
                      t \in find_gpu_tier_by_device(device)}

\* Two ways to one price agree, whatever price list is in force.
QuotesAgree == EstimateCoversPrice /\ DiscountIsTheReached /\ GpuCostsAgree

=============================================================================
