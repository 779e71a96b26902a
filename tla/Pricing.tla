------------------------------ MODULE Pricing ------------------------------
(***************************************************************************)
(* The prices of models: the table model_pricing, which a refresh from     *)
(* AWS's price list writes (pricing/mod.rs, at the start of every replica, *)
(* on a timer and on demand) and which administrators overrule             *)
(* (api/admin.rs).                                                         *)
(***************************************************************************)
EXTENDS Integers, Sequences

CONSTANTS
    Priced,        \* prefixes of models
    SeededRates,   \* the rates that the migration fills the table with, of some
                   \* of Priced
    PriceLists,    \* what AWS publishes, one list after the other: sequences
                   \* of lines [model, dimension, price]
    Dimensions,    \* input, output, cache read and cache write
    Amounts,       \* prices
    Unreadable,    \* a price that does not parse
    Unpriced,      \* no price yet, no row
    Refreshes,     \* refreshes that may be under way at once
    MaxRulings,    \* bound of the model: changes by administrators
    MaxRefreshes   \* bound of the model

ASSUME PricingAssumption ==
    /\ {MaxRulings, MaxRefreshes} \subseteq Nat
    /\ Len(PriceLists) \in Nat \ {0}
    /\ \A k \in 1..Len(PriceLists) :
         /\ Len(PriceLists[k]) \in Nat
         /\ DOMAIN PriceLists[k] = 1..Len(PriceLists[k])
    /\ \A p \in DOMAIN SeededRates :
         p \in Priced /\ Unpriced # [source |-> "seed", rates |-> SeededRates[p]]
    /\ \A a \in Amounts :
         LET rates == [d \in Dimensions |-> a]
         IN  Unpriced \notin {rates, [source |-> "admin_manual", rates |-> rates]}

VARIABLES
    prices,      \* rows: [source, rates], or Unpriced
    listsOut,    \* how many of PriceLists are published
    refreshes,   \* per refresh: the rows it has still to write, or Unpriced
    ruled,       \* history: per model the rates an administrator has last set,
                 \* Unpriced if the row has been deleted since
    rulings, refreshCount

pricingVars == <<prices, listsOut, refreshes, ruled, rulings, refreshCount>>

\* The INSERT of migration 010, before any refresh.
AsSeeded(p) == [source |-> "seed", rates |-> SeededRates[p]]

PricingInit ==
    /\ prices = [p \in Priced |->
         IF p \in DOMAIN SeededRates THEN AsSeeded(p) ELSE Unpriced]
    /\ listsOut = 1
    /\ refreshes = [f \in Refreshes |-> Unpriced]
    /\ ruled = [p \in Priced |-> Unpriced]
    /\ rulings = 0 /\ refreshCount = 0

NoRates == [d \in Dimensions |-> Unpriced]

\* classify_description(): the other dimensions are passed over.
Classified(line) == line.dimension \in Dimensions

\* ModelAccumulator: a line of a model changes what is known of it.
Accumulate(acc, line) ==
    IF ~Classified(line) THEN acc
    ELSE IF line.price = Unreadable THEN [acc EXCEPT ![line.model].broken = TRUE]
    ELSE [acc EXCEPT ![line.model].rates[line.dimension] = line.price]

NothingKnown == [p \in Priced |-> [rates |-> NoRates, broken |-> FALSE]]

\* What is known after each of the lines of a list.
KnownAfter(list) ==
    LET known[n \in 0..Len(list)] ==
          IF n = 0 THEN NothingKnown ELSE Accumulate(known[n - 1], list[n])
    IN  known

Whole(m) == ~m.broken /\ \A d \in Dimensions : m.rates[d] # Unpriced

\* parse_price_list_csv(): the models of which all is known, with their rates.
Parsed(list) ==
    LET acc == KnownAfter(list)[Len(list)]
    IN  {[model |-> p, rates |-> acc[p].rates] : p \in {q \in Priced : Whole(acc[q])}}

-----------------------------------------------------------------------------

\* AWS publishes the next list.
NextList ==
    /\ listsOut < Len(PriceLists)
    /\ listsOut' = listsOut + 1
    /\ UNCHANGED <<prices, refreshes, ruled, rulings, refreshCount>>

\* refresh_pricing() downloads and parses a list; one that cannot be had ends it.
Download(f) ==
    /\ refreshes[f] = Unpriced /\ refreshCount < MaxRefreshes
    /\ refreshCount' = refreshCount + 1
    /\ refreshes' = [refreshes EXCEPT ![f] = Parsed(PriceLists[listsOut])]
    /\ UNCHANGED <<prices, listsOut, ruled, rulings>>

\* Faulty: any row is overwritten.
UpsertedFaulty(row) == [source |-> "price_list_api", rates |-> row.rates]

\* upsert_from_api() leaves what an administrator has set.
Upserted(row) ==
    IF prices[row.model] # Unpriced /\ prices[row.model].source = "admin_manual"
    THEN prices[row.model]
    ELSE [source |-> "price_list_api", rates |-> row.rates]

\* The rows are written one by one; one that fails is reported and passed over.
WriteRow(f, row, fails) ==
    /\ refreshes[f] # Unpriced /\ row \in refreshes[f]
    /\ prices' = IF fails THEN prices ELSE [prices EXCEPT ![row.model] = Upserted(row)]
    /\ refreshes' = [refreshes EXCEPT ![f] = @ \ {row}]
    /\ UNCHANGED <<listsOut, ruled, rulings, refreshCount>>

Report(f) ==
    /\ refreshes[f] = {}
    /\ refreshes' = [refreshes EXCEPT ![f] = Unpriced]
    /\ UNCHANGED <<prices, listsOut, ruled, rulings, refreshCount>>

Ruling == rulings < MaxRulings /\ rulings' = rulings + 1

\* upsert_pricing()
SetPrice(p, rates) ==
    /\ Ruling
    /\ prices' = [prices EXCEPT ![p] = [source |-> "admin_manual", rates |-> rates]]
    /\ ruled' = [ruled EXCEPT ![p] = rates]
    /\ UNCHANGED <<listsOut, refreshes, refreshCount>>

\* delete_pricing()
DeletePrice(p) ==
    /\ Ruling /\ prices[p] # Unpriced
    /\ prices' = [prices EXCEPT ![p] = Unpriced]
    /\ ruled' = [ruled EXCEPT ![p] = Unpriced]
    /\ UNCHANGED <<listsOut, refreshes, refreshCount>>

\* list_pricing()
ListedPrices == {p \in Priced : prices[p] # Unpriced}

PricingNext ==
    \/ NextList
    \/ \E f \in Refreshes :
          \/ Download(f) \/ Report(f)
          \/ \E row \in IF refreshes[f] = Unpriced THEN {} ELSE refreshes[f],
                fails \in BOOLEAN : WriteRow(f, row, fails)
    \/ \E p \in Priced :
          \/ \E a \in Amounts : SetPrice(p, [d \in Dimensions |-> a])
          \/ DeletePrice(p)

PricingSpec == PricingInit /\ [][PricingNext]_pricingVars

-----------------------------------------------------------------------------

\* What a list says of a model, read without an accumulator.
Says(list, p, rates) ==
    LET of(d) == {k \in DOMAIN list : list[k].model = p /\ list[k].dimension = d}
    IN  \A d \in Dimensions :
            /\ of(d) # {}
            /\ \A k \in of(d) : list[k].price # Unreadable
            /\ \E k \in of(d) : (\A j \in of(d) : j <= k) /\ rates[d] = list[k].price

\* A price an administrator has set stays until an administrator changes it,
\* however many refreshes have downloaded their list before or write theirs
\* now; any other price is the one the migration has filled in or the whole of
\* what one published list says of the model, never a mixture of them and never
\* one that could not be read.
PricesSound ==
    \A p \in ListedPrices :
        IF ruled[p] # Unpriced
        THEN prices[p] = [source |-> "admin_manual", rates |-> ruled[p]]
        ELSE \/ /\ prices[p].source = "price_list_api"
                /\ \E k \in 1..listsOut : Says(PriceLists[k], p, prices[p].rates)
             \/ p \in DOMAIN SeededRates /\ prices[p] = AsSeeded(p)
=============================================================================
