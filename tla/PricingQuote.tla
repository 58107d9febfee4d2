----------------------------- MODULE PricingQuote -----------------------------
(***************************************************************************)
(* The monthly estimate a plan carries: the SKUs a configuration needs are *)
(* chosen from the Cloud Billing catalogue, the usage of each is cut at    *)
(* the boundaries of its price tiers, and every piece is priced in exact   *)
(* integer arithmetic and rounded up.  The plan then validates the quote   *)
(* against its own lines and against the budget.                           *)
(***************************************************************************)
EXTENDS Integers, Sequences, FiniteSets, SequencesExt

CONSTANTS
  Catalogues,  \* price lists the catalogue may publish
  Configs,     \* configurations to be priced
  WIDTH,       \* bits of an unsigned integer (64)
  FRACTION,    \* bits of a float's fraction (52)
  HOURS,       \* hours of a month (730)
  NANOS,       \* nanos of a currency unit (10^9)
  MICRO,       \* nanos of a micro-unit (1000)
  Invalid      \* an error: a refused number, price or quote

\* The powers of two, as the recursive function whose values can be reasoned about.
Pow2[k \in Nat] == IF k = 0 THEN 1 ELSE 2 * Pow2[k - 1]

ASSUME PricingAssumption ==
  /\ WIDTH \in Nat \ {0} /\ FRACTION \in Nat
  /\ HOURS \in Nat \ {0} /\ NANOS \in Nat \ {0} /\ MICRO \in Nat \ {0}
  /\ 4 * HOURS < Pow2[WIDTH]

(* A float is the dyadic num / 2^shift in lowest terms; a negative or       *)
(* non-finite one is Invalid.                                               *)
IsFloat(f) ==
  f # Invalid => /\ f \in [num : Nat, shift : Nat]
                 /\ f.shift > 0 => f.num % 2 = 1

(* What the catalogue reader returns: descriptions are reduced to what is   *)
(* searched for, the order of SKU names to that of numbers.                 *)
IsTier(tier) == IsFloat(tier.start) /\ tier.units \in Int /\ tier.nanos \in Int
IsPrice(price) ==
  /\ price.sku \in Int /\ price.safe \in BOOLEAN
  /\ IsFloat(price.conversion)
  /\ price.tiers \in Seq(Range(price.tiers))
  /\ \A tier \in Range(price.tiers) : IsTier(tier)

\* What is computed from them: amounts, tiers, the lines of a quote and the quote.
Amount == [n : Nat, d : Nat]
TierList == Seq([start : Amount, nanos : Nat, base : Nat])
PricingLine == [sku : Int, start : Nat, usage : Amount, nanos : Nat, safe : BOOLEAN,
                subtotal : Nat]
PricingQuoteType == [lines : SUBSET PricingLine, total : Nat]

\* An error is none of these.
ASSUME InvalidAssumption ==
  /\ Invalid \notin Int
  /\ Invalid \notin [num : Nat, shift : Nat]
  /\ Invalid \notin Amount
  /\ Invalid \notin TierList
  /\ Invalid \notin Seq(PricingLine)
  /\ Invalid \notin PricingQuoteType
  /\ \A list \in Catalogues : Invalid \notin Range(list)

ASSUME CatalogueAssumption ==
  /\ \A c \in Configs : c.small \in BOOLEAN /\ c.disk \in Nat /\ c.maximum \in Nat
  /\ \A list \in Catalogues :
       list \in Seq(Range(list)) /\ \A price \in Range(list) : IsPrice(price)

VARIABLES
  config, prices,  \* what is priced, from which price list
  stage,           \* "asked", "quoted", "refused", "planned", "rejected"
  quote            \* the quote, once there is one

vars == <<config, prices, stage, quote>>

-------------------------------------------------------------------------------
(* Exact rationals.                                                         *)

\* An overflow that is not noticed.
CheckedNever(n) == n

Checked(n) == IF n < Pow2[WIDTH] THEN n ELSE Invalid

Gcd[ab \in Nat \X Nat] == IF ab[2] = 0 THEN ab[1] ELSE Gcd[<<ab[2], ab[1] % ab[2]>>]

Reduced(n, d) == LET g == Gcd[<<n, d>>] IN [n |-> n \div g, d |-> d \div g]

Dyadic(n, k) == LET z == Max({i \in 0 .. k : n % Pow2[i] = 0})
                IN [num |-> n \div Pow2[z], shift |-> k - z]

Zero == [n |-> 0, d |-> 1]

\* A left shift that drops the high bits is not noticed.
ExactNonnegative(f) ==
  IF f = Invalid \/ f.shift >= WIDTH \/ f.num >= Pow2[WIDTH + FRACTION]
    THEN Invalid
    ELSE [n |-> f.num % Pow2[WIDTH], d |-> Pow2[f.shift]]

Positive(q) == IF q = Invalid \/ q = Zero THEN Invalid ELSE q

ExactPositive(f) == Positive(ExactNonnegative(f))

Less(a, b) == a.n * b.d < b.n * a.d

InRange(q) == IF Invalid \in {Checked(q.n), Checked(q.d)} THEN Invalid ELSE q

\* A difference left unreduced.
SubtractUnreduced(larger, smaller) ==
  IF ~Less(smaller, larger) THEN Invalid
  ELSE [n |-> larger.n * smaller.d - smaller.n * larger.d, d |-> larger.d * smaller.d]

Subtract(larger, smaller) ==
  IF ~Less(smaller, larger) THEN Invalid
  ELSE InRange(Reduced(larger.n * smaller.d - smaller.n * larger.d, larger.d * smaller.d))

\* A boundary between two base units rounded down.
MultiplyRounded(a, b) == Checked((a.n * b.n) \div (a.d * b.d))

MultiplyToInteger(a, b) ==
  IF (a.n * b.n) % (a.d * b.d) # 0 THEN Invalid ELSE Checked((a.n * b.n) \div (a.d * b.d))

OverMonth(q) ==
  IF Invalid \in {q, Checked(q.n * HOURS)} THEN Invalid ELSE Reduced(q.n * HOURS, q.d)

HoursOf(f) == OverMonth(ExactPositive(f))

-------------------------------------------------------------------------------
(* Choosing the SKUs.                                                       *)

TierPrice(tier) ==
  IF tier.nanos \in 0 .. NANOS - 1 /\ tier.units >= 0
    THEN Checked(tier.units * NANOS + tier.nanos)
    ELSE Invalid

\* The dearest tier of a SKU; a SKU with a malformed tier, or none, sorts as free.
DearestOf(rates) == IF Invalid \in rates \/ rates = {} THEN 0 ELSE Max(rates)

Dearest(price) == DearestOf({TierPrice(price.tiers[i]) : i \in DOMAIN price.tiers})

Mentions(price, words) ==
  /\ price.usd
  /\ words \subseteq price.words
  /\ price.words \cap {"spot", "preemptible", "commitment"} = {}

\* The first SKU taken, whatever its price.
SelectFirst(list, words) ==
  LET found == {i \in DOMAIN list : Mentions(list[i], words)}
  IN IF found = {} THEN Invalid ELSE list[CHOOSE i \in found : \A j \in found : i <= j]

\* The last of the candidates sorted by price and then by SKU.
LastOf(list, keys) ==
  LET after(i, j) ==
        \/ keys[i] > keys[j]
        \/ keys[i] = keys[j] /\ list[i].sku > list[j].sku
        \/ keys[i] = keys[j] /\ list[i].sku = list[j].sku /\ i >= j
  IN IF DOMAIN keys = {} THEN Invalid
     ELSE list[CHOOSE i \in DOMAIN keys : \A j \in DOMAIN keys : after(i, j)]

SelectPrice(list, words) ==
  LastOf(list, [i \in {j \in DOMAIN list : Mentions(list[j], words)} |-> Dearest(list[i])])

SelectAny(list, words, otherwise) ==
  IF \E i \in DOMAIN list : Mentions(list[i], words)
    THEN SelectPrice(list, words) ELSE SelectPrice(list, otherwise)

\* The description itself, or followed by the name of a region.
SelectExact(list, description) ==
  LET found == {i \in DOMAIN list : /\ list[i].usd /\ list[i].text = description
                                    /\ list[i].suffix # "other"}
  IN IF Cardinality(found) = 1 THEN list[CHOOSE i \in found : TRUE] ELSE Invalid

\* e2-small, which bills half a CPU, or the custom machine of 2 CPUs and 4096 MiB.
Machine(small) ==
  IF small THEN [vcpus |-> Dyadic(1, 1), memory |-> Dyadic(2, 0)]
           ELSE [vcpus |-> Dyadic(2, 0), memory |-> Dyadic(4096, 10)]

\* The machine's CPU and memory, its disk and its address, with their monthly usage.
Quantities(c, list) ==
  LET machine == Machine(c.small)
      either(exact, searched) == IF c.small THEN exact ELSE searched
  IN <<[price |-> either(SelectExact(list, "core"), SelectPrice(list, {"e2", "core"})),
        usage |-> HoursOf(machine.vcpus)],
       [price |-> either(SelectExact(list, "ram"),
                         SelectAny(list, {"e2", "ram"}, {"e2", "memory"})),
        usage |-> HoursOf(machine.memory)],
       [price |-> SelectExact(list, "disk"), usage |-> [n |-> c.disk, d |-> 1]],
       [price |-> SelectExact(list, "address"), usage |-> [n |-> HOURS, d |-> 1]]>>

-------------------------------------------------------------------------------
(* Pricing them.                                                            *)

IsReduced(q) == q.n > 0 /\ q.d > 0 /\ Gcd[<<q.n, q.d>>] = 1

\* Rounded down.
SubtotalTruncated(nanos, q) ==
  IF ~IsReduced(q) THEN Invalid ELSE Checked((nanos * q.n) \div (MICRO * q.d))

Subtotal(nanos, q) ==
  LET scale == MICRO * q.d
  IN IF ~IsReduced(q) THEN Invalid
     ELSE Checked((nanos * q.n) \div scale + (IF (nanos * q.n) % scale = 0 THEN 0 ELSE 1))

LineForTier(price, tier, q) ==
  [sku |-> price.sku, start |-> tier.base, usage |-> q, nanos |-> tier.nanos, safe |-> price.safe,
   subtotal |-> IF q = Invalid THEN Invalid ELSE Subtotal(tier.nanos, q)]

NormalizedTier(tier, start, factor) ==
  [start |-> start, nanos |-> TierPrice(tier),
   base |-> IF Invalid \in {start, factor} THEN Invalid ELSE MultiplyToInteger(start, factor)]

\* Tiers in order, behind the free range that a first tier above zero implies.
Ordered(tiers) ==
  IF \/ tiers = <<>>
     \/ \E i \in DOMAIN tiers : Invalid \in {tiers[i].start, tiers[i].base, tiers[i].nanos}
     \/ \E i \in 2 .. Len(tiers) : ~Less(tiers[i - 1].start, tiers[i].start)
    THEN Invalid
  ELSE IF tiers[1].start.n = 0 THEN tiers
  ELSE <<[start |-> Zero, base |-> 0, nanos |-> 0]>> \o tiers

Normalized(price) ==
  Ordered([i \in DOMAIN price.tiers |->
             NormalizedTier(price.tiers[i], ExactNonnegative(price.tiers[i].start),
                            ExactPositive(price.conversion))])

\* The usage cut at the boundaries of the tiers it reaches.
Slices(price, usage, tiers) ==
  LET end(i) == IF i < Len(tiers) /\ Less(tiers[i + 1].start, usage)
                  THEN tiers[i + 1].start ELSE usage
      used == {i \in DOMAIN tiers : Less(tiers[i].start, usage)}
  IN IF ~IsReduced(usage) \/ tiers = Invalid THEN Invalid
     ELSE [i \in used |-> LineForTier(price, tiers[i], Subtract(end(i), tiers[i].start))]

PricingLines(price, usage) == Slices(price, usage, Normalized(price))

SumOf(f) == MapThenSumSet(LAMBDA x : f[x], DOMAIN f)

Total(lines) == SumOf([line \in lines |-> line.subtotal])

PricedParts(wanted) ==
  [i \in DOMAIN wanted |->
     IF Invalid \in {wanted[i].price, wanted[i].usage} THEN Invalid
     ELSE PricingLines(wanted[i].price, wanted[i].usage)]

QuoteLines(lines) ==
  IF \/ \E i \in DOMAIN lines : lines[i].subtotal = Invalid
     \/ ~IsInjective(lines)
     \/ Checked(Total(Range(lines))) = Invalid
    THEN Invalid
    ELSE [lines |-> Range(lines), total |-> Total(Range(lines))]

\* The lines of all parts, each at its part and its place in it.
Pieces(parts) ==
  [at \in UNION {{i} \X DOMAIN parts[i] : i \in DOMAIN parts} |-> parts[at[1]][at[2]]]

QuoteParts(parts) == IF Invalid \in Range(parts) THEN Invalid ELSE QuoteLines(Pieces(parts))

Quote(c, list) == IF c.balanced THEN QuoteParts(PricedParts(Quantities(c, list))) ELSE Invalid

Validate(q, maximum) ==
  /\ q.lines # {} /\ q.total # 0
  /\ \A line \in q.lines : /\ line.safe
                           /\ line.subtotal = Subtotal(line.nanos, line.usage)
  /\ \A a, b \in q.lines : a.sku = b.sku /\ a.start = b.start => a = b
  /\ q.total = Total(q.lines)
  /\ q.total <= maximum

-------------------------------------------------------------------------------
Init ==
  /\ config \in Configs
  /\ prices \in Catalogues
  /\ stage = "asked"
  /\ quote = Invalid

\* The catalogue is read and the configuration priced from it.
Estimate ==
  /\ stage = "asked"
  /\ quote' = Quote(config, prices)
  /\ stage' = IF quote' = Invalid THEN "refused" ELSE "quoted"
  /\ UNCHANGED <<config, prices>>

\* The quote is checked against the budget before a plan may carry it.
CheckBudget ==
  /\ stage = "quoted"
  /\ stage' = IF Validate(quote, config.maximum) THEN "planned" ELSE "rejected"
  /\ UNCHANGED <<config, prices, quote>>

Next == Estimate \/ CheckBudget

Spec == Init /\ [][Next]_vars

-------------------------------------------------------------------------------
(* Properties.                                                              *)

(* Every piece of a quote is a positive reduced usage at a price an integer *)
(* of WIDTH bits holds, and so are its subtotal and the total.              *)
TypeOK ==
  /\ stage \in {"asked", "quoted", "refused", "planned", "rejected"}
  /\ (quote = Invalid) = (stage \in {"asked", "refused"})
  /\ quote # Invalid =>
       /\ quote.total \in 0 .. Pow2[WIDTH] - 1
       /\ \A line \in quote.lines :
            /\ {line.start, line.nanos, line.subtotal} \subseteq 0 .. Pow2[WIDTH] - 1
            /\ IsReduced(line.usage)

\* The selected SKUs with their usage, and a grain that divides every tier boundary and usage.
Selected == Range(Quantities(config, prices))
Grain == 2 * Pow2[Max({0} \cup UNION {{w.price.tiers[i].start.shift : i \in DOMAIN w.price.tiers} :
                                        w \in Selected})]

\* What one grain of usage costs: the price of the last tier that starts at or before it.
RateAt(price, g, grain) ==
  LET begun == {i \in DOMAIN price.tiers :
                  price.tiers[i].start.num * grain <= g * Pow2[price.tiers[i].start.shift]}
  IN IF begun = {} THEN 0
     ELSE price.tiers[Max(begun)].units * NANOS + price.tiers[Max(begun)].nanos

\* The cost of a month in nanos per grain: no pieces, no rounding.
ExactCost(selected, grain) ==
  SumOf([w \in selected |->
           SumOf([g \in 0 .. (w.usage.n * grain) \div w.usage.d - 1 |->
                    RateAt(w.price, g, grain)])])

\* No tier of a selected SKU starts beyond what an integer holds.
Representable == \A w \in Selected : \A i \in DOMAIN w.price.tiers :
                   w.price.tiers[i].start.num < Pow2[WIDTH]

(* A quote is never below what the usage costs tier by tier, and above it by *)
(* less than one micro-unit for each of its lines: whatever the boundaries,  *)
(* no piece of usage is left out, priced twice or priced at a neighbour's    *)
(* rate.                                                                     *)
CoversCost(cost, scale) ==
  /\ quote.total * scale >= cost
  /\ quote.total * scale < cost + scale * Cardinality(quote.lines)
QuoteIsExact ==
  stage = "quoted" /\ Representable =>
    CoversCost(ExactCost(Selected, Grain), MICRO * Grain)

(* A catalogue in good order is never refused: a single SKU for each exact   *)
(* description, a candidate for the others, none of them twice, each with    *)
(* increasing tiers that start on base-unit boundaries, and a month of each  *)
(* whose numbers fit an integer.                                             *)
Regular(p) ==
  LET start(i) == p.tiers[i].start
      amount(i) == start(i).num * p.conversion.num
      unit(i) == Pow2[start(i).shift] * Pow2[p.conversion.shift]
  IN /\ p.conversion # Invalid /\ p.conversion.shift < WIDTH
     /\ p.conversion.num \in 1 .. Pow2[WIDTH] - 1
     /\ p.tiers # <<>>
     /\ \A i \in DOMAIN p.tiers :
          /\ start(i) # Invalid /\ start(i).num < Pow2[WIDTH]
          /\ amount(i) % unit(i) = 0 /\ amount(i) \div unit(i) < Pow2[WIDTH]
          /\ p.tiers[i].units >= 0 /\ p.tiers[i].nanos \in 0 .. NANOS - 1
          /\ i > 1 => start(i - 1).num * Pow2[start(i).shift]
                        < start(i).num * Pow2[start(i - 1).shift]

\* The usage in the grain of each boundary, and all pieces at the price of each tier.
Moderate(w, pieces) ==
  \A i \in DOMAIN w.price.tiers :
    LET tier == w.price.tiers[i]
        rate == tier.units * NANOS + tier.nanos
    IN /\ rate < Pow2[WIDTH]
       /\ w.usage.n * Pow2[tier.start.shift] < Pow2[WIDTH]
       /\ ((rate * w.usage.n) \div MICRO + 1) * pieces < Pow2[WIDTH]

Named(list, text) ==
  {i \in DOMAIN list : list[i].usd /\ list[i].text = text /\ list[i].suffix # "other"}
Found(list, words) == \E i \in DOMAIN list : Mentions(list[i], words)
Priced(c, list) ==
  LET wanted == Quantities(c, list)
      pieces == SumOf([i \in 1 .. 4 |-> Len(wanted[i].price.tiers) + 1])
  IN /\ c.balanced /\ c.disk > 0
     /\ \A text \in {"disk", "address"} \cup (IF c.small THEN {"core", "ram"} ELSE {}) :
          Cardinality(Named(list, text)) = 1
     /\ ~c.small => /\ Found(list, {"e2", "core"})
                    /\ Found(list, {"e2", "ram"}) \/ Found(list, {"e2", "memory"})
     /\ Cardinality({w.price.sku : w \in Range(wanted)}) = 4
     /\ \A i \in 1 .. 4 : Regular(wanted[i].price) /\ Moderate(wanted[i], pieces)
QuotedWhenRegular == stage = "refused" => ~Priced(config, prices)

(* The plan accepts every quote the estimate returns, but for the reasons a  *)
(* user can see: it is over the budget, it is free, a name is malformed, or  *)
(* one SKU was found for the CPU and for the memory.                         *)
AcceptedByPlan ==
  stage = "rejected" =>
    \/ quote.total > config.maximum
    \/ quote.total = 0
    \/ \E w \in Selected : ~w.price.safe
    \/ Cardinality({w.price.sku : w \in Selected}) < 4

(* The quote does not depend on the order in which the catalogue lists its   *)
(* SKUs, as long as it lists none twice, so an unchanged catalogue gives an  *)
(* unchanged plan.                                                           *)
ListsEachOnce(list) == \A i, j \in DOMAIN list : list[i].sku = list[j].sku => i = j
OrderIndependent ==
  stage \in {"quoted", "refused"} /\ ListsEachOnce(prices) =>
    \A order \in [DOMAIN prices -> DOMAIN prices] :
      IsInjective(order) => quote = Quote(config, [i \in DOMAIN prices |-> prices[order[i]]])

===============================================================================
