---- MODULE MCPricingQuote ----
(* Price lists for TLC: the five SKUs of a regular catalogue, one or two of *)
(* them replaced by every shape the catalogue could give them.              *)
EXTENDS PricingQuote

Whole(n) == [num |-> n, shift |-> 0]
Half == [num |-> 1, shift |-> 1]
Tier(start, units, nanos) == [start |-> start, units |-> units, nanos |-> nanos]
Sku(id, text, words) ==
  [sku |-> id, text |-> text, suffix |-> "region", words |-> words, usd |-> TRUE, safe |-> TRUE,
   conversion |-> Whole(2), tiers |-> <<Tier(Whole(0), 0, 7)>>]

Core == Sku(1, "core", {"e2", "core"})
Ram == Sku(2, "ram", {"e2", "ram"})
Disk == Sku(3, "disk", {"balanced"})
Address == Sku(4, "address", {"external"})

\* Tier lists of up to three tiers: boundaries inside, at and beyond the usage, some malformed.
Starts == {Whole(0), Half, Whole(2), Whole(3), Whole(65536)}
Rates == {<<0, 0>>, <<0, 7>>, <<1, 3>>}
TierLists ==
  {<<Tier(s, r[1], r[2])>> : s \in Starts, r \in Rates}
  \cup {<<Tier(s, r[1], r[2]), Tier(t, q[1], q[2])>> :
          s \in Starts, t \in Starts, r \in Rates, q \in Rates}
  \cup {<<Tier(Whole(0), 0, 7), Tier(s, 1, 3), Tier(t, r[1], r[2])>> :
          s \in Starts, t \in Starts, r \in Rates}
  \cup {<<>>, <<Tier(Invalid, 0, 7)>>, <<Tier(Whole(0), -1, 0)>>, <<Tier(Whole(0), 0, 100)>>,
        <<Tier(Whole(0), 700, 0)>>, <<Tier(Whole(0), 400, 0)>>,
        <<Tier([num |-> 1, shift |-> 2], 0, 7)>>,
        <<Tier(Half, 0, 7), Tier([num |-> 3, shift |-> 1], 0, 3)>>}

\* Other descriptions, currencies and conversions of a SKU.
Oddities(p) ==
  {[p EXCEPT !.usd = FALSE], [p EXCEPT !.safe = FALSE], [p EXCEPT !.suffix = "other"],
   [p EXCEPT !.suffix = "none"], [p EXCEPT !.words = @ \cup {"spot"}],
   [p EXCEPT !.conversion = Whole(0)], [p EXCEPT !.conversion = Invalid],
   [p EXCEPT !.conversion = Half], [p EXCEPT !.conversion = Whole(65536)]}

\* Further SKUs a search may find beside the right one.
Extras ==
  {[Core EXCEPT !.sku = 5], [Core EXCEPT !.sku = 5, !.text = "custom core"],
   [Core EXCEPT !.sku = 5, !.text = "custom core", !.tiers = <<Tier(Whole(0), 1, 0)>>],
   [Core EXCEPT !.sku = 0, !.text = "custom core", !.tiers = <<Tier(Whole(0), -1, 0)>>],
   [Core EXCEPT !.sku = 5, !.text = "custom core", !.words = {"e2", "core", "ram"},
                !.tiers = <<Tier(Whole(0), 0, 9)>>],
   [Ram EXCEPT !.sku = 6, !.text = "memory", !.words = {"e2", "memory"}],
   [Disk EXCEPT !.sku = 7, !.suffix = "other"], [Disk EXCEPT !.sku = 7]}

PriceLists ==
  {<<[Core EXCEPT !.tiers = t], Ram, Disk, Address>> : t \in TierLists}
  \cup {<<Core, Ram, [Disk EXCEPT !.tiers = t], Address>> : t \in TierLists}
  \cup {<<[Core EXCEPT !.tiers = <<Tier(Whole(0), 0, 0)>>],
          [Ram EXCEPT !.tiers = <<Tier(Whole(0), 0, 0)>>],
          [Disk EXCEPT !.tiers = <<Tier(Whole(0), 0, 0)>>],
          [Address EXCEPT !.tiers = <<Tier(Whole(20), 0, 7)>>]>>}
  \cup {<<Core, o, Disk, Address>> : o \in Oddities(Ram)}
  \cup {<<Core, Ram, o, Address>> : o \in Oddities(Disk)}
  \cup {<<x, Core, Ram, Disk, Address>> : x \in Extras}
  \cup {<<x, Ram, Disk, Address>> : x \in Extras}
  \cup {<<Core, x, Disk, Address>> : x \in Extras}

Wanted ==
  [small : BOOLEAN, disk : {2, 5}, balanced : {TRUE}, maximum : {30, 60000}]
  \cup {[small |-> TRUE, disk |-> 2, balanced |-> FALSE, maximum |-> 60000]}
===============================================================================
