---------------------------- MODULE CatalogRules ----------------------------
(***************************************************************************)
(* The rules by which a catalogue is accepted and a basket is checked      *)
(* against it.  A catalogue is a record of two tables:                     *)
(*   restaurants : id -> [open, fee]                                       *)
(*   menu        : id -> [restaurant, name, price, available, groups, ...] *)
(* where groups is the sequence of modifier groups kept as JSON, each with *)
(* its sequence of options.  A basket is a sequence of lines, and a line   *)
(* holds its picks: a sequence of [group, options].                        *)
(***************************************************************************)
EXTENDS Integers, Sequences, SequencesExt

CONSTANTS
  Unset,           \* a bound or default the catalogue leaves open
  MaxLines,        \* lines a basket may have
  MaxQuantity      \* portions a line may ask for

ASSUME LimitsAssumption ==
  /\ MaxLines \in Nat \ {0}
  /\ MaxQuantity \in Nat \ {0}
  /\ Unset \notin Nat

Ids(entries) == {e.id : e \in ToSet(entries)}
ById(entries, id) == CHOOSE e \in ToSet(entries) : e.id = id
Distinct(entries) == \A i, j \in DOMAIN entries :
  entries[i].id = entries[j].id => i = j

\* What the tables hold, as models.py and the columns' checks type it, every dish under a
\* restaurant; prices in cents.
Options == [id : STRING, name : STRING, price : Nat, available : BOOLEAN]
Groups  == [id : STRING, name : STRING, type : {"single", "multiple"}, required : BOOLEAN,
            least : Nat \union {Unset}, most : (Nat \ {0}) \union {Unset},
            default : STRING \union {Unset}, options : Seq(Options)]
Dishes  == [restaurant : STRING, name : STRING, blurb : STRING, price : Nat \ {0},
            available : BOOLEAN, groups : Seq(Groups)]

IsCatalog(c) ==
  /\ DOMAIN c = {"restaurants", "menu"}
  /\ \A r \in DOMAIN c.restaurants : c.restaurants[r].fee \in Nat
  /\ \A m \in DOMAIN c.menu :
       c.menu[m] \in Dishes /\ c.menu[m].restaurant \in DOMAIN c.restaurants

\* A line's picks: options of one group.
PickRecords == [group : STRING, options : Seq(STRING)]

\* The entries of s that are in S, in their order: SelectSeq with a set for its test,
\* which unlike SelectSeq can be reasoned about.
Filter(s, S) ==
  LET kept[k \in 0 .. Len(s)] ==
        IF k = 0 THEN <<>> ELSE IF s[k] \in S THEN Append(kept[k - 1], s[k]) ELSE kept[k - 1]
  IN kept[Len(s)]

Offers(group, option) ==
  \E o \in ToSet(group.options) : o.id = option /\ o.available
OnOffer(group) == Filter(group.options, {o \in ToSet(group.options) : o.available})

-----------------------------------------------------------------------------
(* Normalisation of one modifier group: bounds and default are made        *)
(* explicit, and a group that nobody could satisfy is refused.             *)

Least(g) ==
  IF g.least # Unset THEN g.least ELSE IF g.required THEN 1 ELSE 0

Most(g) ==
  IF g.most # Unset THEN g.most
  ELSE IF g.type = "single" THEN 1 ELSE Len(g.options)

DefaultOption(g) ==
  IF g.type # "single" THEN Unset
  ELSE IF g.default = Unset /\ g.required /\ OnOffer(g) # <<>>
       THEN Head(OnOffer(g)).id
       ELSE g.default

Satisfiable(g) ==
  /\ g.options # <<>>
  /\ Distinct(g.options)
  /\ Least(g) <= Most(g)
  /\ Least(g) <= Len(OnOffer(g))
  /\ g.required => Least(g) >= 1
  /\ IF g.type = "single"
     THEN Most(g) = 1 /\ (DefaultOption(g) # Unset => Offers(g, DefaultOption(g)))
     ELSE Most(g) <= Len(g.options)

NormalGroup(g) ==
  [g EXCEPT !.least = Least(g), !.most = Most(g), !.default = DefaultOption(g)]

\* One group that cannot be satisfied, on any menu, refuses the whole catalogue.
Sound(c) == \A m \in DOMAIN c.menu :
  /\ Distinct(c.menu[m].groups)
  /\ \A g \in ToSet(c.menu[m].groups) : Satisfiable(g)

NormalMenuItem(m) ==
  [m EXCEPT !.groups = [k \in DOMAIN m.groups |-> NormalGroup(m.groups[k])]]

Normal(c) == [c EXCEPT !.menu = [m \in DOMAIN c.menu |-> NormalMenuItem(c.menu[m])]]

-----------------------------------------------------------------------------
(* Validation of a basket against a normal catalogue c.  The code collects *)
(* one issue per failing conjunct; callers ask only whether there is one.  *)

PickAt(line, g) == SelectInSeq(line.picks, LAMBDA p : p.group = g.id)
Picked(line, g) ==
  IF PickAt(line, g) = 0 THEN <<>> ELSE line.picks[PickAt(line, g)].options

OnMenu(c, line) ==
  /\ line.restaurant \in DOMAIN c.restaurants
  /\ line.item \in DOMAIN c.menu
  /\ c.menu[line.item].restaurant = line.restaurant

PicksAllowed(groups, line) ==
  /\ \A i, j \in DOMAIN line.picks : line.picks[i].group = line.picks[j].group => i = j
  /\ \A p \in ToSet(line.picks) :
       /\ p.group \in Ids(groups)
       /\ IsInjective(p.options)
       /\ \A o \in ToSet(p.options) : Offers(ById(groups, p.group), o)
  /\ \A g \in ToSet(groups) : Len(Picked(line, g)) \in g.least .. g.most

LineAccepted(c, line) ==
  /\ line.quantity \in 1 .. MaxQuantity
  /\ OnMenu(c, line)
  /\ c.restaurants[line.restaurant].open
  /\ c.menu[line.item].available
  /\ PicksAllowed(c.menu[line.item].groups, line)

Accepted(c, lines) ==
  /\ Len(lines) <= MaxLines
  /\ Distinct(lines)
  /\ \A i, j \in DOMAIN lines : lines[i].restaurant = lines[j].restaurant
  /\ \A i \in DOMAIN lines : LineAccepted(c, lines[i])

-----------------------------------------------------------------------------
(* The canonical form of a basket: names and prices from the menu, picks   *)
(* in the order of the menu, options that are no longer offered left out.  *)

CanonicalPicks(groups, line) ==
  LET chosen == Filter(groups, {g \in ToSet(groups) : PickAt(line, g) # 0})
  IN [k \in DOMAIN chosen |->
       [group   |-> chosen[k].id,
        options |-> LET picked == Picked(line, chosen[k]) IN
                    Filter(picked, {o \in ToSet(picked) : Offers(chosen[k], o)})]]

CanonicalLine(m, line) ==
  [id         |-> line.id,
   restaurant |-> line.restaurant,
   item       |-> line.item,
   name       |-> m.name,
   quantity   |-> line.quantity,
   price      |-> m.price,
   picks      |-> CanonicalPicks(m.groups, line)]

Canonical(c, lines) ==
  [i \in DOMAIN lines |-> CanonicalLine(c.menu[lines[i].item], lines[i])]

-----------------------------------------------------------------------------
(* The price of a canonical basket, in cents.                              *)

SumOf(amounts) == FoldLeft(LAMBDA a, b : a + b, 0, amounts)

PickCents(group, options) ==
  SumOf([k \in DOMAIN options |-> ById(group.options, options[k]).price])

PicksCents(groups, picks) ==
  SumOf([k \in DOMAIN picks |->
          PickCents(ById(groups, picks[k].group), picks[k].options)])

UnitCents(m, line) == m.price + PicksCents(m.groups, line.picks)

Subtotal(c, lines) ==
  SumOf([i \in DOMAIN lines |->
          UnitCents(c.menu[lines[i].item], lines[i]) * lines[i].quantity])
=============================================================================
