----------------------------- MODULE MCPricing -----------------------------
(***************************************************************************)
(* A small catalogue, the edits it may undergo, and the baskets clients    *)
(* send: instances of Pricing for TLC.                                     *)
(***************************************************************************)
EXTENDS Pricing

Option(id, cents) == [id |-> id, name |-> id, price |-> cents, available |-> TRUE]

Group(id, type, required, options) ==
  [id |-> id, name |-> id, type |-> type, required |-> required,
   least |-> Unset, most |-> Unset, default |-> Unset, options |-> options]

Size   == Group("size", "single", TRUE, <<Option("small", 0), Option("large", 300)>>)
Extras == Group("extras", "multiple", FALSE, <<Option("cheese", 50), Option("bacon", 0)>>)

Dish(restaurant, cents, groups) ==
  [restaurant |-> restaurant, name |-> "dish", blurb |-> "plain", price |-> cents,
   available |-> TRUE, groups |-> groups]

\* 620 cents less the promotion leave 120, where 8.75 % is half a cent; 540 less
\* the promotion leave 40; tea is cheaper than the promotion.
Base ==
  [restaurants |-> [noor  |-> [open |-> TRUE, fee |-> 199],
                    other |-> [open |-> TRUE, fee |-> 0]],
   menu |-> [soup |-> Dish("noor", 620, <<Size, Extras>>),
             wrap |-> Dish("noor", 540, <<>>),
             tea  |-> Dish("noor", 300, <<>>),
             rice |-> Dish("other", 900, <<Extras>>)]]

AllCatalogs == {
  Base,
  [Base EXCEPT !.restaurants.noor.fee = 299],
  [Base EXCEPT !.restaurants.noor.open = FALSE],
  [Base EXCEPT !.restaurants.other.fee = 99, !.menu.rice.price = 950],
  [Base EXCEPT !.menu.soup.price = 650],
  [Base EXCEPT !.menu.soup.name = "broth"],
  [Base EXCEPT !.menu.soup.blurb = "hot"],
  [Base EXCEPT !.menu.tea.available = FALSE],
  [Base EXCEPT !.menu.soup.groups[2].options[1].price = 80],
  [Base EXCEPT !.menu.soup.groups[2].options[1].available = FALSE],
  [Base EXCEPT !.menu.soup.groups[2].most = 1],
  [Base EXCEPT !.menu.soup.groups[1].least = 1, !.menu.soup.groups[1].most = 1,
               !.menu.soup.groups[1].default = "small"],
  \* The default size sells out: no catalogue can be built from these tables.
  [Base EXCEPT !.menu.soup.groups[1].default = "small",
               !.menu.soup.groups[1].options[1].available = FALSE]}

Pick(group, options) == [group |-> group, options |-> options]
Line(id, restaurant, item, quantity, picks) ==
  [id |-> id, restaurant |-> restaurant, item |-> item, quantity |-> quantity,
   picks |-> picks]

Plain == Line("a", "noor", "soup", 1, <<Pick("size", <<"small">>)>>)
Full  == Line("b", "noor", "soup", 2,
  <<Pick("extras", <<"bacon", "cheese">>), Pick("size", <<"large">>)>>)
Tea   == Line("c", "noor", "tea", 1, <<>>)
Wrap  == Line("w", "noor", "wrap", 1, <<>>)

Wanted == {<<>>, <<Plain>>, <<Full, Tea>>, <<Tea>>,
  <<[Plain EXCEPT !.picks = @ \o <<Pick("extras", <<>>)>>]>>}
Mistaken == {
  <<[Plain EXCEPT !.picks = @ \o <<Pick("extras", <<"cheese", "cheese">>)>>]>>,
  <<[Plain EXCEPT !.picks = @ \o @]>>,
  <<[Plain EXCEPT !.picks = <<Pick("size", <<"small", "large">>)>>]>>,
  <<[Plain EXCEPT !.picks = <<>>]>>,
  <<[Tea EXCEPT !.quantity = 3]>>,
  <<Tea, Tea>>,
  <<Tea, [Plain EXCEPT !.restaurant = "other"]>>,
  <<Tea, Line("d", "other", "rice", 1, <<>>)>>,
  <<Plain, Tea, Wrap>>}
AllBaskets == Wanted \union Mistaken
=============================================================================
