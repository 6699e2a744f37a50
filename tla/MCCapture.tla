----------------------------- MODULE MCCapture -----------------------------
(* Capture with five ways to start it, each with its own price list.       *)
EXTENDS Capture

Setting(runtime, source, byMode, special, kendoo, echo) ==
  [runtime |-> runtime, source |-> source, byMode |-> byMode, special |-> special,
   fields |-> {"map"}, factor |-> TRUE, kendoo |-> kendoo, echo |-> echo]
AllSetups ==
  {Setting(TRUE, "official", TRUE, FALSE, TRUE, "from zero"),
   Setting(TRUE, "wx", TRUE, TRUE, FALSE, "same"),
   Setting(FALSE, "official", FALSE, FALSE, FALSE, "none"),
   Setting(FALSE, "ggx", TRUE, FALSE, FALSE, "same"),
   [Setting(FALSE, "ggx", TRUE, FALSE, FALSE, "same") EXCEPT !.fields = {"map", "freespin"}]}

Offer(sold, actions) ==
  [sold |-> sold, available |-> {}, boosters |-> {1}, actions |-> actions, unfinished |-> FALSE]
AllOffers ==
  {Offer({2}, {"spin", "buy_spin"}), Offer({}, {"spin"}),
   [Offer({2}, {"freespin"}) EXCEPT !.unfinished = TRUE]}

Draw(state, granted, win, next, finished, board) ==
  [state |-> state, granted |-> granted, win |-> win, next |-> next, finished |-> finished, board |-> board]
BetDraws ==
  {Draw("spins", None, 0, "none", TRUE, 1), Draw("freespins", 1, 1, "freespin", FALSE, 1)}
FreeDraws ==
  {Draw("freespins", 2, 0, "none", TRUE, 1), Draw("spins", None, 0, "spin", FALSE, 1),
   Draw("freespins", 1, 0, "freespin", FALSE, 1)}

\* A purchase kept as a test sample beside a lost round, or one that was never finished.
Kept(action, mode, features) ==
  [data |-> <<[action |-> action, mode |-> mode, ante |-> FALSE, state |-> "spins", granted |-> None,
               board |-> 3, win |-> 0, offers |-> {"spin"}, finished |-> TRUE]>>,
   buy |-> mode, testOnly |-> mode > 0, features |-> {Loss, <<action, 0>>} \cup features]
Sample == Kept("buy_spin", 2, {<<"bonus-buy", 0>>, <<"buy-bonus", 2>>})
SampleHistories ==
  {{Sample, Kept("spin", 0, {})}, {[Sample EXCEPT !.data[1].finished = FALSE]}}

\* Mongo may have the purchase the quota asks for.
AllLeads == {[t \in DeclaredTypes |-> IF t = 2 THEN n ELSE 0] : n \in 0..1}
AllFaults == {"SERVER_ERROR", "fetch failed", "HTTP_404", "CLIENT_ERROR"}
=============================================================================
