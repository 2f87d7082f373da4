------------------------------ MODULE TradeRules ------------------------------
(***************************************************************************)
(* The trader's rules as questions and answers: a question is put, the rule *)
(* answers it, and the answer is held against what the rule is for.         *)
(***************************************************************************)
EXTENDS OrderRules

CONSTANTS
  Sales,   \* questions [settings, key, row, moving_avg, book, order]
  Bids,    \* questions [settings, key, moving_avg, book, order, owned, bids]
  Wishes,  \* questions [settings, key, row, avg_price, book, order]
  Budgets, \* questions [bids, cap]
  Markets  \* questions [inferred, closed, mode, guard_pct, basis, wtb, items]

VARIABLES question, rule, answer

rules == <<question, rule, answer>>

NoAnswer == <<"none">>

RulesInit ==
  /\ answer = NoAnswer
  /\ \/ rule = "sale" /\ question \in Sales
     \/ rule = "bid" /\ question \in Bids
     \/ rule = "wish" /\ question \in Wishes
     \/ rule = "fit" /\ question \in Budgets
     \/ rule = "rank" /\ question \in Markets

Ask(r, a) ==
  /\ rule = r /\ answer = NoAnswer
  /\ answer' = <<"answer", a>>
  /\ UNCHANGED <<question, rule>>

SaleOf(q) == progress_selling(q.settings, q.key, q.row, q.moving_avg, q.book, q.order)
BidOf(q) == progress_buying(q.settings, q.key, q.moving_avg, q.book, q.order, q.owned, q.bids)
AskSale == Ask("sale", SaleOf(question))
AskBid == Ask("bid", BidOf(question))
AskWish == Ask("wish", progress_wish_list(question.settings, question.key, question.row,
                                          question.avg_price, question.book, question.order))
FitOf(q) == knapsack(q.bids, q.cap)
AskFit == Ask("fit", FitOf(question))

\* The price source is loaded for the trader, which takes its candidates.
Priced(q) == {from_effective(e, q.items[e.stats.key.wfm]) :
                e \in blend(q.inferred, q.closed, q.mode, q.guard_pct, q.basis)}
RankOf(q) == [candidates |-> get_interesting_items(q.wtb, Priced(q)),
              compared |-> compare_rankings(q.wtb, Priced(q))]
AskRank == Ask("rank", RankOf(question))

RulesNext == AskSale \/ AskBid \/ AskWish \/ AskFit \/ AskRank

RulesSpec == RulesInit /\ [][RulesNext]_rules

Answered(r) == rule = r /\ answer # NoAnswer

\* Inductive: the answer is the rule's, to a question of its kind.
RulesInv ==
  /\ rule = "sale" => question \in Sales /\ answer \in {NoAnswer, <<"answer", SaleOf(question)>>}
  /\ rule = "bid" => question \in Bids /\ answer \in {NoAnswer, <<"answer", BidOf(question)>>}
  /\ rule = "fit" => question \in Budgets /\ answer \in {NoAnswer, <<"answer", FitOf(question)>>}
  /\ rule = "rank" => question \in Markets /\ answer \in {NoAnswer, <<"answer", RankOf(question)>>}

-----------------------------------------------------------------------------
\* A sale is never posted below the floors its owner set: the row's minimum
\* price and the profit over what was paid, whatever the market, the moving
\* average and the price-drop limit made of the price on the way
\* (progress_selling).
SalesKeepTheirFloors ==
  Answered("sale") /\ answer[2].order.act = "post" =>
    LET price == answer[2].order.price
        row == question.row
        profit == SaleFields(row, question.settings).min_profit
    IN /\ price >= 1
       /\ row.min_price # None => price >= row.min_price[1]
       /\ ~is_disabled(profit) => price >= row.bought + profit

\* A bid is posted only at a price its caps allow: the item's own maximum, the
\* average-price cap and the moving average hold for the price that is sent,
\* although each is compared with a different one on the way
\* (progress_buying).  Bids are never below 1.
BidsKeepTheirCaps ==
  Answered("bid") /\ answer[2].act = "post" =>
    LET price == answer[2].price
        max_price == get_item_max_price(question.settings.general, question.key.wfm)
        cap == question.settings.wtb.avg_price_cap
    IN /\ price >= 1
       /\ max_price > 0 => price <= max_price
       /\ ~is_disabled(cap) => price <= Larger(cap, 1)
       /\ price <= Larger(unwrap_or(question.moving_avg, 0), 1)

\* The bids the knapsack keeps fit under the cap, and no other choice of bids
\* that fits would earn more (knapsack, against its definition).
Total(bids, S, F(_)) == MapThenSumSet(LAMBDA n : F(bids[n]), S)
KnapsackIsOptimal ==
  Answered("fit") =>
    LET bids == question.bids
        cap == Larger(question.cap, 0)
        Fits(S) == Total(bids, S, Weight) <= cap
        Earns(S) == Total(bids, S, LAMBDA b : b.profit)
    IN /\ Fits(answer[2])
       /\ \A S \in SUBSET DOMAIN bids : Fits(S) => Earns(S) <= Earns(answer[2])

\* While a profit is asked for, a key the collector has never seen takes no
\* candidate slot: it could not be traded live (merge, filtered_items).
UnseenKeysWinNoSlot ==
  Answered("rank") /\ ~is_disabled(question.wtb.profit_threshold) =>
    \A n \in DOMAIN answer[2].candidates :
       \E i \in question.inferred : i.key = answer[2].candidates[n].key
=============================================================================
