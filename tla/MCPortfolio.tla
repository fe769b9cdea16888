---------------------------- MODULE MCPortfolio ----------------------------
(***************************************************************************)
(* Small instances of PortfolioFills, with one book of each market state.  *)
(***************************************************************************)
EXTENDS PortfolioFills

BookOf(bid, ask) ==
  [side \in Sides |-> IF side = "buy" THEN [p \in bid |-> 1] ELSE [p \in ask |-> 1]]

MCMarkBooks ==
  {EmptyBook, BookOf({1}, {}), BookOf({1}, {2}), BookOf({3}, {3}), BookOf({3}, {1})}

\* Fill ids are only ever compared for being the same, so that states go on
\* alike if the same places of their ledgers have the same id.
PortfolioView ==
  [portfolio EXCEPT !.ledger =
     [k \in DOMAIN @ |-> [@[k] EXCEPT !.seq = Min({j \in DOMAIN portfolio.ledger :
                                                     portfolio.ledger[j].seq = portfolio.ledger[k].seq})]]]
=============================================================================
