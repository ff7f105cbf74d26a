----------------------------- MODULE Portfolio ------------------------------
(***************************************************************************)
(* The bot's picture of its account (internal/risk/portfolio.go): the      *)
(* balance, the value of its positions, and their total, as the last       *)
(* Refresh left them.  Refresh reads the user first and the portfolio      *)
(* second; each operator below is what one outcome of those two calls      *)
(* makes of the picture.                                                   *)
(***************************************************************************)
EXTENDS Naturals

PortfolioRecord == [balance : Nat, investment : Nat, total : Nat]

NewPortfolio == [balance |-> 0, investment |-> 0, total |-> 0]

(* The user was read: only the balance is assigned yet. *)
WithBalance(pf, balance) == [pf EXCEPT !.balance = balance]

(* Faulty: the total is made of the positions of the last time. *)
WithInvestmentLate(pf, investment) ==
    [pf EXCEPT !.investment = investment, !.total = pf.balance + pf.investment]

(* The portfolio was read too. *)
WithInvestment(pf, investment) ==
    [pf EXCEPT !.investment = investment, !.total = pf.balance + investment]

(* GetUserPortfolio failed: "we at least have the balance". *)
WithoutInvestment(pf) == [pf EXCEPT !.investment = 0, !.total = pf.balance]

(* GetUserPortfolio returned nil: investment and total keep their values. *)
NilInvestment(pf) == pf

=============================================================================
