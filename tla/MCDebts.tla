------------------------------ MODULE MCDebts ------------------------------
(***************************************************************************)
(* A small ledger for TLC: one client and one to come, a creditor, one to  *)
(* come and the name of one who does not exist, three debts to the owner,  *)
(* and requests about them.                                                *)
(***************************************************************************)
EXTENDS Debts, TLC

CONSTANTS ann, bob, lender, usurer, nobody, monday, tuesday, friday

MCClient == {ann, bob}
MCCreditor == {lender, usurer, nobody}

\* The debt of Tuesday is settled already.
MCNewest == <<friday, tuesday, monday>>

MCInitRow ==
  [x \in MCClient \cup MCCreditor \cup {monday, tuesday, friday} \cup Req \cup {Entry(r) : r \in Req} |->
     CASE x = ann     -> [total_debt |-> 2, live |-> TRUE]
       [] x = lender  -> [total_debt |-> 3, live |-> TRUE]
       [] x = friday  -> [amount |-> 3, is_settled |-> FALSE]
       [] x = tuesday -> [amount |-> 1, is_settled |-> TRUE]
       [] x = monday  -> [amount |-> 2, is_settled |-> FALSE]
       [] OTHER       -> NoRow]

Pay(x, n) == [op |-> "payment", client |-> x, amount |-> n]
Loan(x, type, n) == [op |-> "loan", creditor |-> x, type |-> type, amount_uzs |-> n]
Deposit(n) == [op |-> "deposit", amount |-> n]
Rename(x) == [op |-> "rename", person |-> x]
Delete(x) == [op |-> "delete", person |-> x]

New(x) == [op |-> "create", person |-> x]

\* Four parts make a unit: some amounts end in a quarter or in a half. Deposits of
\* less than the newest debt, of exactly that, of all but a quarter and of more.
MCBody ==
  {Pay(ann, 4), Pay(ann, 14), Pay(bob, 2),
   Loan(lender, "receive", 7), Loan(lender, "repay", 6), Loan(nobody, "receive", 4),
   Loan(usurer, "receive", 2), Loan(usurer, "repay", 6),
   Deposit(8), Deposit(12), Deposit(19), Deposit(26),
   New(bob), New(usurer), Rename(ann), Rename(lender), Delete(ann), Delete(lender),
   Delete(usurer)}

Symmetry == Permutations(Req)
=============================================================================
