----------------------------- MODULE MCSessions -----------------------------
(***************************************************************************)
(* The catalogue of MCCatalogue and two sessions of the user pavel, who is *)
(* promoted, renamed and deleted meanwhile; one of olga's has expired.     *)
(***************************************************************************)
EXTENDS MCCatalogue, Sessions

CONSTANTS phone, desk, lapsed

MCPastToken == {phone, desk, lapsed}

MCInitToken ==
  [t \in Req \cup MCPastToken |->
     CASE t \in {phone, desk} -> [user |-> pavel, fresh |-> TRUE]
       [] t = lapsed -> [user |-> olga, fresh |-> FALSE]
       [] OTHER      -> NoRow]

Login(key) == [op |-> "login", login |-> key]
Refresh(t) == [op |-> "refresh", token |-> t]
Logout(t) == [op |-> "logout", token |-> t]

MCAuthBody ==
  {Login(4), Refresh(phone), Refresh(desk), Refresh(lapsed), Logout(phone)}
  \cup {Refresh(r) : r \in Req} \cup {Logout(r) : r \in Req}
=============================================================================
