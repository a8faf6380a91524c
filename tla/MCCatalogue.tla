----------------------------- MODULE MCCatalogue -----------------------------
(***************************************************************************)
(* A small catalogue for TLC: three brands and one that was deleted, two   *)
(* users, and the requests that touch them.                                *)
(***************************************************************************)
EXTENDS Catalogue, TLC

CONSTANTS acme, bolt, cord, dust, olga, pavel

MCPast == {acme, bolt, cord, dust, olga, pavel}

Brand(key) == [kind |-> "brand", key |-> key, live |-> TRUE]
User(key, role) == [kind |-> "user", key |-> key, role |-> role, live |-> TRUE]

MCInitRow ==
  [x \in Req \cup MCPast |->
     CASE x = acme  -> Brand(2)
       [] x = bolt  -> Brand(4)
       [] x = cord  -> Brand(6)
       [] x = dust  -> [Brand(5) EXCEPT !.live = FALSE]
       [] x = olga  -> User(2, "owner")
       [] x = pavel -> User(4, "employee")
       [] OTHER     -> NoRow]

New(row) == [op |-> "create", row |-> row]
Set(kind, x, key, role) ==
  [op |-> "update", kind |-> kind, entry |-> x, key |-> key, role |-> role]
Del(kind, x) == [op |-> "delete", kind |-> kind, entry |-> x]
List(limit) == [op |-> "list", limit |-> limit]

\* New brands come first, among the others or last, or have the name of the
\* deleted one; bolt is renamed to the end, or to a name that is taken.
MCBody ==
  {List(1), List(2),
   New(Brand(1)), New(Brand(3)), New(Brand(5)), New(Brand(7)),
   Set("brand", bolt, 7, NoRow), Set("brand", bolt, 6, NoRow), Set("brand", bolt, NoRow, NoRow),
   Del("brand", acme), Del("brand", bolt),
   New(User(4, "employee")), New(User(3, "employee")),
   Set("user", pavel, NoRow, "owner"), Set("user", pavel, 3, NoRow), Set("user", acme, 1, NoRow),
   Del("user", pavel)}
  \cup {Del("brand", r) : r \in Req} \cup {Set("brand", r, 5, NoRow) : r \in Req}

Symmetry == Permutations(Req)
=============================================================================
