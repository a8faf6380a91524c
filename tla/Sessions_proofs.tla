--------------------------- MODULE Sessions_proofs ---------------------------
(***************************************************************************)
(* ClaimsAreCurrent and GoneIsGone of Sessions, its types, and the         *)
(* properties of the entries and of their pages that Catalogue_proofs      *)
(* proves while nobody logs in, for any users, tokens and requests. A      *)
(* claim is current because the statement that reads the user falls within *)
(* the request; a token that is gone stays gone because the request that   *)
(* made it has ended.                                                      *)
(***************************************************************************)
EXTENDS Catalogue_proofs

SessionTypes ==
  /\ tokens \in [Token -> TokenRow \cup {NoRow}]
  /\ holder \in [Req -> Id \cup {NoRow}]
  /\ claimable \in [Req -> SUBSET Claim]
  /\ late \in [Req -> BOOLEAN]

Identifies(op) == op \in {"login", "refresh"}

\* What the earlier statements of a login, an exchange or a logout established.
Secured(r) ==
  /\ pc[r] = "login" => call[r].op = "login"
  /\ pc[r] \in {"exists", "user"} => call[r].op = "refresh"
  /\ pc[r] = "token" => Identifies(call[r].op)
  /\ pc[r] \in {"exists", "revoke"} => call[r] \in ExchangeBody /\ Given(call[r])
  /\ pc[r] \in {"count", "rows"} => call[r].op = "list"
  /\ (pc[r] \in {"login", "user", "token"} \/ (pc[r] = "revoke" /\ call[r].op = "refresh")) =>
       ~late[r]
  /\ pc[r] = "exists" /\ late[r] => tokens[call[r].token] = NoRow
  /\ (pc[r] = "user" \/ (pc[r] = "revoke" /\ call[r].op = "refresh")) => holder[r] \in Id
  /\ pc[r] = "token" => holder[r] \in Id
  /\ (pc[r] = "token" \/ r \in Issued) =>
       [user |-> holder[r], role |-> found[r].role] \in claimable[r]
  /\ r \in Issued => ~late[r]

SessionsInv == Inv /\ SessionTypes /\ \A r \in Req : Secured(r)

-----------------------------------------------------------------------------
(* The history variable grows while a request authenticates a user, and    *)
(* keeps its type.                                                         *)
LEMMA ClaimableTypes ==
  ASSUME SessionTypes, Types', Watch
  PROVE  /\ claimable' \in [Req -> SUBSET Claim]
         /\ \A q \in Req : pc'[q] # "failed" => claimable[q] \subseteq claimable'[q]
         /\ \A q \in Req : Authenticating(q)' => ClaimsNow' \subseteq claimable'[q]
<1>1. ClaimsNow' \subseteq Claim
  BY DEF ClaimsNow, Claim, Live, Kind, Types, EntryRow, BrandRow, UserRow
<1>2. \A q \in Req : claimable'[q] =
        CASE Authenticating(q)' -> claimable[q] \cup ClaimsNow'
          [] pc'[q] = "failed"  -> {}
          [] OTHER              -> claimable[q]
  BY DEF Watch
<1>3. \A q \in Req : claimable[q] \subseteq Claim
  BY DEF SessionTypes
<1>4. ASSUME NEW q \in Req
      PROVE  /\ claimable'[q] \subseteq Claim
             /\ pc'[q] # "failed" => claimable[q] \subseteq claimable'[q]
             /\ Authenticating(q)' => ClaimsNow' \subseteq claimable'[q]
  <2>1. CASE Authenticating(q)'
    <3>1. pc'[q] # "failed"
      BY <2>1 DEF Authenticating, InFlight
    <3>2. claimable'[q] = claimable[q] \cup ClaimsNow'
      BY <1>2, <2>1, <3>1
    <3> QED
      BY <1>1, <1>3, <2>1, <3>2
  <2>2. CASE ~Authenticating(q)' /\ pc'[q] = "failed"
    BY <1>2, <2>2
  <2>3. CASE ~Authenticating(q)' /\ pc'[q] # "failed"
    BY <1>2, <1>3, <2>3
  <2> QED
    BY <2>1, <2>2, <2>3
<1> QED
  BY <1>4 DEF Watch

(* What the request of another client established is not undone: a token   *)
(* that is gone comes back only while the request that makes it is under   *)
(* way, and until that has answered no client has the token.               *)
LEMMA OtherKept ==
  ASSUME SessionsInv, Types', Watch, NEW q \in Req,
         pc'[q] = pc[q], call'[q] = call[q], found'[q] = found[q],
         holder'[q] = holder[q], late'[q] = late[q],
         \A t \in Req : pc[t] = "ok" => pc'[t] = "ok",
         \A t \in Token : (tokens[t] = NoRow /\ (t \in PastToken \/ pc[t] = "ok")) =>
                            tokens'[t] = NoRow
  PROVE  Secured(q)'
<1>1. Secured(q) /\ SessionTypes
  BY DEF SessionsInv
<1>2. pc[q] # "failed" => claimable[q] \subseteq claimable'[q]
  BY <1>1, ClaimableTypes
<1>3. q \in Issued' <=> q \in Issued
  BY DEF Issued
<1>4. (pc'[q] = "token" \/ q \in Issued') =>
        [user |-> holder'[q], role |-> found'[q].role] \in claimable'[q]
  BY <1>1, <1>2, <1>3 DEF Secured, Issued
<1>5. pc'[q] \in {"exists", "revoke"} =>
        /\ call'[q] \in ExchangeBody
        /\ call'[q].op # "login" => call'[q].token \in PastToken \/ pc'[call'[q].token] = "ok"
  <2>1. SUFFICES ASSUME pc[q] \in {"exists", "revoke"}
                 PROVE  /\ call[q] \in ExchangeBody
                        /\ call[q].op # "login" =>
                             call[q].token \in PastToken \/ pc'[call[q].token] = "ok"
    OBVIOUS
  <2>2. call[q] \in ExchangeBody /\ Given(call[q])
    BY <1>1, <2>1 DEF Secured
  <2>3. call[q].token \in Req \cup PastToken
    BY <2>2 DEF ExchangeBody, Token
  <2> QED
    BY <2>2, <2>3 DEF Given
<1>6. (pc'[q] = "exists" /\ late'[q]) => tokens'[call'[q].token] = NoRow
  <2>1. SUFFICES ASSUME pc[q] = "exists", late[q] PROVE tokens'[call[q].token] = NoRow
    OBVIOUS
  <2>2. call[q] \in ExchangeBody /\ Given(call[q]) /\ tokens[call[q].token] = NoRow
    BY <1>1, <2>1 DEF Secured
  <2>3. call[q].token \in Token /\ call[q].op # "login"
    BY <2>2 DEF ExchangeBody
  <2> QED
    BY <2>2, <2>3 DEF Given
<1> QED
  BY <1>1, <1>3, <1>4, <1>5, <1>6 DEF Secured, Given, Issued

(* A request that is in none of the statements of this module, and issues  *)
(* no tokens, has nothing to establish.                                    *)
LEMMA ElsewhereSecured ==
  ASSUME NEW r \in Req,
         \/ pc'[r] \in {"idle", "failed"}
         \/ pc'[r] \in Statement /\ ~Identifies(call'[r].op) /\ pc'[r] \notin {"count", "rows"}
         \/ pc'[r] \in {"count", "rows"} /\ call'[r].op = "list"
  PROVE  Secured(r)'
BY DEF Secured, Statement, Issued, Identifies

-----------------------------------------------------------------------------
LEMMA SessionsInvInit == SessionsInit => SessionsInv
<1> SUFFICES ASSUME SessionsInit PROVE SessionsInv
  OBVIOUS
<1>1. Inv
  BY InvInit DEF SessionsInit
<1>2. SessionTypes
  BY InitTokenAssumption DEF SessionsInit, SessionTypes
<1>3. ASSUME NEW r \in Req PROVE Secured(r)
  BY <1>3 DEF SessionsInit, Init, Secured, Issued
<1> QED
  BY <1>1, <1>2, <1>3 DEF SessionsInv

(* The catalogue interleaves with the sessions: its steps establish        *)
(* nothing for a session and undo nothing.                                 *)
LEMMA CatalogueStep ==
  ASSUME SessionsInv, Next, UNCHANGED <<session, late>>, Watch
  PROVE  SessionsInv'
<1>1. Inv'
  BY InvStep DEF SessionsInv
<1>2. Types' /\ Types /\ SessionTypes
  BY <1>1 DEF Inv, SessionsInv
<1>3. SessionTypes'
  BY <1>2, ClaimableTypes DEF SessionTypes, session
<1>4. PICK r \in Req :
        \/ Receive(r) \/ Fail(r)
        \/ CreateEntry(r) \/ GetEntry(r) \/ PutEntry(r) \/ RemoveEntry(r)
        \/ CountBrands(r) \/ ReadPage(r)
  BY DEF Next
<1>5. Control(r) /\ Secured(r)
  BY DEF SessionsInv, Inv
<1>6. /\ \/ pc'[r] = "failed"
         \/ pc'[r] \in Statement /\ ~Identifies(call'[r].op) /\ pc'[r] \notin {"count", "rows"}
         \/ pc'[r] \in {"count", "rows"} /\ call'[r].op = "list"
      /\ pc[r] # "ok"
      /\ \A q \in Req \ {r} : pc'[q] = pc[q] /\ call'[q] = call[q] /\ found'[q] = found[q]
  <2>1. CASE Refuse(r) /\ pc[r] # "ok"
    BY <2>1, <1>2 DEF Refuse, Goto, Types
  <2>2. CASE Receive(r)
    <3>1. PICK b \in Body :
            /\ call' = [call EXCEPT ![r] = b]
            /\ pc' = [pc EXCEPT ![r] = CASE b.op = "create" -> "insert"
                                         [] b.op = "update" -> "get"
                                         [] b.op = "delete" -> "delete"
                                         [] b.op = "list"   -> "count"]
      BY <2>2 DEF Receive, Goto
    <3>2. pc[r] = "idle" /\ found' = found
      BY <2>2 DEF Receive
    <3>3. \/ b.op = "create" /\ pc' = [pc EXCEPT ![r] = "insert"]
          \/ b.op = "update" /\ pc' = [pc EXCEPT ![r] = "get"]
          \/ b.op = "delete" /\ pc' = [pc EXCEPT ![r] = "delete"]
          \/ b.op = "list" /\ pc' = [pc EXCEPT ![r] = "count"]
      <4>1. b \in CreateBody \cup UpdateBody \cup DeleteBody \cup ListBody
        BY BodyAssumption
      <4> QED
        BY <3>1, <4>1 DEF CreateBody, UpdateBody, DeleteBody, ListBody
    <3>4. \A q \in Req \ {r} : pc'[q] = pc[q] /\ call'[q] = call[q]
      BY <3>1, <3>3, <1>2 DEF Types
    <3>5. call'[r] = b
      BY <3>1, <1>2 DEF Types
    <3>6. \/ b.op = "create" /\ pc'[r] = "insert"
          \/ b.op = "update" /\ pc'[r] = "get"
          \/ b.op = "delete" /\ pc'[r] = "delete"
          \/ b.op = "list" /\ pc'[r] = "count"
      BY <3>3, <1>2 DEF Types
    <3> QED
      BY <3>2, <3>4, <3>5, <3>6 DEF Statement, Identifies
  <2>3. CASE CreateEntry(r) /\ ~Refuse(r)
    <3>1. /\ pc[r] = "insert" /\ call' = call /\ found' = found
          /\ pc' = [pc EXCEPT ![r] = "ok"] \/ pc' = [pc EXCEPT ![r] = "failed"]
      BY <2>3 DEF CreateEntry, Answer, Goto
    <3>2. call[r].op = "create"
      BY <3>1, <1>5 DEF Control, CreateBody
    <3> QED
      BY <3>1, <3>2, <1>2 DEF Types, Statement, Identifies
  <2>4. CASE GetEntry(r) /\ ~Refuse(r)
    <3>1. /\ pc[r] = "get" /\ call' = call /\ pc' = [pc EXCEPT ![r] = "put"]
          /\ found' = [found EXCEPT ![r] = table[call[r].entry]]
      BY <2>4 DEF GetEntry, Goto
    <3>2. call[r].op = "update"
      BY <3>1, <1>5 DEF Control, UpdateBody
    <3> QED
      BY <3>1, <3>2, <1>2 DEF Types, Statement, Identifies
  <2>5. CASE PutEntry(r) /\ ~Refuse(r)
    <3>1. /\ pc[r] = "put" /\ call' = call /\ found' = found
          /\ pc' = [pc EXCEPT ![r] = "ok"] \/ pc' = [pc EXCEPT ![r] = "failed"]
      BY <2>5 DEF PutEntry, Answer, Goto
    <3>2. call[r].op = "update"
      BY <3>1, <1>5 DEF Control, UpdateBody
    <3> QED
      BY <3>1, <3>2, <1>2 DEF Types, Statement, Identifies
  <2>6. CASE RemoveEntry(r) /\ ~Refuse(r)
    <3>1. /\ pc[r] = "delete" /\ call' = call /\ found' = found
          /\ pc' = [pc EXCEPT ![r] = "ok"] \/ pc' = [pc EXCEPT ![r] = "failed"]
      BY <2>6 DEF RemoveEntry, Answer, Goto
    <3>2. call[r].op = "delete"
      BY <3>1, <1>5 DEF Control, DeleteBody
    <3> QED
      BY <3>1, <3>2, <1>2 DEF Types, Statement, Identifies
  <2>7. CASE CountBrands(r) \/ ReadPage(r)
    <3>1. /\ pc[r] \in {"count", "rows"} /\ call' = call /\ found' = found
          /\ \E s \in {"ok", "count", "rows"} : pc' = [pc EXCEPT ![r] = s]
      BY <2>7 DEF CountBrands, ReadPage, Goto
    <3>2. call[r].op = "list"
      BY <3>1, <1>5 DEF Secured
    <3> QED
      BY <3>1, <3>2, <1>2 DEF Types, Statement, Identifies
  <2> QED
    BY <1>4, <2>1, <2>2, <2>3, <2>4, <2>5, <2>6, <2>7
       DEF Fail, InFlight, CreateEntry, GetEntry, PutEntry, RemoveEntry
<1>7. ASSUME NEW q \in Req PROVE Secured(q)'
  <2>1. CASE q = r
    BY <1>6, <2>1, ElsewhereSecured
  <2>2. CASE q # r
    <3>1. UNCHANGED <<tokens, holder, late>>
      BY DEF session
    <3>2. \A t \in Req : pc[t] = "ok" => pc'[t] = "ok"
      BY <1>6
    <3> QED
      BY <3>1, <3>2, <1>2, <1>6, <2>2, OtherKept
  <2> QED
    BY <2>1, <2>2
<1> QED
  BY <1>1, <1>3, <1>7 DEF SessionsInv

-----------------------------------------------------------------------------
(* A step of a session leaves the entries alone. What it establishes for   *)
(* its own request is the second half of what each case below shows.       *)
LEMMA AuthStepKeeps ==
  ASSUME SessionsInv, NEW r \in Req, NEW s \in (Statement \cup AuthStatement),
         s \notin {"idle", "insert", "get", "put", "delete"},
         NEW e \in {f \in EntryRow : f.live} \cup {NoRow},
         pc[r] # "ok",
         pc' = [pc EXCEPT ![r] = s], found' = [found EXCEPT ![r] = e],
         UNCHANGED <<table, call>>,
         holder' \in [Req -> Id \cup {NoRow}],
         \A q \in Req \ {r} : holder'[q] = holder[q],
         late' = late,
         tokens' \in [Token -> TokenRow \cup {NoRow}],
         \A t \in Token : (tokens[t] = NoRow /\ (t \in PastToken \/ pc[t] = "ok")) =>
                            tokens'[t] = NoRow,
         Watch,
         Secured(r)'
  PROVE  SessionsInv'
<1>1. Inv'
  BY ReadersStep DEF SessionsInv
<1>2. Types' /\ Types /\ SessionTypes
  BY <1>1 DEF Inv, SessionsInv
<1>3. SessionTypes'
  BY <1>2, ClaimableTypes DEF SessionTypes
<1>4. ASSUME NEW q \in Req \ {r} PROVE Secured(q)'
  <2>1. pc'[q] = pc[q] /\ call'[q] = call[q] /\ found'[q] = found[q] /\ late'[q] = late[q]
    BY <1>2 DEF Types
  <2>2. \A t \in Req : pc[t] = "ok" => pc'[t] = "ok"
    BY <1>2 DEF Types
  <2> QED
    BY <1>2, <2>1, <2>2, OtherKept
<1> QED
  BY <1>1, <1>3, <1>4 DEF SessionsInv

(* An error return within a session.                                       *)
LEMMA AuthRefused ==
  ASSUME SessionsInv, NEW r \in Req, Refuse(r), pc[r] # "ok", UNCHANGED <<session, late>>, Watch
  PROVE  SessionsInv'
<1>1. pc' = [pc EXCEPT ![r] = "failed"] /\ found' = [found EXCEPT ![r] = NoRow]
      /\ UNCHANGED <<table, call, tokens, holder, late>>
  BY DEF Refuse, Goto, session
<1>2. Types /\ SessionTypes
  BY DEF SessionsInv, Inv
<1>3. pc'[r] = "failed"
  BY <1>1, <1>2 DEF Types
<1>4. Secured(r)'
  BY <1>3, ElsewhereSecured
<1>5. holder' \in [Req -> Id \cup {NoRow}] /\ tokens' \in [Token -> TokenRow \cup {NoRow}]
  BY <1>1, <1>2 DEF SessionTypes
<1> QED
  BY <1>1, <1>4, <1>5, AuthStepKeeps DEF Statement

LEMMA ReceiveAuthStep ==
  ASSUME SessionsInv, NEW r \in Req, ReceiveAuth(r), Watch
  PROVE  SessionsInv'
<1>1. Types /\ SessionTypes /\ \A q \in Req : Control(q) /\ Secured(q)
  BY DEF SessionsInv, Inv
<1>2. PICK b \in AuthBody :
        /\ Given(b)
        /\ call' = [call EXCEPT ![r] = b]
        /\ pc' = [pc EXCEPT ![r] = CASE b.op = "login"   -> "login"
                                     [] b.op = "refresh" -> "exists"
                                     [] b.op = "logout"  -> "revoke"]
        /\ late' = [late EXCEPT ![r] = b.op # "login" /\ tokens[b.token] = NoRow]
  BY DEF ReceiveAuth, Goto
<1>3. pc[r] = "idle" /\ UNCHANGED <<table, found, tokens, holder>>
  BY DEF ReceiveAuth, session
<1>4. b \in LoginBody \cup ExchangeBody
  BY AuthBodyAssumption
<1>5. \/ b.op = "login" /\ pc' = [pc EXCEPT ![r] = "login"]
      \/ b \in ExchangeBody /\ b.op = "refresh" /\ pc' = [pc EXCEPT ![r] = "exists"]
      \/ b \in ExchangeBody /\ b.op = "logout" /\ pc' = [pc EXCEPT ![r] = "revoke"]
  BY <1>2, <1>4 DEF LoginBody, ExchangeBody
<1>6. Types'
  BY <1>1, <1>2, <1>3, <1>5 DEF Types, AuthStatement
<1>7. \A q \in Req \ {r} : pc'[q] = pc[q] /\ call'[q] = call[q] /\ late'[q] = late[q]
  BY <1>1, <1>2, <1>5 DEF Types, SessionTypes
<1>8. /\ call'[r] = b
      /\ late'[r] = (b.op # "login" /\ tokens[b.token] = NoRow)
  BY <1>1, <1>2 DEF Types, SessionTypes
<1>9. \/ b.op = "login" /\ pc'[r] = "login"
      \/ b \in ExchangeBody /\ b.op = "refresh" /\ pc'[r] = "exists"
      \/ b \in ExchangeBody /\ b.op = "logout" /\ pc'[r] = "revoke"
  BY <1>1, <1>5 DEF Types
<1>10. Inv'
  <2>1. KeysUnique'
    BY <1>3 DEF SessionsInv, Inv, KeysUnique
  <2>2. ASSUME NEW q \in Req PROVE Control(q)'
    <3>1. CASE q = r
      BY <1>9, <3>1 DEF Control
    <3>2. CASE q # r
      BY <1>1, <1>3, <1>7, <3>2 DEF Control
    <3> QED
      BY <3>1, <3>2
  <2> QED
    BY <1>6, <2>1, <2>2 DEF Inv
<1>11. SessionTypes'
  <2>1. late' \in [Req -> BOOLEAN]
    BY <1>1, <1>2 DEF SessionTypes
  <2> QED
    BY <1>1, <1>3, <1>6, <2>1, ClaimableTypes DEF SessionTypes
<1>12. ASSUME NEW q \in Req PROVE Secured(q)'
  <2>1. CASE q = r
    <3>1. CASE b.op = "login"
      BY <1>8, <1>9, <2>1, <3>1 DEF Secured, Issued
    <3>2. CASE b \in ExchangeBody
      <4>1. Given(b)'
        <5>1. b.op # "login" => b.token \in PastToken \/ pc[b.token] = "ok"
          BY <1>2 DEF Given
        <5>2. b.token \in Req => (pc[b.token] = "ok" => pc'[b.token] = "ok")
          BY <1>3, <1>7
        <5>3. b.token \in Req \cup PastToken
          BY <3>2 DEF ExchangeBody, Token
        <5> QED
          BY <5>1, <5>2, <5>3 DEF Given
      <4>2. b.op # "login"
        BY <3>2 DEF ExchangeBody
      <4>3. pc'[r] = "exists" /\ late'[r] => tokens'[b.token] = NoRow
        BY <1>3, <1>8
      <4> QED
        BY <1>8, <1>9, <2>1, <3>2, <4>1, <4>2, <4>3 DEF Secured, Issued, Given
    <3> QED
      BY <1>4, <3>1, <3>2 DEF LoginBody
  <2>2. CASE q # r
    <3>1. \A t \in Req : pc[t] = "ok" => pc'[t] = "ok"
      BY <1>3, <1>7
    <3> QED
      BY <1>3, <1>6, <1>7, <2>2, <3>1, OtherKept
  <2> QED
    BY <2>1, <2>2
<1> QED
  BY <1>10, <1>11, <1>12 DEF SessionsInv

(* The statement that reads the user of a session: what it reads can be    *)
(* claimed of him then, and the request has arrived before.                *)
LEMMA UserIsRead ==
  ASSUME SessionsInv, NEW r \in Req, NEW x \in Id, Live(x, "user"),
         pc[r] # "ok", Identifies(call[r].op), ~late[r],
         holder' \in [Req -> Id \cup {NoRow}], holder'[r] = x,
         \A q \in Req \ {r} : holder'[q] = holder[q],
         found' = [found EXCEPT ![r] = table[x]],
         pc' = [pc EXCEPT ![r] = "token"],
         UNCHANGED <<table, call, tokens, late>>, Watch
  PROVE  SessionsInv'
<1>1. Types /\ SessionTypes
  BY DEF SessionsInv, Inv
<1>2. table[x] \in {f \in EntryRow : f.live}
  BY <1>1 DEF Live, Kind, Types
<1>3. Types'
  BY <1>1, <1>2 DEF Types, AuthStatement
<1>4. pc'[r] = "token" /\ found'[r] = table[x]
  BY <1>1 DEF Types
<1>5. Authenticating(r)'
  BY <1>4 DEF Authenticating, InFlight, Identifies
<1>6. [user |-> x, role |-> table[x].role] \in ClaimsNow'
  BY DEF ClaimsNow, Live, Kind
<1>7. [user |-> x, role |-> table[x].role] \in claimable'[r]
  BY <1>1, <1>3, <1>5, <1>6, ClaimableTypes
<1>8. Secured(r)'
  BY <1>4, <1>7 DEF Secured, Issued, Identifies
<1>9. tokens' \in [Token -> TokenRow \cup {NoRow}]
  BY <1>1 DEF SessionTypes
<1> HIDE DEF Types
<1> QED
  BY <1>2, <1>8, <1>9, AuthStepKeeps DEF AuthStatement

LEMMA AuthStepInv ==
  ASSUME SessionsInv, NEW r \in Req, AuthStep(r), Watch
  PROVE  SessionsInv'
<1>1. Types /\ SessionTypes /\ Secured(r)
  BY DEF SessionsInv, Inv
<1>2. found[r] \in {f \in EntryRow : f.live} \cup {NoRow}
  BY <1>1 DEF Types
<1>3. found' = found => found' = [found EXCEPT ![r] = found[r]]
  BY <1>1 DEF Types
<1>4. CASE ReceiveAuth(r)
  BY <1>4, ReceiveAuthStep
<1>5. CASE GetByLogin(r)
  <2>1. CASE Refuse(r) /\ UNCHANGED <<session, late>>
    BY <1>5, <2>1, AuthRefused DEF GetByLogin
  <2>2. CASE ~(Refuse(r) /\ UNCHANGED <<session, late>>)
    <3>1. pc[r] = "login"
      BY <1>5 DEF GetByLogin
    <3>2. PICK x \in Id :
            /\ Live(x, "user")
            /\ holder' = [holder EXCEPT ![r] = x]
            /\ found' = [found EXCEPT ![r] = table[x]]
            /\ pc' = [pc EXCEPT ![r] = "token"]
            /\ UNCHANGED <<table, call, tokens, late>>
      BY <1>5, <2>2 DEF GetByLogin, Goto
    <3>3. Identifies(call[r].op) /\ ~late[r]
      BY <1>1, <3>1 DEF Secured, Identifies
    <3>4. /\ holder' \in [Req -> Id \cup {NoRow}] /\ holder'[r] = x
          /\ \A q \in Req \ {r} : holder'[q] = holder[q]
      BY <1>1, <3>2 DEF SessionTypes
    <3> QED
      BY <3>1, <3>2, <3>3, <3>4, UserIsRead
  <2> QED
    BY <2>1, <2>2
<1>6. CASE ExistsByHash(r)
  <2>1. CASE Refuse(r) /\ UNCHANGED <<session, late>>
    BY <1>6, <2>1, AuthRefused DEF ExistsByHash
  <2>2. CASE ~(Refuse(r) /\ UNCHANGED <<session, late>>)
    <3> DEFINE t == call[r].token
    <3>1. /\ pc[r] = "exists" /\ Valid(t)
          /\ holder' = [holder EXCEPT ![r] = tokens[t].user]
          /\ pc' = [pc EXCEPT ![r] = "revoke"]
          /\ UNCHANGED <<table, call, found, tokens, late>>
      BY <1>6, <2>2 DEF ExistsByHash, HashRow, Goto
    <3>2. call[r].op = "refresh" /\ call[r] \in ExchangeBody /\ Given(call[r])
      BY <1>1, <3>1 DEF Secured
    <3>3. t \in Token /\ tokens[t] # NoRow
      BY <3>1, <3>2 DEF ExchangeBody, Valid, HashRow
    <3>4. tokens[t].user \in Id
      BY <1>1, <3>3 DEF SessionTypes, TokenRow
    <3>5. ~late[r]
      BY <1>1, <3>1, <3>3 DEF Secured
    <3>6. /\ holder' \in [Req -> Id \cup {NoRow}] /\ holder'[r] = tokens[t].user
          /\ \A q \in Req \ {r} : holder'[q] = holder[q]
      BY <1>1, <3>1, <3>4 DEF SessionTypes
    <3>7. pc'[r] = "revoke"
      BY <1>1, <3>1 DEF Types
    <3>8. Given(call[r])'
      BY <1>1, <3>1, <3>2 DEF Given, Types
    <3>9. Secured(r)'
      BY <3>1, <3>2, <3>4, <3>5, <3>6, <3>7, <3>8 DEF Secured, Issued
    <3>10. tokens' \in [Token -> TokenRow \cup {NoRow}]
      BY <1>1, <3>1 DEF SessionTypes
    <3> HIDE DEF t
    <3> QED
      BY <1>2, <1>3, <3>1, <3>6, <3>9, <3>10, AuthStepKeeps DEF AuthStatement
  <2> QED
    BY <2>1, <2>2
<1>7. CASE DeleteByHash(r)
  <2> DEFINE t == call[r].token
  <2>1. /\ pc[r] = "revoke"
        /\ tokens' = [tokens EXCEPT ![t] = NoRow]
        /\ IF call[r].op = "logout"
             THEN pc' = [pc EXCEPT ![r] = "ok"] \/ pc' = [pc EXCEPT ![r] = "failed"]
             ELSE pc' = [pc EXCEPT ![r] = "user"]
        /\ UNCHANGED <<table, call, found, holder, late>>
    BY <1>7 DEF DeleteByHash, Answer, Goto
  <2>2. call[r] \in ExchangeBody
    BY <1>1, <2>1 DEF Secured
  <2>3. tokens' \in [Token -> TokenRow \cup {NoRow}]
    BY <1>1, <2>1 DEF SessionTypes
  <2>4. \A u \in Token : tokens[u] = NoRow => tokens'[u] = NoRow
    BY <1>1, <2>1 DEF SessionTypes
  <2>5. holder' \in [Req -> Id \cup {NoRow}] /\ \A q \in Req \ {r} : holder'[q] = holder[q]
    BY <1>1, <2>1 DEF SessionTypes
  <2>6. CASE call[r].op = "logout"
    <3>1. PICK s \in {"ok", "failed"} : pc' = [pc EXCEPT ![r] = s]
      BY <2>1, <2>6
    <3>2. pc'[r] = s
      BY <1>1, <3>1 DEF Types
    <3>3. Secured(r)'
      BY <2>1, <2>6, <3>2, ElsewhereSecured DEF Statement, Identifies
    <3> QED
      BY <1>2, <1>3, <2>1, <2>3, <2>4, <2>5, <3>1, <3>3, AuthStepKeeps DEF Statement
  <2>7. CASE call[r].op # "logout"
    <3>1. pc' = [pc EXCEPT ![r] = "user"]
      BY <2>1, <2>7
    <3>2. pc'[r] = "user" /\ call[r].op = "refresh"
      BY <1>1, <2>2, <2>7, <3>1 DEF Types, ExchangeBody
    <3>3. ~late[r] /\ holder[r] \in Id
      BY <1>1, <2>1, <3>2 DEF Secured
    <3>4. Secured(r)'
      BY <2>1, <3>2, <3>3 DEF Secured, Issued
    <3> QED
      BY <1>2, <1>3, <2>1, <2>3, <2>4, <2>5, <3>1, <3>4, AuthStepKeeps DEF AuthStatement
  <2> QED
    BY <2>6, <2>7
<1>8. CASE GetHolder(r)
  <2>1. CASE Refuse(r) /\ UNCHANGED <<session, late>>
    BY <1>8, <2>1, AuthRefused DEF GetHolder
  <2>2. CASE ~(Refuse(r) /\ UNCHANGED <<session, late>>)
    <3>1. /\ pc[r] = "user" /\ Live(holder[r], "user")
          /\ found' = [found EXCEPT ![r] = table[holder[r]]]
          /\ pc' = [pc EXCEPT ![r] = "token"]
          /\ UNCHANGED <<table, call, tokens, holder, late>>
      BY <1>8, <2>2 DEF GetHolder, Holds, Goto, session
    <3>2. Identifies(call[r].op) /\ ~late[r] /\ holder[r] \in Id
      BY <1>1, <3>1 DEF Secured, Identifies
    <3>3. holder' \in [Req -> Id \cup {NoRow}]
      BY <1>1, <3>1 DEF SessionTypes
    <3> QED
      BY <3>1, <3>2, <3>3, UserIsRead
  <2> QED
    BY <2>1, <2>2
<1>9. CASE CreateToken(r)
  <2>1. /\ pc[r] = "token"
        /\ tokens' = [tokens EXCEPT ![r] = [user |-> holder[r], fresh |-> TRUE]]
        /\ pc' = [pc EXCEPT ![r] = "ok"] \/ pc' = [pc EXCEPT ![r] = "failed"]
        /\ UNCHANGED <<table, call, found, holder, late>>
    BY <1>9 DEF CreateToken, Answer, Goto
  <2>2. holder[r] \in Id /\ Identifies(call[r].op)
    BY <1>1, <2>1 DEF Secured
  <2>3. tokens' \in [Token -> TokenRow \cup {NoRow}]
    BY <1>1, <2>1, <2>2 DEF SessionTypes, TokenRow
  <2>4. \A u \in Token : (tokens[u] = NoRow /\ (u \in PastToken \/ pc[u] = "ok")) =>
                           tokens'[u] = NoRow
    <3>1. r \notin PastToken
      BY TokenNamesAssumption DEF Id
    <3> QED
      BY <1>1, <2>1, <3>1 DEF SessionTypes
  <2>5. holder' \in [Req -> Id \cup {NoRow}] /\ \A q \in Req \ {r} : holder'[q] = holder[q]
    BY <1>1, <2>1 DEF SessionTypes
  <2>6. PICK s \in {"ok", "failed"} : pc' = [pc EXCEPT ![r] = s]
    BY <2>1
  <2>7. pc'[r] = s
    BY <1>1, <2>6 DEF Types
  <2>8. Secured(r)'
    <3>1. CASE s = "failed"
      BY <2>7, <3>1, ElsewhereSecured
    <3>2. CASE s = "ok"
      <4>1. /\ ~late[r]
            /\ [user |-> holder[r], role |-> found[r].role] \in claimable[r]
        BY <1>1, <2>1 DEF Secured
      <4>2. Types'
        BY <1>1, <2>1, <2>6 DEF Types, Statement
      <4>3. claimable[r] \subseteq claimable'[r]
        BY <1>1, <2>7, <3>2, <4>2, ClaimableTypes
      <4> QED
        BY <2>1, <2>7, <3>2, <4>1, <4>3 DEF Secured, Issued
    <3> QED
      BY <3>1, <3>2
  <2> QED
    BY <1>2, <1>3, <2>1, <2>3, <2>4, <2>5, <2>6, <2>8, AuthStepKeeps DEF Statement
<1> QED
  BY <1>4, <1>5, <1>6, <1>7, <1>8, <1>9 DEF AuthStep

(* Time passes, or nothing happens.                                        *)
LEMMA TokensFade ==
  ASSUME SessionsInv, UNCHANGED <<vars, holder, late>>,
         tokens' \in [Token -> TokenRow \cup {NoRow}],
         \A t \in Token : tokens[t] = NoRow => tokens'[t] = NoRow,
         Watch
  PROVE  SessionsInv'
<1>1. Inv'
  BY DEF SessionsInv, Inv, vars, Types, KeysUnique, Control
<1>2. Types' /\ SessionTypes
  BY <1>1 DEF Inv, SessionsInv
<1>3. SessionTypes'
  BY <1>2, ClaimableTypes DEF SessionTypes
<1>4. ASSUME NEW q \in Req PROVE Secured(q)'
  BY <1>2, OtherKept DEF vars
<1> QED
  BY <1>1, <1>3, <1>4 DEF SessionsInv

LEMMA SessionsInvStep == SessionsInv /\ [SessionsNext]_sessionVars => SessionsInv'
<1> SUFFICES ASSUME SessionsInv, [SessionsNext]_sessionVars PROVE SessionsInv'
  OBVIOUS
<1>1. CASE UNCHANGED sessionVars
  BY <1>1 DEF SessionsInv, Inv, sessionVars, session, vars, reading, Types, KeysUnique, Control,
              SessionTypes, Secured, Given, Issued
<1>2. CASE Next /\ UNCHANGED <<session, late>> /\ Watch
  BY <1>2, CatalogueStep
<1>3. ASSUME NEW r \in Req, AuthStep(r), Watch PROVE SessionsInv'
  BY <1>3, AuthStepInv
<1>4. ASSUME NEW t \in Token, Expire(t), Watch PROVE SessionsInv'
  <2>1. SessionTypes
    BY DEF SessionsInv
  <2>2. tokens[t] # NoRow /\ tokens' = [tokens EXCEPT ![t].fresh = FALSE]
        /\ UNCHANGED <<vars, holder, late>>
    BY <1>4 DEF Expire
  <2>3. tokens' \in [Token -> TokenRow \cup {NoRow}]
    BY <2>1, <2>2 DEF SessionTypes, TokenRow
  <2>4. \A u \in Token : tokens[u] = NoRow => tokens'[u] = NoRow
    BY <2>1, <2>2 DEF SessionTypes
  <2> QED
    BY <1>4, <2>2, <2>3, <2>4, TokensFade
<1> QED
  BY <1>1, <1>2, <1>3, <1>4 DEF SessionsNext

LEMMA SessionsInvariance == SessionsSpec => []SessionsInv
  BY SessionsInvInit, SessionsInvStep, PTL DEF SessionsSpec

-----------------------------------------------------------------------------
(* What an access token claims of its user was so at some moment since the *)
(* login or the exchange arrived.                                          *)
THEOREM ClaimsStayCurrent == SessionsSpec => []ClaimsAreCurrent
<1>1. SessionsInv => ClaimsAreCurrent
  BY DEF SessionsInv, Secured, ClaimsAreCurrent, Issued
<1> QED
  BY <1>1, SessionsInvariance, PTL

(* A refresh token that is gone when a request arrives is exchanged by it  *)
(* for nothing.                                                            *)
THEOREM GoneStaysGone == SessionsSpec => []GoneIsGone
<1>1. SessionsInv => GoneIsGone
  BY DEF SessionsInv, Secured, GoneIsGone, Issued
<1> QED
  BY <1>1, SessionsInvariance, PTL

(* The sessions next to the catalogue do not disturb its keys.             *)
THEOREM KeysStayUniqueInSessions == SessionsSpec => []KeysUnique
<1>1. SessionsInv => KeysUnique
  BY DEF SessionsInv, Inv
<1> QED
  BY <1>1, SessionsInvariance, PTL

(* Nor do they bring back what was deleted.                                *)
THEOREM DeletionsAreFinalInSessions == SessionsSpec => DeletedIsFinal
<1>1. SessionsInv /\ [SessionsNext]_sessionVars =>
        [\A x \in Id : (table[x] # NoRow /\ ~table[x].live) => table'[x] = table[x]]_vars
  <2> SUFFICES ASSUME SessionsInv, [SessionsNext]_sessionVars,
                      NEW x \in Id, table[x] # NoRow, ~table[x].live
               PROVE  table'[x] = table[x]
    OBVIOUS
  <2>1. CASE Next
    BY <2>1, FinalStep DEF SessionsInv
  <2>2. CASE table' = table
    BY <2>2
  <2>3. Next \/ table' = table
    BY DEF SessionsNext, sessionVars, vars, AuthStep, ReceiveAuth, GetByLogin, ExistsByHash,
           DeleteByHash, GetHolder, CreateToken, Expire, Refuse
  <2> QED
    BY <2>1, <2>2, <2>3
<1> QED
  BY <1>1, SessionsInvariance, PTL DEF SessionsSpec, DeletedIsFinal

-----------------------------------------------------------------------------
(* Logging in and out does not read brands.                                *)
LEMMA AuthWalks ==
  ASSUME SessionsInv, Walkers, NEW r \in Req, AuthStep(r), ~Refuse(r)
  PROVE  Walkers'
<1>1. Types /\ ReaderTypes /\ Inv /\ Secured(r)
  BY DEF SessionsInv, Inv, Walkers
<1>2. UNCHANGED <<table, reading, since>>
  BY DEF AuthStep, ReceiveAuth, GetByLogin, ExistsByHash, DeleteByHash, GetHolder, CreateToken
<1>3. PICK s : /\ pc' = [pc EXCEPT ![r] = s]
               /\ s \in AuthStatement \cup {"ok", "failed"}
               /\ ~Paging(r)
  <2>1. CASE ReceiveAuth(r)
    <3>1. PICK b \in AuthBody :
            /\ pc[r] = "idle"
            /\ pc' = [pc EXCEPT ![r] = CASE b.op = "login"   -> "login"
                                         [] b.op = "refresh" -> "exists"
                                         [] b.op = "logout"  -> "revoke"]
      BY <2>1 DEF ReceiveAuth, Goto
    <3>2. b.op \in {"login", "refresh", "logout"}
      BY AuthBodyAssumption DEF LoginBody, ExchangeBody
    <3> QED
      BY <3>1, <3>2 DEF AuthStatement, Paging
  <2>2. CASE ~ReceiveAuth(r)
    <3>1. \E s \in {"token", "revoke", "user", "ok", "failed"} : pc' = [pc EXCEPT ![r] = s]
      BY <2>2 DEF AuthStep, GetByLogin, ExistsByHash, DeleteByHash, GetHolder, CreateToken,
                  Goto, Answer
    <3>2. pc[r] \in AuthStatement
      BY <2>2 DEF AuthStep, GetByLogin, ExistsByHash, DeleteByHash, GetHolder, CreateToken,
                  AuthStatement
    <3> QED
      BY <3>1, <3>2 DEF AuthStatement, Paging
  <2> QED
    BY <2>1, <2>2
<1>4. call'[r].op # "list" /\ \A q \in Req \ {r} : call'[q] = call[q]
  <2>1. CASE ReceiveAuth(r)
    <3>1. PICK b \in AuthBody : call' = [call EXCEPT ![r] = b]
      BY <2>1 DEF ReceiveAuth
    <3>2. b.op # "list"
      BY AuthBodyAssumption DEF LoginBody, ExchangeBody
    <3> QED
      BY <1>1, <3>1, <3>2 DEF Types
  <2>2. CASE ~ReceiveAuth(r)
    <3>1. call' = call /\ pc[r] \in AuthStatement
      BY <2>2 DEF AuthStep, GetByLogin, ExistsByHash, DeleteByHash, GetHolder, CreateToken,
                  AuthStatement
    <3> QED
      BY <3>1 DEF Walkers, Walker, Paged
  <2> QED
    BY <2>1, <2>2
<1>5. \A q \in Req : Effect(q)
  BY <1>2, SameBrands DEF Effect
<1>6. pc'[r] \in AuthStatement \cup {"ok", "failed"} /\ \A q \in Req \ {r} : pc'[q] = pc[q]
  BY <1>1, <1>3 DEF Types
<1>7. pc'[r] \notin {"idle", "count", "rows"}
  BY <1>6 DEF AuthStatement
<1> QED
  BY <1>1, <1>2, <1>3, <1>4, <1>5, <1>6, <1>7, StepWalks DEF reading, ReaderTypes

LEMMA SessionWalks == SessionsInv /\ Walkers /\ [SessionsNext]_sessionVars => Walkers'
<1> SUFFICES ASSUME SessionsInv, Walkers, [SessionsNext]_sessionVars PROVE Walkers'
  OBVIOUS
<1>1. Inv
  BY DEF SessionsInv
<1>2. CASE UNCHANGED sessionVars
  BY <1>2, StutterWalks DEF sessionVars
<1>3. CASE Next
  BY <1>1, <1>3, WalkersStep
<1>4. ASSUME NEW r \in Req, AuthStep(r) PROVE Walkers'
  BY <1>1, <1>4, AuthWalks, RefuseWalks
<1>5. ASSUME NEW t \in Token, Expire(t) PROVE Walkers'
  BY <1>5, StutterWalks DEF Expire
<1> QED
  BY <1>2, <1>3, <1>4, <1>5 DEF SessionsNext

LEMMA SessionWalksInvariance == SessionsSpec => [](SessionsInv /\ Walkers)
<1>1. SessionsInit => SessionsInv /\ Walkers
  BY SessionsInvInit, WalkersInit DEF SessionsInit
<1>2. SessionsInv /\ Walkers /\ [SessionsNext]_sessionVars => (SessionsInv /\ Walkers)'
  BY SessionsInvStep, SessionWalks
<1> QED
  BY <1>1, <1>2, PTL DEF SessionsSpec

(* Rows, tokens, histories and the locals of every handler, those of the   *)
(* readers of pages included, keep their types.                            *)
THEOREM SessionsTypeCorrect == SessionsSpec => []SessionsTypeOK
<1>1. SessionsInv /\ Walkers => SessionsTypeOK
  BY DEF SessionsInv, Inv, Types, SessionTypes, Walkers, ReaderTypes, SessionsTypeOK
<1> QED
  BY <1>1, SessionWalksInvariance, PTL

(* The promises of the pages hold in the specification that is run, too:   *)
(* what was there is shown while brands are only created.                  *)
THEOREM WalksMissNothingInSessions == SessionsSpec => []WalkMissesNothing
  BY SessionWalksInvariance, WalkersPromise, PTL

(* Nothing is shown twice while brands are only deleted.                   *)
THEOREM WalksRepeatNothingInSessions == SessionsSpec => []WalkRepeatsNothing
  BY SessionWalksInvariance, WalkersPromise, PTL

(* The total is reached when nothing happened since the last count.        *)
THEOREM TotalsAreReachedInSessions == SessionsSpec => []TotalIsReached
  BY SessionWalksInvariance, WalkersPromise, PTL
=============================================================================
