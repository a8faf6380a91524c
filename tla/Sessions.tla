------------------------------ MODULE Sessions ------------------------------
(***************************************************************************)
(* AuthService next to UserService: logging in, exchanging a refresh token *)
(* for a new pair of tokens, and logging out, while the users themselves   *)
(* are updated and deleted. Four statements on the pool make an exchange,  *)
(* and no transaction holds them together.                                 *)
(*                                                                         *)
(* The token named after a request is the refresh token it inserts; the    *)
(* access token that goes with it is only a signed claim, kept nowhere.    *)
(***************************************************************************)
EXTENDS Catalogue

CONSTANTS
  PastToken,  \* the refresh tokens given out before the requests arrive
  InitToken,  \* their rows
  AuthBody    \* the logins, exchanges and logouts the users may send

VARIABLES
  tokens,     \* the rows of refresh_tokens
  holder,     \* the user a login or an exchange has found
  claimable,  \* history: what was true of a user since the request arrived
  late        \* history: the token of the request was gone when it arrived

session == <<tokens, holder>>
sessionVars == <<vars, session, claimable, late>>

Token == Req \cup PastToken

-----------------------------------------------------------------------------
\* Hashes are names; expires_at > NOW() holds until it does not.
TokenRow == [user : Id, fresh : BOOLEAN]

AuthStatement == {"login", "exists", "revoke", "user", "token"}

\* The subject and the role of an access token.
Claim == [user : Id, role : {"owner", "employee"}]

LoginBody == [op : {"login"}, login : Nat]

ExchangeBody == [op : {"refresh", "logout"}, token : Token]

ASSUME TokenNamesAssumption == PastToken \cap Id = {}

ASSUME InitTokenAssumption ==
  /\ InitToken \in [Token -> TokenRow \cup {NoRow}]
  /\ \A t \in Token : (t \in Req) = (InitToken[t] = NoRow)
  /\ \A t \in PastToken : InitRow[InitToken[t].user].kind = "user"

ASSUME AuthBodyAssumption == AuthBody \subseteq LoginBody \cup ExchangeBody

\* The client has a token once the request that made it has answered.
Given(b) == b.op # "login" => b.token \in PastToken \/ pc[b.token] = "ok"

ReceiveAuth(r) ==
  /\ pc[r] = "idle"
  /\ \E b \in {c \in AuthBody : Given(c)} :
       /\ call' = [call EXCEPT ![r] = b]
       /\ Goto(r, CASE b.op = "login"   -> "login"
                    [] b.op = "refresh" -> "exists"
                    [] b.op = "logout"  -> "revoke")
       /\ late' = [late EXCEPT ![r] = b.op # "login" /\ tokens[b.token] = NoRow]
  /\ UNCHANGED <<table, found, reading, since, session>>

-----------------------------------------------------------------------------
\* userRepo.GetByLogin, of users that are not deleted. A wrong password is one
\* of the errors that Fail stands for.
GetByLogin(r) ==
  /\ pc[r] = "login"
  /\ LET users == {x \in Id : Live(x, "user") /\ table[x].key = call[r].login}
     IN \/ \E x \in users :
             /\ holder' = [holder EXCEPT ![r] = x]
             /\ found' = [found EXCEPT ![r] = table[x]]
             /\ Goto(r, "token")
             /\ UNCHANGED <<table, call, reading, since, tokens, late>>
        \/ users = {} /\ Refuse(r) /\ UNCHANGED <<session, late>>

\* Mutation of HashRow: the rows are kept in a cache, too.
HashRowCached(t) == IF t \in PastToken THEN InitToken[t] ELSE tokens[t]

\* The row WHERE token_hash = $1.
HashRow(t) == tokens[t]

\* AND expires_at > NOW().
Valid(t) == HashRow(t) # NoRow /\ HashRow(t).fresh

\* tokenRepo.ExistsByHash.
ExistsByHash(r) ==
  /\ pc[r] = "exists"
  /\ LET t == call[r].token
     IN \/ /\ Valid(t)
           /\ holder' = [holder EXCEPT ![r] = HashRow(t).user]
           /\ Goto(r, "revoke")
           /\ UNCHANGED <<table, call, found, reading, since, tokens, late>>
        \/ ~Valid(t) /\ Refuse(r) /\ UNCHANGED <<session, late>>

\* tokenRepo.DeleteByHash: how many rows that deletes is not looked at.
DeleteByHash(r) ==
  /\ pc[r] = "revoke"
  /\ tokens' = [tokens EXCEPT ![call[r].token] = NoRow]
  /\ IF call[r].op = "logout" THEN Answer(r) ELSE Goto(r, "user")
  /\ UNCHANGED <<table, call, found, reading, since, holder, late>>

\* Mutation of Holds: a user who is deleted keeps his sessions.
HoldsDeleted(x) == Kind(x, "user")

\* GetByID finds the user of a session.
Holds(x) == Live(x, "user")

GetHolder(r) ==
  /\ pc[r] = "user"
  /\ \/ /\ Holds(holder[r])
        /\ found' = [found EXCEPT ![r] = table[holder[r]]]
        /\ Goto(r, "token")
        /\ UNCHANGED <<table, call, reading, since, session, late>>
     \/ ~Holds(holder[r]) /\ Refuse(r) /\ UNCHANGED <<session, late>>

\* generateTokenPair: the claims are those of the row that was read.
CreateToken(r) ==
  /\ pc[r] = "token"
  /\ tokens' = [tokens EXCEPT ![r] = [user |-> holder[r], fresh |-> TRUE]]
  /\ Answer(r)
  /\ UNCHANGED <<table, call, found, reading, since, holder, late>>

\* The time of a token runs out.
Expire(t) ==
  /\ tokens[t] # NoRow /\ tokens[t].fresh
  /\ tokens' = [tokens EXCEPT ![t].fresh = FALSE]
  /\ UNCHANGED <<vars, holder, late>>

-----------------------------------------------------------------------------
AuthStep(r) ==
  \/ ReceiveAuth(r) \/ GetByLogin(r) \/ ExistsByHash(r) \/ DeleteByHash(r)
  \/ GetHolder(r) \/ CreateToken(r)

SessionsInit ==
  /\ Init
  /\ tokens = InitToken
  /\ holder = [r \in Req |-> NoRow]
  /\ claimable = [r \in Req |-> {}]
  /\ late = [r \in Req |-> FALSE]

Authenticating(r) == InFlight(r) /\ call[r].op \in {"login", "refresh"}

\* What can be claimed of the users there are.
ClaimsNow == {[user |-> x, role |-> table[x].role] : x \in {y \in Id : Live(y, "user")}}

Watch ==
  claimable' = [r \in Req |->
    CASE Authenticating(r)' -> claimable[r] \cup ClaimsNow'
      [] pc'[r] = "failed"  -> {}
      [] OTHER              -> claimable[r]]

SessionsNext ==
  /\ \/ Next /\ UNCHANGED <<session, late>>
     \/ \E r \in Req : AuthStep(r)
     \/ \E t \in Token : Expire(t)
  /\ Watch

SessionsSpec == SessionsInit /\ [][SessionsNext]_sessionVars

-----------------------------------------------------------------------------
(* Properties.                                                             *)

(* Every row and every local of a handler has the type the schema and the  *)
(* Go declarations give it; what an update, a login or an exchange has     *)
(* read was live.                                                          *)
SessionsTypeOK ==
  /\ table \in [Id -> EntryRow \cup {NoRow}]
  /\ tokens \in [Token -> TokenRow \cup {NoRow}]
  /\ pc \in [Req -> Statement \cup AuthStatement]
  /\ call \in [Req -> Body \cup AuthBody \cup {NoCall}]
  /\ found \in [Req -> {e \in EntryRow : e.live} \cup {NoRow}]
  /\ holder \in [Req -> Id \cup {NoRow}]
  /\ page \in [Req -> Nat \ {0}] /\ total \in [Req -> Nat] /\ shown \in [Req -> Seq(Id)]
  /\ start \in [Req -> SUBSET Id]
  /\ since \in [Req -> [walk : SUBSET Event, count : SUBSET Event]]
  /\ claimable \in [Req -> SUBSET Claim] /\ late \in [Req -> BOOLEAN]

\* The requests that have answered with a pair of tokens.
Issued == {r \in Req : pc[r] = "ok" /\ call[r].op \in {"login", "refresh"}}

(* Nobody gets claims that have long ceased to be true: what an access     *)
(* token says of its user, that he exists and what his role is, was so at  *)
(* some moment since the login or the exchange arrived, however many       *)
(* sessions outlive a change of role or a deletion.                        *)
ClaimsAreCurrent ==
  \A r \in Issued : [user |-> holder[r], role |-> found[r].role] \in claimable[r]

(* A refresh token that is gone, exchanged or logged out, is no good to    *)
(* any request that comes later, a retry of the exchange included: one     *)
(* token is exchanged twice only by requests that overlap.                 *)
GoneIsGone == \A r \in Issued : ~late[r]
=============================================================================
