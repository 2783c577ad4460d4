------------------------------ MODULE Connections ------------------------------
(* The social accounts of the organization (social/social-connections.service.ts) *)
(* the cron that refreshes their tokens (social/token-refresh.service.ts), and the  *)
(* script that encrypts them with another key                                     *)
(* (scripts/rotate-token-encryption-key.ts).                                      *)
(* The platforms are external: each call of one succeeds or fails.                *)
EXTENDS Requests

CONSTANTS
  Accounts,       \* the accounts at the platforms
  PlatformOf,     \* and which platform each is at
  MaxTokens       \* bound: how many tokens an account is given

ASSUME ConnectionsAssumption ==
  /\ PlatformOf \in [Accounts -> {"GOOGLE_ADS", "META", "TIKTOK", "LINKEDIN"}]
  /\ MaxTokens \in Nat \ {0}

VARIABLES
  connections,   \* the row of each account: expires is the token whose end it gives,
                 \* refresh whether it has a refresh token, key what its tokens are encrypted with
  age,           \* how near each token of each account is to its end
  deployed,      \* the key that the application is given
  issued,        \* the newest token that the platform has given for each account
  stored         \* the newest that was ever written to its row (history)

connectionVars == <<connections, age, deployed, issued, stored>>

\* Whether the platform gives a refresh token with the first token.
GoogleAdsGives == {TRUE}
MetaGives == {FALSE}
TikTokGives == {TRUE}
LinkedInGives == BOOLEAN
Gives(k) ==
  CASE PlatformOf[k] = "GOOGLE_ADS" -> GoogleAdsGives
    [] PlatformOf[k] = "META" -> MetaGives
    [] PlatformOf[k] = "TIKTOK" -> TikTokGives
    [] PlatformOf[k] = "LINKEDIN" -> LinkedInGives

\* 24 hours before its end (day) the cron refreshes a token, 10 minutes before (soon) a
\* publication does; over, it is of no use.
Ages == <<"fresh", "day", "soon", "over">>
IsOld(a) == a \in {"day", "soon", "over"}
ExpiresSoon(a) == a \in {"soon", "over"}

NoConnection == [status |-> "none", token |-> 0, expires |-> 0, refresh |-> FALSE, key |-> "old"]
\* An account that is not connected, or that was.
ConnectionsInit ==
  /\ connections \in [Accounts -> {NoConnection, [NoConnection EXCEPT !.status = "ACTIVE", !.token = 1,
                                                           !.expires = 1, !.refresh = TRUE]}]
  /\ deployed = "old"
  /\ issued = [k \in Accounts |-> connections[k].token]
  /\ stored = issued
  /\ age = [k \in Accounts |-> [t \in 1..MaxTokens |-> "fresh"]]

TokenAge(k) == age[k][connections[k].expires]
NewToken(k) == issued[k] + 1
Readable(k) == connections[k].key = deployed

\* What there is to use of a row's tokens, or of a platform's: none that can be decrypted (0), the
\* access token alone (1), a refresh token as well (2).
Tokens(refresh) == IF refresh THEN 2 ELSE 1
ReadTokens(k) == IF Readable(k) THEN Tokens(connections[k].refresh) ELSE 0

\* The platform gives a token: level, and limit what came with it, until the row is written.
TokenGiven(r, refresh) ==
  /\ NewToken(req[r].account) <= MaxTokens
  /\ issued' = [issued EXCEPT ![req[r].account] = @ + 1]
  /\ Becomes(r, [req[r] EXCEPT !.pc = "store", !.level = NewToken(req[r].account),
                               !.limit = Tokens(refresh)])
  /\ UNCHANGED <<connections, age, deployed, stored>>

\* The row is written with what was given, encrypted with the key there is.
Store(k, token, refresh) ==
  /\ connections' = [connections EXCEPT ![k] =
       [status |-> "ACTIVE", token |-> token, expires |-> token, refresh |-> refresh,
        key |-> deployed]]
  /\ stored' = [stored EXCEPT ![k] = IF @ < token THEN token ELSE @]
StoreTokens(r) ==
  /\ Store(req[r].account, req[r].level, req[r].limit = 2)
  /\ UNCHANGED <<age, deployed, issued>>

\* The clock goes on for the token of the row, and for one that a request still holds.
TimePasses ==
  \E k \in Accounts, t \in 1..MaxTokens :
    /\ t \in {connections[k].expires} \cup {req[r].seen : r \in InFlight}
    /\ age[k][t] # "over"
    /\ age' = [age EXCEPT ![k][t] = Ages[(CHOOSE i \in 1..4 : Ages[i] = @) + 1]]
    /\ UNCHANGED <<connections, deployed, issued, stored, requestVars>>

-----------------------------------------------------------------------------
\* handleCallback: the code is exchanged for a token, and the row is upserted.
Callback(r) ==
  /\ Arrives(r, "social")
  /\ \E k \in Accounts :
       Call(r, [NewRequest EXCEPT !.op = "callback", !.pc = "exchange", !.account = k])
  /\ UNCHANGED connectionVars

ExchangeCode(r) ==
  /\ Doing(r, "callback", "exchange")
  /\ \E refresh \in Gives(req[r].account) : TokenGiven(r, refresh)

WriteCallback(r) ==
  /\ Doing(r, "callback", "store")
  /\ StoreTokens(r)
  /\ Goto(r, "done")

\* The platform refuses the code, or the write fails.
CallbackFails(r) ==
  /\ Doing(r, "callback", "exchange") \/ Doing(r, "callback", "store")
  /\ Goto(r, "refused")
  /\ UNCHANGED connectionVars

\* disconnect: the row is found, and then revoked by its id.
Disconnect(r) ==
  /\ Arrives(r, "social")
  /\ \E k \in Accounts :
       /\ connections[k].status # "none"
       /\ Call(r, [NewRequest EXCEPT !.op = "disconnect", !.pc = "write",
                                               !.account = k])
  /\ UNCHANGED connectionVars

WriteDisconnect(r) ==
  /\ Doing(r, "disconnect", "write")
  /\ connections' = [connections EXCEPT ![req[r].account].status = "REVOKED"]
  /\ Goto(r, "done")
  /\ UNCHANGED <<age, deployed, issued, stored>>

\* getActiveConnection, for a publication; seen is the token whose end was read, and
\* limit what can be used of those that were.
GetActiveConnection(r) ==
  /\ Arrives(r, "social")
  /\ \E k \in Accounts :
       /\ connections[k].status = "ACTIVE"
       /\ Call(r, [NewRequest EXCEPT !.op = "use", !.account = k,
                 !.seen = connections[k].expires, !.limit = ReadTokens(k),
                 !.pc = IF ExpiresSoon(TokenAge(k)) THEN "refresh"
                        ELSE IF Readable(k) THEN "done" ELSE "refused"])
  /\ UNCHANGED connectionVars

\* Mutant: the cron lists each connection whose token is old.
ListedWhateverStatus(k) == connections[k].status # "none" /\ IsOld(TokenAge(k))
\* listExpiringSoon
Listed(k) == connections[k].status = "ACTIVE" /\ IsOld(TokenAge(k))

\* refreshExpiringSoon: those that are listed are read again one by one, without a look
\* at their status, and refreshed.
RefreshExpiringSoon(r) ==
  /\ Arrives(r, "social")
  /\ {k \in Accounts : Listed(k)} # {}
  /\ Call(r, [NewRequest EXCEPT !.op = "cron", !.pc = "next",
                          !.value = {k \in Accounts : Listed(k)}])
  /\ UNCHANGED connectionVars

RefreshConnectionById(r) ==
  /\ Doing(r, "cron", "next")
  /\ IF req[r].value = {} THEN Goto(r, "done")
     ELSE \E k \in req[r].value :
            Becomes(r, [req[r] EXCEPT !.pc = "refresh", !.account = k, !.value = @ \ {k},
                                      !.seen = connections[k].expires,
                                      !.limit = ReadTokens(k)])
  /\ UNCHANGED connectionVars

\* tryRefresh: the platform is asked for a new token with the refresh token that was read, and
\* the row is written by its id.
AfterRefresh(r) == IF req[r].op = "cron" THEN "next" ELSE "done"
Refreshers == {"use", "cron"}
Refreshing(r, pc) == req[r].op \in Refreshers /\ req[r].pc = pc

RefreshAccessToken(r) ==
  /\ Refreshing(r, "refresh") /\ req[r].limit = 2
  /\ TokenGiven(r, TRUE)

WriteRefresh(r) ==
  /\ Refreshing(r, "store")
  /\ StoreTokens(r)
  /\ Goto(r, AfterRefresh(r))

\* There is no refresh token, or it cannot be decrypted, or the platform or the write fails.
RefreshFails(r) ==
  /\ Refreshing(r, "refresh") \/ Refreshing(r, "store")
  /\ Goto(r, IF req[r].op # "use" THEN AfterRefresh(r)
             ELSE IF age[req[r].account][req[r].seen] = "over" THEN "expire"
             ELSE IF req[r].limit = 0 THEN "refused" ELSE AfterRefresh(r))
  /\ UNCHANGED connectionVars

\* A publication that could not refresh a token which is over says so in the row.
WriteExpired(r) ==
  /\ Doing(r, "use", "expire")
  /\ connections' = [connections EXCEPT ![req[r].account].status = "EXPIRED"]
  /\ Goto(r, "refused")
  /\ UNCHANGED <<age, deployed, issued, stored>>

-----------------------------------------------------------------------------
(* The rotation of the key, while the application goes on with the old one.      *)

\* rotate-token-encryption-key: all the rows are read ...
ReadConnections(r) ==
  /\ Arrives(r, "social")
  /\ deployed = "old"
  /\ Call(r, [NewRequest EXCEPT !.op = "rotate", !.pc = "rotate",
                 !.value = {[of |-> k, row |-> connections[k]] :
                              k \in {a \in Accounts : connections[a].status # "none"}}])
  /\ UNCHANGED connectionVars

\* Mutant: what was decrypted is encrypted with the key it had.
RotatedUnderOldKey(row) == row
\* rotateStoredValue: what the old key does not decrypt is left as it is.
Rotated(row) == [row EXCEPT !.key = "new"]

\* ... and then each is written by its id: both its tokens, and no more.
RotateConnection(r) ==
  /\ Doing(r, "rotate", "rotate")
  /\ \E read \in req[r].value :
       /\ connections' = [connections EXCEPT ![read.of].token = Rotated(read.row).token,
                            ![read.of].refresh = Rotated(read.row).refresh,
                            ![read.of].key = Rotated(read.row).key]
       /\ Becomes(r, [req[r] EXCEPT !.value = @ \ {read}])
  /\ UNCHANGED <<age, deployed, issued, stored>>

RotationEnds(r) ==
  /\ Doing(r, "rotate", "rotate")
  /\ req[r].value = {}
  /\ Goto(r, "done")
  /\ UNCHANGED connectionVars

\* The application is deployed with the new key when the script is through, and what runs
\* of the old process has come to its end (external).
DeployKey ==
  /\ deployed = "old" /\ InFlight = {}
  /\ \E r \in Requests : Done(r, "rotate")
  /\ deployed' = "new"
  /\ UNCHANGED <<connections, age, issued, stored, requestVars>>

ConnectionsStep ==
  \/ TimePasses \/ DeployKey
  \/ \E r \in Requests :
       \/ Callback(r) \/ ExchangeCode(r) \/ WriteCallback(r) \/ CallbackFails(r)
       \/ Disconnect(r) \/ WriteDisconnect(r)
       \/ GetActiveConnection(r) \/ RefreshExpiringSoon(r) \/ RefreshConnectionById(r)
       \/ RefreshAccessToken(r) \/ WriteRefresh(r) \/ RefreshFails(r) \/ WriteExpired(r)
       \/ ReadConnections(r) \/ RotateConnection(r) \/ RotationEnds(r)

-----------------------------------------------------------------------------
\* An account that was disconnected is connected again by its owner alone, unless a
\* refresh was under way while it was disconnected (social-connections.service.ts:152);
\* and one whose token works is not shown as expired, unless two requests that change it
\* were served at the same time (social-connections.service.ts:141).
StatusIsWarranted ==
  [][\A k \in Accounts :
       /\ connections[k].status = "REVOKED" /\ connections'[k].status = "ACTIVE" =>
            \E r \in Requests :
              /\ req'[r] # req[r] /\ req[r].account = k
              /\ \/ req[r].op = "callback"
                 \/ \E s \in Requests : Met(r, s) /\ Done(s, "disconnect") /\ req[s].account = k
       /\ connections[k].status # "EXPIRED" /\ connections'[k].status = "EXPIRED" =>
            \/ TokenAge(k) = "over"
            \/ \E r, s \in Requests : Met(r, s) /\ req[r].op = "use"
                                                /\ req[s].op \in {"callback"} \cup Refreshers
    ]_<<connectionVars, requestVars>>

\* The rotation of the key loses no token: what is in a row when the new key is deployed
\* can be decrypted, and is the newest that was ever written to it, except where an account was
\* connected or refreshed between the start of the script and the deployment.  An older token
\* is there also where two that renew it were given theirs in one order and wrote them in the
\* other (social-connections.service.ts:70, :164): the two were served at the same time.
TokensSurviveRotation ==
  \A k \in Accounts :
    LET lost == ~Readable(k) /\ deployed = "new" /\ connections[k].status # "none"
        older == connections[k].token < stored[k] IN
    lost \/ older =>
      \E r, s \in Requests :
        /\ req[s].op \in {"callback"} \cup Refreshers
        /\ \/ req[r].op = "rotate" /\ (Met(r, s) \/ s > r)
           \/ older /\ req[r].op \in {"callback"} \cup Refreshers /\ Met(r, s)
================================================================================
