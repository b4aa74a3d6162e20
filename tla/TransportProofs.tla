-------------------------- MODULE TransportProofs --------------------------
(***************************************************************************)
(* Whose requests the shared bearerTransport of pkg/v1/remote/transport    *)
(* may leave denied: for any number of goroutines, scopes and expiries.    *)
(***************************************************************************)
EXTENDS Transport, TLAPS

(***************************************************************************)
(* The inductive invariant.                                                *)
(***************************************************************************)

\* Where a goroutine is once it was challenged, and once it has seen what
\* the transport asks for.
Challenged == {"challenged", "merge", "refresh", "exchange", "store", "resend", "resent"}
Told == Challenged \ {"challenged"}
Quiet == {"idle", "send", "sent", "ok", "error"}
MainLabels == {"ping https", "ping http", "refresh", "exchange", "store", "ok", "error"}

Tokens == [scopes : SUBSET Scopes, issued : Nat]
Locals == [token : Tokens, scopes : SUBSET Scopes, flow : {"basic", "oauth"}]

TypeInv ==
    /\ server \in Servers
    /\ scopes \in SUBSET Scopes /\ Initial \subseteq scopes
    /\ bearer \in Tokens
    /\ basic \in Credentials
    /\ now \in Nat
    /\ pc \in [Goroutines -> MainLabels \cup Challenged \cup Quiet \cup {"denied"}]
    /\ mine \in [Goroutines -> Locals]

\* No request is sent before Main is done, whose exchange has settled which
\* credentials there are.
MainInv ==
    /\ pc[Main] \in MainLabels
    /\ pc[Main] # "ok" => \A g \in Requests : pc[g] \in {"idle", "error"}
    /\ pc[Main] \in {"refresh", "exchange", "store"} => server.challenge = "bearer"
    /\ pc[Main] = "ok" /\ server.challenge = "bearer" =>
          basic = "registry token" \/ (server.refreshes => basic = "identity token")

\* No other request has come to the transport's scopes.
Alone(g) == \A other \in Requests \ {g} : mine[other].scopes = {}

\* The scopes that no interleaving takes from a request.
Wanted(g) == Initial \cup {s \in {Need[g]} : server.tellsScope /\ Alone(g)}

\* The token gets what it can of these scopes.
Fits(token, wanted) ==
    now = 0 => token.issued = 0 /\ wanted \cap Grant \subseteq token.scopes

\* How far a request has come with them.
Exchanging(g) ==
    pc[g] = "exchange" =>
        /\ mine[g].flow = "oauth" => basic = "identity token"
        /\ mine[g].flow = "basic" /\ basic = "identity token" => ~server.oauth

Asking(g) ==
    /\ pc[g] \in Challenged => server.challenge = "bearer"
    /\ pc[g] \in {"exchange", "store"} => basic # "registry token"
    /\ server.tellsScope /\ pc[g] \in Told => mine[g].scopes # {}
    /\ pc[g] = "merge" => Initial \subseteq mine[g].scopes
    /\ Exchanging(g)

Getting(g) ==
    /\ pc[g] \in {"refresh", "exchange"} => Wanted(g) \subseteq scopes
    /\ pc[g] \in {"store", "resent"} => Fits(mine[g].token, Wanted(g))
    /\ pc[g] = "resend" => Fits(bearer, Wanted(g))
    /\ pc[g] = "denied" /\ server.challenge = "bearer" /\ now = 0 =>
          Need[g] \notin Wanted(g) \cap Grant

IInv == TypeInv /\ MainInv /\ \A g \in Requests : Asking(g) /\ Getting(g)

(***************************************************************************)
(* What a step of one goroutine leaves to the others.                      *)
(***************************************************************************)

\* The labels of main and of requests are apart.
LEMMA Labels == Main \notin Requests /\ Requests \subseteq Goroutines /\ Main \in Goroutines
  BY TransportAssumption DEF Goroutines

\* A request that waits, or has returned and was not denied, has no claims.
LEMMA QuietIsFine ==
    ASSUME NEW g \in Requests, pc'[g] \in Quiet
    PROVE  Asking(g)' /\ Getting(g)'
  BY DEF Asking, Getting, Exchanging, Quiet, Challenged, Told

\* What a request does to the fields of the transport while it is not alone,
\* or has been told no scope, takes nothing of the initial scopes away.
Harmless(p) ==
    /\ UNCHANGED <<server, basic, now>>
    /\ \A q \in Goroutines \ {p} : pc'[q] = pc[q] /\ mine'[q] = mine[q]
    /\ mine'[p].scopes = {} => mine[p].scopes = {}
    /\ UNCHANGED <<scopes, bearer>> \/ (server.tellsScope => mine[p].scopes # {})
    /\ Initial \subseteq scopes'
    /\ \/ UNCHANGED bearer
       \/ now = 0 => bearer'.issued = 0 /\ Initial \cap Grant \subseteq bearer'.scopes

\* Nobody is alone again who once was not.
LEMMA WantedShrinks ==
    ASSUME NEW p \in Requests, NEW g \in Requests,
           UNCHANGED <<server, basic, now>>,
           \A q \in Goroutines \ {p} : mine'[q] = mine[q],
           mine'[p].scopes = {} => mine[p].scopes = {}
    PROVE  /\ Grant' = Grant /\ Initial \subseteq Wanted(g)' /\ Wanted(g)' \subseteq Wanted(g)
           /\ Wanted(g)' = Initial \/ (server.tellsScope /\ Alone(g)')
<1>1. Grant' = Grant
  BY DEF Grant
<1>2. Alone(g)' => Alone(g)
  BY Labels DEF Alone
<1> QED BY <1>1, <1>2 DEF Wanted

LEMMA OthersKeep ==
    ASSUME IInv, NEW p \in Requests, Harmless(p), NEW g \in Requests, g # p
    PROVE  Asking(g)' /\ Getting(g)'
<1>1. /\ pc'[g] = pc[g] /\ mine'[g] = mine[g] /\ UNCHANGED <<server, basic, now>>
      /\ Asking(g) /\ Getting(g)
  BY Labels DEF Harmless, IInv
<1>2. Asking(g)'
  BY <1>1 DEF Asking, Exchanging
<1>3. /\ Grant' = Grant /\ Initial \subseteq Wanted(g)' /\ Wanted(g)' \subseteq Wanted(g)
      /\ Wanted(g)' = Initial \/ (server.tellsScope /\ Alone(g)')
  BY WantedShrinks DEF Harmless
<1>4. Wanted(g)' = Initial \/ UNCHANGED <<scopes, bearer>>
  <2>1. Alone(g)' => mine[p].scopes = {}
    BY DEF Alone, Harmless
  <2> QED BY <1>3, <2>1 DEF Harmless
<1>5. pc[g] \in {"refresh", "exchange"} => Wanted(g)' \subseteq scopes'
  BY <1>1, <1>3, <1>4 DEF Getting, Harmless
<1>6. pc[g] \in {"store", "resent"} => Fits(mine[g].token, Wanted(g))'
  BY <1>1, <1>3 DEF Getting, Fits
<1>7. pc[g] = "resend" => Fits(bearer, Wanted(g))'
  BY <1>1, <1>3, <1>4 DEF Getting, Fits, Harmless
<1>8. pc[g] = "denied" /\ server.challenge = "bearer" /\ now = 0 =>
        Need[g] \notin Wanted(g)' \cap Grant'
  BY <1>1, <1>3 DEF Getting
<1> QED BY <1>1, <1>2, <1>5, <1>6, <1>7, <1>8 DEF Getting

\* So it is enough to look at the request that takes the step.
LEMMA RequestStep ==
    ASSUME IInv, NEW p \in Requests, Harmless(p), pc[p] \notin {"idle", "error"},
           Asking(p)', Getting(p)', TypeInv'
    PROVE  IInv'
<1>1. \A g \in Requests : Asking(g)' /\ Getting(g)'
  BY OthersKeep
<1>2. pc[Main] = "ok"
  BY DEF IInv, MainInv
<1>3. pc'[Main] = pc[Main] /\ UNCHANGED <<server, basic>>
  BY Labels DEF Harmless
<1>4. MainInv'
  BY <1>2, <1>3 DEF IInv, MainInv
<1> QED BY <1>1, <1>4 DEF IInv

(***************************************************************************)
(* The steps of a request.                                                 *)
(***************************************************************************)

AllLabels == MainLabels \cup Challenged \cup Quiet \cup {"denied"}

\* Goto moves one goroutine.
LEMMA GotoFacts ==
    ASSUME TypeInv, NEW p \in Goroutines, NEW label \in AllLabels, Goto(p, label)
    PROVE  /\ pc' \in [Goroutines -> AllLabels]
           /\ pc'[p] = label /\ \A q \in Goroutines \ {p} : pc'[q] = pc[q]
  BY DEF TypeInv, Goto, AllLabels

\* What a request may ask for is what all of them may.
LEMMA ScopeFacts ==
    /\ Initial \subseteq Scopes /\ Allowed \subseteq Scopes /\ Public \subseteq Allowed
    /\ \A g \in Requests : Need[g] \in Scopes
    /\ NoToken \in Tokens
  BY TransportAssumption DEF Scopes, NoToken, Tokens

\* A request gets, for the credentials of the transport, a token for all the
\* scopes it asks for that these have.
LEMMA IssueFacts ==
    ASSUME TypeInv, NEW grant \in {Allowed, Public}
    PROVE  /\ Issue(grant) \in Tokens
           /\ Issue(grant).issued = now /\ Issue(grant).scopes = scopes \cap grant
  BY DEF Issue, TypeInv, Tokens

LEMMA RefreshStep ==
    ASSUME IInv, NEW p \in Requests, Refresh(p)
    PROVE  IInv'
<1>1. TypeInv /\ p \in Goroutines /\ pc[p] = "refresh" /\ Asking(p) /\ Getting(p)
      /\ UNCHANGED <<server, scopes, basic, now>> /\ p # Main /\ Grant' = Grant
  BY Labels DEF IInv, Refresh, Grant
<1>2. CASE basic = "registry token"
  <2>1. /\ bearer' = [scopes |-> Allowed, issued |-> 0]
        /\ Goto(p, "resend") /\ UNCHANGED mine
    BY <1>1, <1>2 DEF Refresh, Refreshed
  <2>2. /\ pc' \in [Goroutines -> AllLabels]
        /\ pc'[p] = "resend" /\ \A q \in Goroutines \ {p} : pc'[q] = pc[q]
    BY <1>1, <2>1, GotoFacts DEF AllLabels, Challenged
  <2>3. bearer' \in Tokens /\ bearer'.issued = 0 /\ bearer'.scopes = Allowed
    BY <2>1, ScopeFacts DEF Tokens
  <2>4. Grant = Allowed
    BY <1>2 DEF Grant
  <2>5. TypeInv'
    BY <1>1, <2>1, <2>2, <2>3 DEF TypeInv, AllLabels
  <2>6. Harmless(p)
    BY <1>1, <2>1, <2>2, <2>3, <2>4 DEF Harmless, TypeInv, Asking, Told, Challenged
  <2>7. Asking(p)'
    BY <1>1, <2>1, <2>2 DEF Asking, Exchanging, Challenged, Told
  <2>8. Getting(p)'
    BY <1>1, <2>2, <2>3, <2>4 DEF Getting, Fits
  <2> QED BY <1>1, <2>5, <2>6, <2>7, <2>8, RequestStep
<1>3. CASE basic # "registry token"
  <2> DEFINE flow == IF basic = "identity token" THEN "oauth" ELSE "basic"
  <2>1. /\ mine' = [mine EXCEPT ![p].flow = flow]
        /\ Goto(p, "exchange") /\ UNCHANGED bearer
    BY <1>3 DEF Refresh
  <2>2. /\ pc' \in [Goroutines -> AllLabels]
        /\ pc'[p] = "exchange" /\ \A q \in Goroutines \ {p} : pc'[q] = pc[q]
    BY <1>1, <2>1, GotoFacts DEF AllLabels, MainLabels
  <2>3. /\ mine' \in [Goroutines -> Locals]
        /\ mine'[p].flow = flow /\ mine'[p].scopes = mine[p].scopes
        /\ \A q \in Goroutines \ {p} : mine'[q] = mine[q]
    BY <1>1, <2>1 DEF TypeInv, Locals
  <2>4. TypeInv'
    BY <1>1, <2>1, <2>2, <2>3 DEF TypeInv, AllLabels
  <2>5. Harmless(p)
    BY <1>1, <2>1, <2>2, <2>3 DEF Harmless, TypeInv
  <2>6. Asking(p)'
    BY <1>1, <1>3, <2>2, <2>3 DEF Asking, Exchanging, Challenged, Told
  <2>7. Wanted(p)' \subseteq Wanted(p)
    BY <1>1, <2>3, WantedShrinks
  <2>8. Getting(p)'
    BY <1>1, <2>2, <2>7 DEF Getting
  <2> QED BY <1>1, <2>4, <2>5, <2>6, <2>8, RequestStep
<1> QED BY <1>2, <1>3

LEMMA ExchangeStep ==
    ASSUME IInv, NEW p \in Requests, Exchange(p)
    PROVE  IInv'
<1>1. /\ TypeInv /\ p \in Goroutines /\ pc[p] = "exchange" /\ Asking(p) /\ Getting(p)
      /\ UNCHANGED <<server, scopes, bearer, basic, now>> /\ Grant' = Grant
      /\ mine[p] \in Locals
  BY Labels DEF IInv, Exchange, Grant, TypeInv
<1>2. CASE /\ mine[p].flow = "oauth" /\ ~server.oauth
           /\ mine' = [mine EXCEPT ![p].flow = "basic"]
           /\ UNCHANGED pc
  <2>1. /\ mine' \in [Goroutines -> Locals]
        /\ mine'[p].flow = "basic" /\ mine'[p].scopes = mine[p].scopes
        /\ \A q \in Goroutines \ {p} : mine'[q] = mine[q]
    BY <1>1, <1>2 DEF TypeInv, Locals
  <2>2. TypeInv'
    BY <1>1, <1>2, <2>1 DEF TypeInv
  <2>3. Harmless(p)
    BY <1>1, <1>2, <2>1 DEF Harmless, TypeInv
  <2>4. Asking(p)'
    BY <1>1, <1>2, <2>1 DEF Asking, Exchanging, Challenged, Told
  <2>5. Wanted(p)' \subseteq Wanted(p)
    BY <1>1, <2>1, WantedShrinks
  <2>6. Getting(p)'
    BY <1>1, <1>2, <2>5 DEF Getting
  <2> QED BY <1>1, <2>2, <2>3, <2>4, <2>6, RequestStep
<1>3. ASSUME NEW grant \in {Allowed, Public}, Grant \subseteq grant,
             mine' = [mine EXCEPT ![p].token = Issue(grant)],
             Goto(p, "store")
      PROVE  IInv'
  <2>1. /\ pc' \in [Goroutines -> AllLabels]
        /\ pc'[p] = "store" /\ \A q \in Goroutines \ {p} : pc'[q] = pc[q]
    BY <1>1, <1>3, GotoFacts DEF AllLabels, MainLabels
  <2>2. /\ Issue(grant) \in Tokens
        /\ Issue(grant).issued = now /\ Issue(grant).scopes = scopes \cap grant
    BY <1>1, IssueFacts
  <2>3. /\ mine' \in [Goroutines -> Locals]
        /\ mine'[p].token = Issue(grant) /\ mine'[p].scopes = mine[p].scopes
        /\ \A q \in Goroutines \ {p} : mine'[q] = mine[q]
    BY <1>1, <1>3, <2>2 DEF TypeInv, Locals
  <2>4. TypeInv'
    BY <1>1, <2>1, <2>3 DEF TypeInv, AllLabels
  <2>5. Harmless(p)
    BY <1>1, <2>1, <2>3 DEF Harmless, TypeInv
  <2>6. Asking(p)'
    BY <1>1, <2>1, <2>3 DEF Asking, Exchanging, Challenged, Told
  <2>7. Wanted(p)' \subseteq Wanted(p)
    BY <1>1, <2>3, WantedShrinks
  <2>8. Getting(p)'
    BY <1>1, <1>3, <2>1, <2>2, <2>3, <2>7 DEF Getting, Fits
  <2> QED BY <1>1, <2>4, <2>5, <2>6, <2>8, RequestStep
<1>4. CASE /\ mine[p].flow = "oauth" /\ server.oauth
           /\ mine' = [mine EXCEPT ![p].token = Issue(Allowed)]
           /\ Goto(p, "store")
  <2>1. Grant \subseteq Allowed
    BY ScopeFacts DEF Grant
  <2> QED BY <1>3, <1>4, <2>1
<1>5. CASE /\ mine[p].flow = "basic"
           /\ mine' = [mine EXCEPT ![p].token =
                         Issue(IF basic = "password" THEN Allowed ELSE Public)]
           /\ Goto(p, "store")
  <2>1. Grant \subseteq IF basic = "password" THEN Allowed ELSE Public
    BY <1>1, <1>5, ScopeFacts DEF Grant, Asking, Exchanging
  <2> QED BY <1>3, <1>5, <2>1
<1> QED BY <1>2, <1>4, <1>5 DEF Exchange

LEMMA StoreStep ==
    ASSUME IInv, NEW p \in Requests, Store(p)
    PROVE  IInv'
<1>1. /\ TypeInv /\ p \in Goroutines /\ p # Main /\ pc[p] = "store" /\ Asking(p) /\ Getting(p)
      /\ UNCHANGED <<server, scopes, now, mine>> /\ bearer' = mine[p].token
      /\ Goto(p, "resend") /\ mine[p] \in Locals
  BY Labels DEF IInv, Store, Refreshed, TypeInv
<1>2. UNCHANGED basic
  <2>1. pc[Main] = "ok" /\ server.challenge = "bearer" /\ basic # "registry token"
    BY <1>1 DEF IInv, MainInv, Asking, Challenged
  <2>2. basic' = IF server.refreshes THEN "identity token" ELSE basic
    BY DEF Store
  <2> QED BY <2>1, <2>2 DEF IInv, MainInv
<1>3. Grant' = Grant
  BY <1>1, <1>2 DEF Grant
<1>4. /\ pc' \in [Goroutines -> AllLabels]
      /\ pc'[p] = "resend" /\ \A q \in Goroutines \ {p} : pc'[q] = pc[q]
  BY <1>1, GotoFacts DEF AllLabels, Challenged
<1>5. TypeInv'
  BY <1>1, <1>2, <1>4 DEF TypeInv, AllLabels, Locals
<1>6. Harmless(p)
  <2>1. Fits(mine[p].token, Wanted(p)) /\ Initial \subseteq Wanted(p)
    BY <1>1 DEF Getting, Wanted
  <2>2. server.tellsScope => mine[p].scopes # {}
    BY <1>1 DEF Asking, Told, Challenged
  <2> QED BY <1>1, <1>2, <1>4, <2>1, <2>2 DEF Harmless, TypeInv, Fits
<1>7. Asking(p)'
  BY <1>1, <1>2, <1>4 DEF Asking, Exchanging, Challenged, Told
<1>8. Wanted(p)' \subseteq Wanted(p)
  BY <1>1, <1>2, WantedShrinks
<1>9. Getting(p)'
  BY <1>1, <1>3, <1>4, <1>8 DEF Getting, Fits
<1> QED BY <1>1, <1>5, <1>6, <1>7, <1>9, RequestStep

\* A request that only moves, to a place where it claims nothing.
LEMMA RestStep ==
    ASSUME IInv, NEW p \in Requests, NEW label \in Quiet, Goto(p, label),
           pc[p] \notin {"idle", "error"},
           UNCHANGED <<server, scopes, bearer, basic, now, mine>>
    PROVE  IInv'
<1>1. TypeInv /\ p \in Goroutines /\ label \in AllLabels
  BY Labels DEF IInv, AllLabels
<1>2. /\ pc' \in [Goroutines -> AllLabels]
      /\ pc'[p] = label /\ \A q \in Goroutines \ {p} : pc'[q] = pc[q]
  BY <1>1, GotoFacts
<1>3. TypeInv'
  BY <1>1, <1>2 DEF TypeInv, AllLabels
<1>4. Harmless(p)
  BY <1>1, <1>2 DEF Harmless, TypeInv
<1>5. Asking(p)' /\ Getting(p)'
  BY <1>2, QuietIsFine
<1> QED BY <1>3, <1>4, <1>5, RequestStep

\* The header is made of the token that the transport holds.
LEMMA HeaderStep ==
    ASSUME IInv, NEW p \in Requests,
           SetHeader(p, "send", "sent") \/ SetHeader(p, "resend", "resent")
    PROVE  IInv'
<1>1. /\ TypeInv /\ p \in Goroutines /\ Asking(p) /\ Getting(p) /\ mine[p] \in Locals
      /\ UNCHANGED <<server, scopes, bearer, basic, now>> /\ Grant' = Grant
      /\ mine' = [mine EXCEPT ![p].token = bearer] /\ bearer \in Tokens
  BY Labels DEF IInv, SetHeader, Grant, TypeInv
<1>2. /\ mine' \in [Goroutines -> Locals]
      /\ mine'[p].token = bearer /\ mine'[p].scopes = mine[p].scopes
      /\ \A q \in Goroutines \ {p} : mine'[q] = mine[q]
  BY <1>1 DEF TypeInv, Locals
<1>3. /\ pc' \in [Goroutines -> AllLabels]
      /\ \A q \in Goroutines \ {p} : pc'[q] = pc[q]
      /\ pc'[p] \in {"sent", "resent"} /\ pc[p] \in {"send", "resend"}
      /\ pc'[p] = "resent" => pc[p] = "resend"
  BY <1>1, GotoFacts DEF SetHeader, AllLabels, Challenged, Quiet
<1>4. TypeInv'
  BY <1>1, <1>2, <1>3 DEF TypeInv, AllLabels
<1>5. Harmless(p)
  BY <1>1, <1>2, <1>3 DEF Harmless, TypeInv
<1>6. Wanted(p)' \subseteq Wanted(p)
  BY <1>1, <1>2, WantedShrinks
<1>7. Asking(p)'
  BY <1>1, <1>2, <1>3 DEF Asking, Exchanging, Challenged, Told
<1>8. Getting(p)'
  BY <1>1, <1>2, <1>3, <1>6 DEF Getting, Fits
<1> QED BY <1>3, <1>4, <1>5, <1>7, <1>8, RequestStep

\* A second 401 denies only what the token has not.
LEMMA AnswerStep ==
    ASSUME IInv, NEW p \in Requests, Answer(p)
    PROVE  IInv'
<1>1. /\ TypeInv /\ p \in Goroutines /\ Asking(p) /\ Getting(p) /\ mine[p] \in Locals
      /\ UNCHANGED <<server, scopes, bearer, basic, now, mine>> /\ Grant' = Grant
      /\ pc[p] \in {"sent", "resent"} /\ now \in Nat
  BY Labels DEF IInv, Answer, Grant, TypeInv
<1>2. CASE Goto(p, "ok")
  BY <1>1, <1>2, RestStep DEF Quiet
<1>3. ASSUME NEW label \in {"denied", "challenged", "refresh"}, Goto(p, label),
             label = "denied" /\ server.challenge = "bearer" => pc[p] = "resent" /\ ~Accepted(p),
             label # "denied" => server.challenge = "bearer",
             label = "refresh" => ~server.tellsScope
      PROVE  IInv'
  <2>1. /\ pc' \in [Goroutines -> AllLabels]
        /\ pc'[p] = label /\ \A q \in Goroutines \ {p} : pc'[q] = pc[q]
    BY <1>1, <1>3, GotoFacts DEF AllLabels, Challenged
  <2>2. TypeInv'
    BY <1>1, <2>1 DEF TypeInv, AllLabels
  <2>3. Harmless(p)
    BY <1>1, <2>1 DEF Harmless, TypeInv
  <2>4. Wanted(p)' \subseteq Wanted(p)
    BY <1>1, WantedShrinks
  <2>5. Asking(p)'
    BY <1>1, <1>3, <2>1 DEF Asking, Exchanging, Challenged, Told
  <2>6. label = "refresh" => Wanted(p)' \subseteq scopes'
    BY <1>1, <1>3 DEF Wanted, TypeInv
  <2>7. label = "denied" /\ server.challenge = "bearer" /\ now = 0 =>
          Need[p] \notin Wanted(p)' \cap Grant'
    <3> SUFFICES ASSUME label = "denied", server.challenge = "bearer", now = 0,
                        Need[p] \in Wanted(p) \cap Grant
                 PROVE  FALSE
      BY <1>1, <2>4
    <3>1. Fits(mine[p].token, Wanted(p)) /\ ~Accepted(p)
      BY <1>1, <1>3 DEF Getting
    <3>2. Need[p] \in mine[p].token.scopes /\ mine[p].token.issued = now
      BY <3>1 DEF Fits
    <3> QED BY <3>1, <3>2 DEF Accepted
  <2>8. Getting(p)'
    BY <1>1, <1>3, <2>1, <2>6, <2>7 DEF Getting
  <2> QED BY <1>1, <2>2, <2>3, <2>5, <2>8, RequestStep
<1>4. CASE Accepted(p)
  <2>1. Goto(p, "ok")
    BY <1>4 DEF Answer
  <2> QED BY <1>2, <2>1
<1>5. CASE ~Accepted(p) /\ (pc[p] = "resent" \/ server.challenge # "bearer")
  <2>1. Goto(p, "denied")
    BY <1>5 DEF Answer
  <2> QED BY <1>3, <1>5, <2>1
<1>6. CASE ~Accepted(p) /\ pc[p] # "resent" /\ server.challenge = "bearer"
  <2>1. Goto(p, IF server.tellsScope THEN "challenged" ELSE "refresh")
    BY <1>6 DEF Answer
  <2>2. CASE server.tellsScope
    BY <1>3, <1>6, <2>1, <2>2
  <2>3. CASE ~server.tellsScope
    BY <1>3, <1>6, <2>1, <2>3
  <2> QED BY <2>2, <2>3
<1> QED BY <1>4, <1>5, <1>6

\* What was read has the initial scopes, and is not empty.
LEMMA ReadScopesStep ==
    ASSUME IInv, NEW p \in Requests, ReadScopes(p)
    PROVE  IInv'
<1>1. /\ TypeInv /\ p \in Goroutines /\ pc[p] = "challenged" /\ Asking(p) /\ Getting(p)
      /\ UNCHANGED <<server, scopes, bearer, basic, now>> /\ Grant' = Grant
      /\ mine' = [mine EXCEPT ![p].scopes = scopes] /\ mine[p] \in Locals
      /\ scopes # {} /\ Initial \subseteq scopes
  BY Labels, TransportAssumption DEF IInv, ReadScopes, Grant, TypeInv
<1>2. /\ mine' \in [Goroutines -> Locals]
      /\ mine'[p].scopes = scopes /\ \A q \in Goroutines \ {p} : mine'[q] = mine[q]
  BY <1>1 DEF TypeInv, Locals
<1>3. /\ pc' \in [Goroutines -> AllLabels]
      /\ \A q \in Goroutines \ {p} : pc'[q] = pc[q]
      /\ pc'[p] \in {"refresh", "merge"}
      /\ pc'[p] = "refresh" => Need[p] \in scopes
  <2> DEFINE label == IF Need[p] \in scopes THEN "refresh" ELSE "merge"
  <2>1. Goto(p, label) /\ label \in AllLabels
    BY DEF ReadScopes, AllLabels, Challenged
  <2> HIDE DEF label
  <2>2. /\ pc' \in [Goroutines -> AllLabels]
        /\ pc'[p] = label /\ \A q \in Goroutines \ {p} : pc'[q] = pc[q]
    BY <1>1, <2>1, GotoFacts
  <2> QED BY <2>2 DEF label
<1>4. TypeInv'
  BY <1>1, <1>2, <1>3 DEF TypeInv, AllLabels
<1>5. Harmless(p)
  BY <1>1, <1>2, <1>3 DEF Harmless, TypeInv
<1>6. Asking(p)'
  BY <1>1, <1>2, <1>3 DEF Asking, Exchanging, Challenged, Told
<1>7. pc'[p] = "refresh" => Wanted(p)' \subseteq scopes'
  BY <1>1, <1>3 DEF Wanted
<1>8. Getting(p)'
  BY <1>3, <1>7 DEF Getting
<1> QED BY <1>1, <1>4, <1>5, <1>6, <1>8, RequestStep

\* An append may lose another goroutine's, never an initial scope or its own.
LEMMA MergeScopesStep ==
    ASSUME IInv, NEW p \in Requests, MergeScopes(p)
    PROVE  IInv'
<1>1. /\ TypeInv /\ p \in Goroutines /\ pc[p] = "merge" /\ Asking(p) /\ Getting(p)
      /\ UNCHANGED <<server, bearer, basic, now, mine>>
      /\ Goto(p, "refresh") /\ mine[p] \in Locals
  BY Labels DEF IInv, MergeScopes, TypeInv
<1>2. PICK read \in {mine[p].scopes, scopes} : scopes' = read \cup {Need[p]}
  BY DEF MergeScopes
<1>3. scopes' \in SUBSET Scopes /\ Initial \subseteq scopes' /\ Need[p] \in scopes'
  BY <1>1, <1>2, ScopeFacts DEF TypeInv, Asking, Locals
<1>4. /\ pc' \in [Goroutines -> AllLabels]
      /\ pc'[p] = "refresh" /\ \A q \in Goroutines \ {p} : pc'[q] = pc[q]
  BY <1>1, GotoFacts DEF AllLabels, MainLabels
<1>5. TypeInv'
  BY <1>1, <1>3, <1>4 DEF TypeInv, AllLabels
<1>6. Harmless(p)
  BY <1>1, <1>3, <1>4 DEF Harmless, Asking, Told, Challenged
<1>7. Asking(p)'
  BY <1>1, <1>4 DEF Asking, Exchanging, Challenged, Told
<1>8. Getting(p)'
  BY <1>3, <1>4 DEF Getting, Wanted
<1> QED BY <1>1, <1>5, <1>6, <1>7, <1>8, RequestStep

(***************************************************************************)
(* Every step keeps the invariant.                                         *)
(***************************************************************************)

LEMMA InitIInv == Init => IInv
<1> SUFFICES ASSUME Init
             PROVE  IInv
  OBVIOUS
<1>1. TypeInv
  <2>1. [token |-> NoToken, scopes |-> {}, flow |-> "basic"] \in Locals
    BY ScopeFacts DEF Locals
  <2> QED BY <2>1, ScopeFacts DEF Init, TypeInv, MainLabels, Quiet
<1>2. /\ pc[Main] = "ping https"
      /\ \A g \in Requests : pc[g] = "idle"
  BY Labels DEF Init
<1>3. MainInv
  BY <1>2 DEF MainInv, MainLabels
<1>4. \A g \in Requests : Asking(g) /\ Getting(g)
  BY <1>2 DEF Asking, Getting, Exchanging, Challenged, Told
<1> QED BY <1>1, <1>3, <1>4 DEF IInv

\* While Main is at work no request is, and afterwards each is about to be
\* sent or is lost.
LEMMA MainStep ==
    ASSUME IInv, pc[Main] \notin {"ok", "error"}, UNCHANGED server,
           \/ Ready \/ Broken
           \/ Goto(Main, "ping http")
           \/ \E label \in {"refresh", "exchange", "store"} :
                 Goto(Main, label) /\ server.challenge = "bearer",
           Ready /\ server.challenge = "bearer" =>
              basic' = "registry token" \/ (server.refreshes => basic' = "identity token"),
           /\ scopes' \in SUBSET Scopes /\ Initial \subseteq scopes'
           /\ bearer' \in Tokens /\ basic' \in Credentials /\ now' \in Nat
           /\ mine' \in [Goroutines -> Locals]
    PROVE  IInv'
<1>1. TypeInv /\ MainInv /\ \A g \in Requests : pc[g] \in {"idle", "error"}
  BY DEF IInv, MainInv
<1>2. CASE Ready
  <2>1. /\ pc' \in [Goroutines -> AllLabels] /\ pc'[Main] = "ok"
        /\ \A g \in Requests : pc'[g] = "send"
    BY <1>2, Labels DEF Ready, AllLabels, Quiet
  <2>2. \A g \in Requests : Asking(g)' /\ Getting(g)'
    BY <2>1, QuietIsFine DEF Quiet
  <2>3. TypeInv' /\ MainInv'
    BY <1>1, <1>2, <2>1 DEF TypeInv, MainInv, MainLabels, AllLabels
  <2> QED BY <2>2, <2>3 DEF IInv
<1>3. CASE Broken
  <2>1. /\ pc' \in [Goroutines -> AllLabels] /\ pc'[Main] = "error"
        /\ \A g \in Requests : pc'[g] = "error"
    BY <1>3, Labels DEF Broken, AllLabels, Quiet
  <2>2. \A g \in Requests : Asking(g)' /\ Getting(g)'
    BY <2>1, QuietIsFine DEF Quiet
  <2>3. TypeInv' /\ MainInv'
    BY <1>1, <2>1 DEF TypeInv, MainInv, MainLabels, AllLabels
  <2> QED BY <2>2, <2>3 DEF IInv
<1>4. ASSUME NEW label \in {"ping http", "refresh", "exchange", "store"}, Goto(Main, label),
             label # "ping http" => server.challenge = "bearer"
      PROVE  IInv'
  <2>1. /\ pc' \in [Goroutines -> AllLabels] /\ pc'[Main] = label
        /\ \A g \in Requests : pc'[g] \in {"idle", "error"}
    BY <1>1, <1>4, Labels, GotoFacts DEF AllLabels, MainLabels
  <2>2. \A g \in Requests : Asking(g)' /\ Getting(g)'
    BY <2>1, QuietIsFine DEF Quiet
  <2>3. TypeInv' /\ MainInv'
    BY <1>1, <1>4, <2>1 DEF TypeInv, MainInv, MainLabels, AllLabels
  <2> QED BY <2>2, <2>3 DEF IInv
<1> QED BY <1>2, <1>3, <1>4

LEMMA MainKeepsInv ==
    ASSUME IInv, PingHttps \/ PingHttp \/ RefreshSteps(Main)
    PROVE  IInv'
<1>1. /\ TypeInv /\ MainInv /\ scopes \in SUBSET Scopes /\ Initial \subseteq scopes
      /\ mine \in [Goroutines -> Locals] /\ mine[Main] \in Locals /\ bearer \in Tokens
      /\ basic \in Credentials /\ now \in Nat /\ server \in Servers
  BY Labels DEF IInv, TypeInv
<1>2. CASE PingHttps \/ PingHttp
  <2>1. /\ pc[Main] \in {"ping https", "ping http"}
        /\ UNCHANGED <<server, scopes, bearer, basic, now, mine>>
    BY <1>2 DEF PingHttps, PingHttp
  <2>2. Answered => \/ Ready /\ server.challenge # "bearer"
                    \/ Goto(Main, "refresh") /\ server.challenge = "bearer"
                    \/ Broken
    <3>1. CASE server.challenge \in {"anonymous", "basic"}
      BY <3>1 DEF Answered
    <3>2. CASE server.challenge = "bearer"
      BY <3>2 DEF Answered
    <3>3. CASE server.challenge \notin {"anonymous", "basic", "bearer"}
      BY <3>3 DEF Answered
    <3> QED BY <3>1, <3>2, <3>3
  <2>3. \/ Ready /\ server.challenge # "bearer"
        \/ Goto(Main, "refresh") /\ server.challenge = "bearer"
        \/ Broken
        \/ Goto(Main, "ping http")
    BY <1>2, <2>2 DEF PingHttps, PingHttp
  <2>4. CASE Ready /\ server.challenge # "bearer"
    BY <1>1, <2>1, <2>4, MainStep
  <2>5. CASE Broken
    <3>1. ~Ready
      BY <2>5, Labels DEF Ready, Broken
    <3> QED BY <1>1, <2>1, <2>5, <3>1, MainStep
  <2>6. CASE Goto(Main, "ping http") \/ (Goto(Main, "refresh") /\ server.challenge = "bearer")
    <3>1. ~Ready
      BY <1>1, <2>6, Labels DEF Ready, Goto, TypeInv
    <3> QED BY <1>1, <2>1, <2>6, <3>1, MainStep
  <2> QED BY <2>3, <2>4, <2>5, <2>6
<1>3. CASE RefreshSteps(Main)
  <2>1. /\ pc[Main] \in {"refresh", "exchange", "store"} /\ server.challenge = "bearer"
        /\ UNCHANGED <<server, scopes, now>>
    BY <1>1, <1>3 DEF RefreshSteps, Refresh, Exchange, ExchangeFails, Store, MainInv
  <2>2. CASE Refresh(Main) /\ basic = "registry token"
    <3>1. Ready /\ bearer' = [scopes |-> Allowed, issued |-> 0] /\ UNCHANGED <<basic, mine>>
      BY <2>2 DEF Refresh, Refreshed
    <3>2. bearer' \in Tokens
      BY <3>1, ScopeFacts DEF Tokens
    <3> QED BY <1>1, <2>1, <2>2, <3>1, <3>2, MainStep
  <2>3. CASE Refresh(Main) /\ basic # "registry token"
    <3>1. Goto(Main, "exchange") /\ UNCHANGED <<basic, bearer>>
          /\ mine' = [mine EXCEPT ![Main].flow =
                        IF basic = "identity token" THEN "oauth" ELSE "basic"]
      BY <2>3 DEF Refresh
    <3>2. mine' \in [Goroutines -> Locals]
      BY <1>1, <3>1 DEF Locals
    <3>3. ~Ready
      BY <1>1, <3>1, Labels DEF Ready, Goto, TypeInv
    <3> QED BY <1>1, <2>1, <3>1, <3>2, <3>3, MainStep
  <2>4. CASE Exchange(Main)
    <3>1. UNCHANGED <<basic, bearer>> /\ (Goto(Main, "store") \/ UNCHANGED pc)
      BY <2>4 DEF Exchange
    <3>2. mine' \in [Goroutines -> Locals]
      <4>1. \A grant \in {Allowed, Public} : Issue(grant) \in Tokens
        BY <1>1, IssueFacts
      <4>2. \/ mine' = [mine EXCEPT ![Main].flow = "basic"]
            \/ \E grant \in {Allowed, Public} : mine' = [mine EXCEPT ![Main].token = Issue(grant)]
        BY <2>4 DEF Exchange
      <4> QED BY <1>1, <4>1, <4>2 DEF Locals
    <3>3. UNCHANGED pc => Goto(Main, "exchange")
      BY <1>1, <2>4 DEF Goto, TypeInv, Exchange
    <3>4. ~Ready
      BY <1>1, <3>1, <3>3, Labels DEF Ready, Goto, TypeInv
    <3> QED BY <1>1, <2>1, <3>1, <3>2, <3>3, <3>4, MainStep
  <2>5. CASE ExchangeFails(Main)
    <3>1. Broken /\ UNCHANGED <<basic, bearer, mine>>
      BY <2>5 DEF ExchangeFails, NotRefreshed
    <3>2. ~Ready
      BY <3>1, Labels DEF Ready, Broken
    <3> QED BY <1>1, <2>1, <3>1, <3>2, MainStep
  <2>6. CASE Store(Main)
    <3>1. /\ Ready /\ bearer' = mine[Main].token /\ UNCHANGED mine
          /\ basic' = IF server.refreshes THEN "identity token" ELSE basic
      BY <2>6 DEF Store, Refreshed
    <3>2. bearer' \in Tokens /\ basic' \in Credentials
          /\ (server.refreshes => basic' = "identity token")
      BY <1>1, <3>1 DEF Locals, Credentials
    <3> QED BY <1>1, <2>1, <3>1, <3>2, MainStep
  <2> QED BY <1>3, <2>2, <2>3, <2>4, <2>5, <2>6 DEF RefreshSteps
<1> QED BY <1>2, <1>3

LEMMA NextIInv == IInv /\ [Next]_vars => IInv'
<1> SUFFICES ASSUME IInv, [Next]_vars
             PROVE  IInv'
  OBVIOUS
<1>1. CASE PingHttps \/ PingHttp \/ RefreshSteps(Main)
  BY <1>1, MainKeepsInv
<1>2. ASSUME NEW p \in Requests, RefreshSteps(p)
      PROVE  IInv'
  <2>1. CASE ExchangeFails(p)
    <3>1. pc[p] = "exchange" /\ Goto(p, "error")
          /\ UNCHANGED <<server, scopes, bearer, basic, now, mine>>
      BY <2>1, Labels DEF ExchangeFails, NotRefreshed
    <3> QED BY <3>1, RestStep DEF Quiet
  <2> QED BY <1>2, <2>1, RefreshStep, ExchangeStep, StoreStep DEF RefreshSteps
<1>3. ASSUME NEW p \in Requests, RoundTrip(p)
      PROVE  IInv'
  <2>1. CASE Send(p) \/ Resend(p)
    BY <2>1, HeaderStep DEF Send, Resend
  <2>2. CASE ResendWithoutBody(p)
    BY <2>2, RestStep DEF ResendWithoutBody, Quiet
  <2> QED BY <1>3, <2>1, <2>2, AnswerStep, ReadScopesStep, MergeScopesStep DEF RoundTrip
<1>4. CASE Expire
  <2>1. now' \in Nat /\ now' # 0 /\ UNCHANGED <<server, scopes, bearer, basic, pc, mine>>
    BY <1>4 DEF IInv, TypeInv, Expire
  <2>2. TypeInv' /\ MainInv'
    BY <2>1 DEF IInv, TypeInv, MainInv
  <2>3. \A g \in Requests : Asking(g)'
    BY <2>1 DEF IInv, Asking, Exchanging
  <2>4. \A g \in Requests : Wanted(g)' = Wanted(g)
    BY <2>1 DEF Wanted, Alone
  <2>5. \A g \in Requests : Getting(g)'
    BY <2>1, <2>4 DEF IInv, Getting, Fits
  <2> QED BY <2>2, <2>3, <2>5 DEF IInv
<1>5. CASE UNCHANGED vars
  <2>1. UNCHANGED <<server, scopes, bearer, basic, now, pc, mine>>
    BY <1>5 DEF vars
  <2>2. \A g \in Requests : Wanted(g)' = Wanted(g)
    BY <2>1 DEF Wanted, Alone
  <2>3. Grant' = Grant
    BY <2>1 DEF Grant
  <2>4. \A g \in Requests : Asking(g)' /\ Getting(g)'
    BY <2>1, <2>2, <2>3 DEF IInv, Asking, Exchanging, Getting, Fits
  <2> QED BY <2>1, <2>4 DEF IInv, TypeInv, MainInv
<1> QED BY <1>1, <1>2, <1>3, <1>4, <1>5 DEF Next, Goroutines

\* The inductive invariant.
THEOREM Invariance == Spec => []IInv
  BY InitIInv, NextIInv, PTL DEF Spec

\* No interleaving of refreshes and of appends to the transport's scopes
\* takes one of the initial scopes from a request (bearer.go:51-117).
THEOREM InitialScopesKept == Spec => []DenialNeedsCause
<1>1. IInv => DenialNeedsCause
  BY DEF IInv, Getting, Wanted, DenialNeedsCause
<1> QED BY Invariance, <1>1, PTL

\* A request that finds its scope missing gets it on its second send, unless
\* another one has come to the transport's scopes too (bearer.go:90-114).
THEOREM LateScopes == Spec => []LateScopeIsGranted
<1>1. IInv => LateScopeIsGranted
  BY DEF IInv, Getting, Wanted, Alone, LateScopeIsGranted
<1> QED BY Invariance, <1>1, PTL
=============================================================================
