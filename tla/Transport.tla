------------------------------ MODULE Transport ------------------------------
(***************************************************************************)
(* transport.NewWithContext and the transports it builds (pkg/v1/remote/   *)
(* transport: transport.go, ping.go, bearer.go, basic.go).  Main pings the *)
(* registry and, on a Bearer challenge, exchanges credentials for a first  *)
(* token; then any number of goroutines send their requests through one    *)
(* bearerTransport, whose scopes, bearer and basic fields they read and    *)
(* write without a lock.  A 401 makes a goroutine add the scope it was     *)
(* told, exchange again, and send its request once more.                   *)
(*                                                                         *)
(* A token stands for what it grants and for the time it was issued; all   *)
(* tokens of earlier times have expired.  A field is read or written in    *)
(* one step: the torn reads of a Go slice header are not modelled.  The    *)
(* 401 of a registry that asks for tokens carries a challenge.             *)
(***************************************************************************)
EXTENDS Naturals, FiniteSets

CONSTANTS
    Requests,       \* the goroutines, one request each
    Need,           \* the scope each request needs
    HasBody,        \* the requests with a body
    Initial,        \* the scopes NewWithContext is given
    Allowed,        \* what the token server grants to the user
    Public,         \* what it grants to anybody
    Insecure,       \* reg.Scheme() is "http": a local registry, or declared so
    MaxExpiries     \* bound: times at which all tokens expire

Scopes == Initial \cup Allowed \cup Public \cup {Need[g] : g \in Requests}
Main == "main"
Goroutines == Requests \cup {Main}

ASSUME TransportAssumption ==
    /\ Main \notin Requests
    /\ HasBody \subseteq Requests
    /\ Public \subseteq Allowed
    \* Whoever makes a transport names the scope of its repository at least.
    /\ Initial # {}
    /\ Insecure \in BOOLEAN
    /\ MaxExpiries \in Nat

VARIABLES
    server,     \* the registry and its token server
    scopes, bearer, basic,      \* the fields of bearerTransport
    now,        \* how often tokens have expired
    pc,         \* where each goroutine is
    mine        \* its local variables

vars == <<server, scopes, bearer, basic, now, pc, mine>>

\* What a server may be like: its challenge to a ping, whether its token
\* server knows the oauth flow and hands out refresh tokens, and whether its
\* challenges name the scope.
Servers ==
    [challenge : {"anonymous", "basic", "bearer", "other"},
     oauth : BOOLEAN, refreshes : BOOLEAN, tellsScope : BOOLEAN]

Credentials == {"registry token", "identity token", "password", "none"}
NoToken == [scopes |-> {}, issued |-> 0]

Init ==
    /\ server \in Servers
    /\ scopes = Initial
    /\ bearer = NoToken
    /\ basic \in Credentials
    /\ now = 0
    /\ pc = [p \in Goroutines |-> IF p = Main THEN "ping https" ELSE "idle"]
    /\ mine = [p \in Goroutines |-> [token |-> NoToken, scopes |-> {}, flow |-> "basic"]]

Goto(p, label) == pc' = [pc EXCEPT ![p] = label]

\* Main is done: the requests are sent, or never will be.
Ready == pc' = [p \in Goroutines |-> IF p = Main THEN "ok" ELSE "send"]
Broken == pc' = [p \in Goroutines |-> "error"]

(***************************************************************************)
(* NewWithContext: ping, then seed the bearer token.                       *)
(***************************************************************************)

Answered ==
    CASE server.challenge \in {"anonymous", "basic"} -> Ready
      [] server.challenge = "bearer" -> Goto(Main, "refresh")
      [] OTHER -> Broken

\* A ping may get no answer; http is the second try of an insecure registry.
\* The scheme that answered is used from then on and is not kept here.
PingHttps ==
    /\ pc[Main] = "ping https"
    /\ Answered \/ (IF Insecure THEN Goto(Main, "ping http") ELSE Broken)
    /\ UNCHANGED <<server, scopes, bearer, basic, now, mine>>

PingHttp ==
    /\ pc[Main] = "ping http"
    /\ Answered \/ Broken
    /\ UNCHANGED <<server, scopes, bearer, basic, now, mine>>

(***************************************************************************)
(* bearerTransport.refresh, called by Main and by challenged goroutines.   *)
(***************************************************************************)

\* refresh returned nil, or an error.
Refreshed(p) == IF p = Main THEN Ready ELSE Goto(p, "resend")
NotRefreshed(p) == IF p = Main THEN Broken ELSE Goto(p, "error")

\* A registry token is used as it is; it grants what the user may do.
Refresh(p) ==
    /\ pc[p] = "refresh"
    /\ IF basic = "registry token"
         THEN /\ bearer' = [scopes |-> Allowed, issued |-> 0]
              /\ Refreshed(p)
              /\ UNCHANGED mine
         ELSE /\ mine' = [mine EXCEPT ![p].flow =
                            IF basic = "identity token" THEN "oauth" ELSE "basic"]
              /\ Goto(p, "exchange")
              /\ UNCHANGED bearer
    /\ UNCHANGED <<server, scopes, basic, now>>

\* The token that the token server issues to these credentials now.
Issue(grant) == [scopes |-> scopes \cap grant, issued |-> now]

\* refreshOauth, then refreshBasic when the former is answered with a 404.
\* basicTransport has nothing to send for an identity token.
Exchange(p) ==
    /\ pc[p] = "exchange"
    /\ \/ /\ mine[p].flow = "oauth" /\ ~server.oauth
          /\ mine' = [mine EXCEPT ![p].flow = "basic"]
          /\ UNCHANGED pc
       \/ /\ mine[p].flow = "oauth" /\ server.oauth
          /\ mine' = [mine EXCEPT ![p].token = Issue(Allowed)]
          /\ Goto(p, "store")
       \/ /\ mine[p].flow = "basic"
          /\ mine' = [mine EXCEPT ![p].token =
                        Issue(IF basic = "password" THEN Allowed ELSE Public)]
          /\ Goto(p, "store")
    /\ UNCHANGED <<server, scopes, bearer, basic, now>>

\* Anything but a token: an error, a timeout, a reply without one.
ExchangeFails(p) ==
    /\ pc[p] = "exchange"
    /\ NotRefreshed(p)
    /\ UNCHANGED <<server, scopes, bearer, basic, now, mine>>

Store(p) ==
    /\ pc[p] = "store"
    /\ bearer' = mine[p].token
    /\ basic' = IF server.refreshes THEN "identity token" ELSE basic
    /\ Refreshed(p)
    /\ UNCHANGED <<server, scopes, now, mine>>

(***************************************************************************)
(* RoundTrip.                                                              *)
(***************************************************************************)

\* The Authorization header is made from the token of this moment.
SetHeader(p, from, to) ==
    /\ pc[p] = from
    /\ mine' = [mine EXCEPT ![p].token = bearer]
    /\ Goto(p, to)
    /\ UNCHANGED <<server, scopes, bearer, basic, now>>

Send(g) == SetHeader(g, "send", "sent")

\* The body of the first send is not there any more.
Resend(g) == g \notin HasBody /\ SetHeader(g, "resend", "resent")

ResendWithoutBody(g) ==
    /\ g \in HasBody /\ pc[g] = "resend"
    /\ Goto(g, "error")
    /\ UNCHANGED <<server, scopes, bearer, basic, now, mine>>

\* What the registry makes of the header.
Accepted(g) ==
    CASE server.challenge = "anonymous" -> TRUE
      [] server.challenge = "basic" ->
            Need[g] \in (IF basic = "password" THEN Allowed ELSE Public)
      [] OTHER -> Need[g] \in mine[g].token.scopes /\ mine[g].token.issued = now

\* Mutant: a second challenge is met like the first.
AnswerAgain(g) ==
    /\ pc[g] \in {"sent", "resent"}
    /\ Goto(g, IF Accepted(g) THEN "ok"
               ELSE IF server.challenge # "bearer" THEN "denied"
               ELSE IF server.tellsScope THEN "challenged" ELSE "refresh")
    /\ UNCHANGED <<server, scopes, bearer, basic, now, mine>>

Answer(g) ==
    /\ pc[g] \in {"sent", "resent"}
    /\ Goto(g, IF Accepted(g) THEN "ok"
               ELSE IF pc[g] = "resent" \/ server.challenge # "bearer" THEN "denied"
               ELSE IF server.tellsScope THEN "challenged" ELSE "refresh")
    /\ UNCHANGED <<server, scopes, bearer, basic, now, mine>>

\* got := stringSet(bt.scopes)
ReadScopes(g) ==
    /\ pc[g] = "challenged"
    /\ mine' = [mine EXCEPT ![g].scopes = scopes]
    /\ Goto(g, IF Need[g] \in scopes THEN "refresh" ELSE "merge")
    /\ UNCHANGED <<server, scopes, bearer, basic, now>>

\* Mutant: the scopes are replaced by what the challenge asks for.
ReplaceScopes(g) ==
    /\ pc[g] = "merge"
    /\ scopes' = {Need[g]}
    /\ Goto(g, "refresh")
    /\ UNCHANGED <<server, bearer, basic, now, mine>>

\* Mutant: the challenge's scope is added to a copy.
MergeIntoCopy(g) ==
    /\ pc[g] = "merge"
    /\ Goto(g, "refresh")
    /\ UNCHANGED <<server, scopes, bearer, basic, now, mine>>

\* bt.scopes = append(bt.scopes, want): of the slice as it was read, so what
\* another goroutine has appended meanwhile may be lost.
MergeScopes(g) ==
    /\ pc[g] = "merge"
    /\ \E read \in {mine[g].scopes, scopes} : scopes' = read \cup {Need[g]}
    /\ Goto(g, "refresh")
    /\ UNCHANGED <<server, bearer, basic, now, mine>>

Expire ==
    /\ now < MaxExpiries
    /\ now' = now + 1
    /\ UNCHANGED <<server, scopes, bearer, basic, pc, mine>>

RoundTrip(g) ==
    \/ Send(g) \/ Answer(g)
    \/ ReadScopes(g) \/ MergeScopes(g)
    \/ Resend(g) \/ ResendWithoutBody(g)

RefreshSteps(p) == Refresh(p) \/ Exchange(p) \/ ExchangeFails(p) \/ Store(p)

Next ==
    \/ PingHttps \/ PingHttp
    \/ \E p \in Goroutines : RefreshSteps(p)
    \/ \E g \in Requests : RoundTrip(g)
    \/ Expire

Spec == Init /\ [][Next]_vars

\* A goroutine that can run does, and its requests are answered.
FairSpec == Spec /\ WF_vars(Next)

(***************************************************************************)
(* Properties.                                                             *)
(***************************************************************************)

\* What an exchange gets for the credentials the transport now has: a refresh
\* token has replaced the password, and without the oauth flow it is of no use.
Grant ==
    IF basic \in {"registry token", "password"} \/ (basic = "identity token" /\ server.oauth)
      THEN Allowed ELSE Public

\* However goroutines interleave, a request for one of the initial scopes is
\* denied only if tokens expired or the credentials do not get that scope:
\* appends that are lost, tokens that overwrite each other, and a refresh on
\* behalf of another request (bearer.go:96-112) never take it away.
DenialNeedsCause ==
    \A g \in Requests :
        (/\ pc[g] = "denied" /\ server.challenge = "bearer"
         /\ now = 0 /\ Need[g] \in Initial)
        => Need[g] \notin Grant

\* A request that needs one more scope than the transport asked for has it on
\* its second send (bearer.go:90-114), unless another challenged request
\* appended a scope at the same time.
LateScopeIsGranted ==
    \A g \in Requests :
        (/\ pc[g] = "denied" /\ server.challenge = "bearer" /\ server.tellsScope
         /\ now = 0 /\ Need[g] \in Grant)
        => \E other \in Requests \ {g} : mine[other].scopes # {}

Returned(g) == pc[g] \in {"ok", "denied", "error"}

\* Every request returns: a 401 is met with one refresh and one more send,
\* never with a second refresh (bearer.go:109-114).
AllReturn == <>(\A g \in Requests : Returned(g))

=============================================================================
