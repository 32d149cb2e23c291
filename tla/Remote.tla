------------------------------- MODULE Remote -------------------------------
(***************************************************************************)
(* A remote evaluation: the SDK's client (client.py), the middleware chain *)
(* of api/app.py with its bearer-token check and the rate limiter of       *)
(* RateLimit, and the route of api/routes/evaluate.py.  Other HTTP clients *)
(* share the chain: what monitors and strangers ask of the public paths    *)
(* passes the same limiter.                                                *)
(*                                                                         *)
(* A request moves along the chain from one await to the next.  The        *)
(* client may give up at any time; the server does not notice and goes on. *)
(* The interceptor behind the route is Pipeline's: here it answers or      *)
(* raises.  Requests that Pipeline blocks for one reason or another are    *)
(* one reply, and so are all error statuses.                               *)
(***************************************************************************)
EXTENDS RateLimit, Sequences

CONSTANTS
  Clients,      \* HTTP clients, each with one request at a time
  Config,       \* their RemoteConfig: [tenant, token, failClosed]
  Probers,      \* those that also ask for public paths, as the SDK never does
  ServerToken,  \* SENTINEL_API_TOKEN of the server
  NoToken,      \* the empty token
  Seed          \* the tenants TenantManager starts with

\* The tenant get_tenant takes a header to name.  The limiter takes the header
\* as it is: Tenants are header values, and name buckets.
TenantOf(header) == IF header = "" THEN "default" ELSE header

Names == {TenantOf(t) : t \in Tenants}

ASSUME RemoteAssumption ==
  /\ Config \in [Clients -> [tenant : Tenants, token : STRING, failClosed : BOOLEAN]]
  /\ Probers \subseteq Clients
  /\ Seed \subseteq Names

VARIABLES
  tenants,  \* TenantManager._tenants
  call      \* the clients' requests

remoteVars == <<tenants, call>>
allVars == <<created, tokens, owed, answer, excess, tenants, call>>

\* The middlewares in the order in which they are added.
Mutant_AsAdded == <<"limit", "auth", "route", "interceptor">>

\* The last middleware added is the first to see a request.
Chain == <<"auth", "limit", "route", "interceptor">>

Over == Len(Chain) + 1

\* at: the place in the chain; public: the request is for a public path;
\* foreign: the action names another tenant than the header; reply: what the
\* server or the network answered; result: what the client's caller got.
CallAt(at, public, foreign) ==
  [at |-> at, public |-> public, foreign |-> foreign, reply |-> "none", result |-> "none"]

IdleCall == CallAt(0, FALSE, FALSE)

Calls ==
  [at : 0 .. Over, public : BOOLEAN, foreign : BOOLEAN,
   reply : {"none", "allow", "block", "failed", "garbled", "page"},
   result : {"none", "allow", "block", "raised", "seen"}]

At(c, gate) == call[c].at \in DOMAIN Chain /\ Chain[call[c].at] = gate

TrustedClients == {c \in Clients : ServerToken # NoToken /\ Config[c].token = ServerToken}

RemoteInit ==
  /\ Init
  /\ tenants = Seed
  /\ call = [c \in Clients |-> IdleCall]

-----------------------------------------------------------------------------
Pass(c) == call' = [call EXCEPT ![c].at = @ + 1]

Reply(c, reply) == call' = [call EXCEPT ![c].at = Over, ![c].reply = reply]

\* Sentinel.evaluate posts an action.
Submit(c) ==
  /\ call[c].at = 0
  /\ \E foreign \in BOOLEAN : call' = [call EXCEPT ![c] = CallAt(1, FALSE, foreign)]
  /\ UNCHANGED <<vars, tenants>>

\* A monitor, or anyone else, asks for one of _PUBLIC_PATHS or for /static/.
Probe(c) ==
  /\ c \in Probers /\ call[c].at = 0
  /\ call' = [call EXCEPT ![c] = CallAt(1, TRUE, FALSE)]
  /\ UNCHANGED <<vars, tenants>>

\* BearerAuthMiddleware lets every request for a public path through; for the
\* others, 503 without a token of its own and 401 on a wrong one.
Admitted(c) == call[c].public \/ c \in TrustedClients

Authenticate(c) ==
  /\ At(c, "auth")
  /\ \/ Admitted(c) /\ Pass(c)
     \/ ~Admitted(c) /\ Reply(c, "failed")
  /\ UNCHANGED <<vars, tenants>>

\* A new bucket for every request, which nobody keeps.
Mutant_BucketNotKept(c) ==
  /\ At(c, "limit")
  /\ answer' = [answer EXCEPT ![Config[c].tenant] = "served"]
  /\ excess' = [excess EXCEPT ![Config[c].tenant] = @ + Cost]
  /\ Pass(c)
  /\ UNCHANGED <<created, tokens, owed, tenants>>

\* TenantRateLimitMiddleware: 429 when the bucket is empty.  No path is exempt.
Limit(c) ==
  /\ At(c, "limit")
  /\ Request(Config[c].tenant)
  /\ \/ Available(Config[c].tenant) >= Cost /\ Pass(c)
     \/ Available(Config[c].tenant) < Cost /\ Reply(c, "failed")
  /\ UNCHANGED tenants

\* get_tenant finds the tenant of the header.
KnownTenant(c) == TenantOf(Config[c].tenant) \in tenants

\* The route without its comparison of the two tenants.
Mutant_AnyTenant(c) ==
  /\ At(c, "route")
  /\ \/ call[c].public /\ Reply(c, "page")
     \/ ~call[c].public /\ KnownTenant(c) /\ Pass(c)
     \/ ~call[c].public /\ ~KnownTenant(c) /\ Reply(c, "failed")
  /\ UNCHANGED <<vars, tenants>>

\* The public paths have routes of their own, which ask for no tenant.  On
\* /v1/evaluate, 404 for an unknown tenant, 403 for an action of another one.
Route(c) ==
  /\ At(c, "route")
  /\ \/ call[c].public /\ Reply(c, "page")
     \/ ~call[c].public /\ KnownTenant(c) /\ ~call[c].foreign /\ Pass(c)
     \/ ~call[c].public /\ (~KnownTenant(c) \/ call[c].foreign) /\ Reply(c, "failed")
  /\ UNCHANGED <<vars, tenants>>

\* Interceptor.evaluate: a decision, or an exception that becomes a 500.
Evaluate(c) ==
  /\ At(c, "interceptor")
  /\ \E reply \in {"allow", "block", "failed"} : Reply(c, reply)
  /\ UNCHANGED <<vars, tenants>>

\* The request does not arrive, or something in between answers for the
\* server with a page that is no decision.
Lose(c) ==
  /\ call[c].at = 1
  /\ \E reply \in {"failed", "garbled"} : Reply(c, reply)
  /\ UNCHANGED <<vars, tenants>>

-----------------------------------------------------------------------------
\* fail_closed taken the other way round.
Mutant_FailsOpen(c) == IF Config[c].failClosed THEN "allow" ELSE "raised"

\* What evaluate gives its caller when the request raised.
OnException(c) == IF Config[c].failClosed THEN "block" ELSE "raised"

\* What it makes of a response: model_validate is outside the try.
\* What a prober makes of a page decides nothing.
Result(c) ==
  CASE call[c].public            -> "seen"
    [] call[c].reply = "failed"  -> OnException(c)
    [] call[c].reply = "garbled" -> "raised"
    [] OTHER                     -> call[c].reply

Receive(c) ==
  /\ call[c].at = Over /\ call[c].result = "none"
  /\ call' = [call EXCEPT ![c].result = Result(c)]
  /\ UNCHANGED <<vars, tenants>>

\* The time-out, while the request is on its way or the response is.
GiveUp(c) ==
  /\ call[c].at # 0 /\ call[c].result = "none"
  /\ call' = [call EXCEPT ![c].result = IF call[c].public THEN "seen" ELSE OnException(c)]
  /\ UNCHANGED <<vars, tenants>>

\* The caller has its result and the server is done with the request.
Finish(c) ==
  /\ call[c].at = Over /\ call[c].result # "none"
  /\ call' = [call EXCEPT ![c] = IdleCall]
  /\ UNCHANGED <<vars, tenants>>

\* TenantManager.register.
Register(t) ==
  /\ t \notin tenants
  /\ tenants' = tenants \cup {t}
  /\ UNCHANGED <<vars, call>>

ClockTick == Tick /\ UNCHANGED remoteVars

RemoteNext ==
  \/ \E c \in Clients :
       \/ Submit(c) \/ Probe(c) \/ Authenticate(c) \/ Limit(c) \/ Route(c) \/ Evaluate(c)
       \/ Lose(c) \/ Receive(c) \/ GiveUp(c) \/ Finish(c)
  \/ \E t \in Names : Register(t)
  \/ ClockTick

RemoteSpec == RemoteInit /\ [][RemoteNext]_allVars

RemoteLiveSpec == RemoteSpec /\ WF_allVars(ClockTick)

-----------------------------------------------------------------------------
RemoteTypeOK ==
  /\ TypeOK
  /\ tenants \in SUBSET Names
  /\ call \in [Clients -> Calls]

(***************************************************************************)
(* The rate limiter inside the chain is the one of RateLimit.              *)
(***************************************************************************)
LimiterSpec == Spec

(***************************************************************************)
(* The interceptor sees, and decides, only requests with the server's      *)
(* token, of a tenant that exists, whose action names no other tenant: no  *)
(* order of the checks and of registrations lets another one through.      *)
(***************************************************************************)
OnlyAuthorisedEvaluated ==
  \A c \in Clients :
    At(c, "interceptor") \/ call[c].reply \in {"allow", "block"} =>
      /\ c \in TrustedClients
      /\ KnownTenant(c)
      /\ ~call[c].foreign

(***************************************************************************)
(* A caller gets ALLOW only where the server has said so: not from a       *)
(* time-out, an error status, a lost request or a strange page.            *)
(***************************************************************************)
AllowIsServers ==
  \A c \in Clients : call[c].result = "allow" => call[c].reply = "allow"

(***************************************************************************)
(* A bucket loses tokens in a step exactly when a request that names it    *)
(* and was let in gets past the limiter, with the server's token or to a   *)
(* public path: the requests that authentication refuses cost their tenant *)
(* nothing, and nobody is served without paying.                           *)
(***************************************************************************)
TokenPerAdmission ==
  [][\A t \in Tenants :
       Available(t)' < Available(t)
         <=> \E c \in Clients :
               Config[c].tenant = t /\ Admitted(c) /\ At(c, "limit") /\ At(c, "route")']_allVars

(***************************************************************************)
(* A tenant whose requests keep reaching the limiter is served after every *)
(* refusal, whatever its clients give up and the network loses.            *)
(***************************************************************************)
RetriesServed ==
  \A t \in Tenants :
    []<><<\E c \in Clients : Config[c].tenant = t /\ Limit(c)>>_allVars
      => (answer[t] = "refused" ~> answer[t] = "served")

=============================================================================
