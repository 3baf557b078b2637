----------------------------- MODULE TokenTrust -----------------------------
(***************************************************************************)
(* Bearer tokens: AuthenticationService over a verifier that keeps copies  *)
(* of the issuer's discovery document and key set, an introspection        *)
(* endpoint for requests that must be fresh, and a limiter of failures.    *)
(* One worker process; the issuer rotates its keys, is unreachable at      *)
(* times, and deactivates the subject.  A request reads the clock once,    *)
(* when it starts, and uses that moment however long it then waits.        *)
(***************************************************************************)
EXTENDS Integers, FiniteSets

CONSTANTS
    Requests,   \* requests in flight, all from one source address
    Kids,       \* the issuer's signing keys
    Tokens,     \* tokens: the key they name, whether they are otherwise good,
                \* and whether the operation wants a fresh answer
    Nobody,     \* no request holds the lock
    NoMoment,   \* no such moment
    Ttl, StaleMax,      \* CacheWindow of both documents
    Cooldown,   \* between two fetches for an unknown key
    Limit, Window,      \* of the FixedWindowLimiter
    LastMoment, \* bound: the clock
    MaxStarts,  \* bound: requests started in one behaviour
    MaxEvents   \* bound: changes at the issuer in one behaviour

ASSUME TrustAssumption ==
    /\ Nobody \notin Requests
    /\ NoMoment \notin 0..LastMoment
    /\ Ttl \in Nat /\ StaleMax \in Nat /\ Ttl <= StaleMax
    /\ Cooldown \in Nat \ {0} /\ Limit \in Nat \ {0} /\ Window \in Nat \ {0}
    /\ Tokens \subseteq [kid : Kids, good : BOOLEAN, fresh : BOOLEAN]
    /\ {LastMoment, MaxStarts, MaxEvents} \subseteq Nat

VARIABLES
    now,        \* the clock
    up,         \* the issuer answers
    published,  \* the keys in the issuer's key set
    retired,    \* when each key was withdrawn, or NoMoment
    active,     \* the subject is active at the issuer
    disco,      \* when the cached discovery document was fetched, or NoMoment
    jwks,       \* the cached key set: [keys, at]
    attempt,    \* when a fetch for an unknown key was last begun
    lock,       \* the request that fetches the key set
    service,    \* the service token: none, valid or stale
    denials,    \* the limiter's window: [at, count]
    auth,       \* each request
    refetches,  \* history: how many fetches for an unknown key were begun
    starts, events

trustVars == <<now, up, published, retired, active, disco, jwks, attempt, lock,
               service, denials, auth, refetches, starts, events>>

issuer == <<now, up, published, retired, active, events>>

(* A request: the key its token names and whether the token is otherwise   *)
(* good, the moment it started, the key set it was given, and whether the  *)
(* subject was active at some moment since.                                *)
NoRequest == [phase |-> "idle", kid |-> NoMoment, good |-> FALSE, fresh |-> FALSE, at |-> 0,
         keys |-> {}, asked |-> FALSE, held |-> FALSE]

InFlight == {r \in Requests : auth[r].phase \notin {"idle", "accepted"}}

TrustInit ==
    /\ now = 0 /\ up = TRUE /\ active = TRUE
    /\ \E k \in Kids : published = {k}
    /\ retired = [k \in Kids |-> NoMoment]
    /\ disco = NoMoment
    /\ jwks = [keys |-> {}, at |-> NoMoment]
    /\ attempt = NoMoment
    /\ lock = Nobody
    /\ service = "none"
    /\ denials = [at |-> NoMoment, count |-> 0]
    /\ auth = [r \in Requests |-> NoRequest]
    /\ refetches = 0 /\ starts = 0 /\ events = 0

-----------------------------------------------------------------------------
(* The issuer.                                                             *)

Event == events < MaxEvents /\ events' = events + 1

issuer_rotates ==
    /\ Event
    /\ \E k \in Kids \ published :
        /\ retired[k] = NoMoment
        /\ published' = published \cup {k}
    /\ UNCHANGED <<now, up, retired, active, disco, jwks, attempt, lock, service, denials,
                   auth, refetches, starts>>

issuer_retires ==
    /\ Event
    /\ \E k \in published :
        /\ published' = published \ {k}
        /\ retired' = [retired EXCEPT ![k] = now]
    /\ UNCHANGED <<now, up, active, disco, jwks, attempt, lock, service, denials, auth,
                   refetches, starts>>

(* Deactivated or demoted, and the other way round. *)
issuer_changes_subject ==
    /\ Event
    /\ active' = ~ active
    /\ auth' = [r \in Requests |->
                   IF r \in InFlight /\ active' THEN [auth[r] EXCEPT !.held = TRUE]
                                                ELSE auth[r]]
    /\ UNCHANGED <<now, up, published, retired, disco, jwks, attempt, lock, service,
                   denials, refetches, starts>>

issuer_outage ==
    /\ Event
    /\ up' = ~ up
    /\ UNCHANGED <<now, published, retired, active, disco, jwks, attempt, lock, service,
                   denials, auth, refetches, starts>>

(* The issuer no longer accepts the service token it gave. *)
service_token_stale ==
    /\ Event
    /\ service = "valid"
    /\ service' = "stale"
    /\ UNCHANGED <<now, up, published, retired, active, disco, jwks, attempt, lock, denials, auth,
                   refetches, starts>>

clock_ticks ==
    /\ now < LastMoment
    /\ now' = now + 1
    /\ UNCHANGED <<up, published, retired, active, disco, jwks, attempt, lock, service,
                   denials, auth, refetches, starts, events>>

-----------------------------------------------------------------------------
(* FixedWindowLimiter *)

Expired(w, t) == w.at = NoMoment \/ t - w.at >= Window

IsLimited(t) == ~ Expired(denials, t) /\ denials.count >= Limit

Recorded(t) ==
    IF Expired(denials, t) THEN [at |-> t, count |-> 1] ELSE [denials EXCEPT !.count = @ + 1]

(* AuthenticationService.authenticate: refused at once when limited; a     *)
(* limited request leaves no trace.                                        *)
authenticate(r, token) ==
    /\ auth[r].phase = "idle" /\ starts < MaxStarts
    /\ ~ IsLimited(now)
    /\ auth' = [auth EXCEPT ![r] = [NoRequest EXCEPT !.phase = "discover",
                    !.kid = token.kid, !.good = token.good, !.fresh = token.fresh,
                    !.at = now, !.held = active]]
    /\ starts' = starts + 1
    /\ UNCHANGED <<issuer, disco, jwks, attempt, lock, service, denials, refetches>>

(* The ends of a request.  An AuthenticationError is counted; a dependency *)
(* that is unavailable is not.                                             *)
Accepted(r) == auth' = [auth EXCEPT ![r].phase = "accepted"] /\ UNCHANGED denials

Denied(r) ==
    /\ auth' = [auth EXCEPT ![r] = NoRequest]
    /\ denials' = Recorded(auth[r].at)

Unavailable(r) == auth' = [auth EXCEPT ![r] = NoRequest] /\ UNCHANGED denials

responded(r) ==
    /\ auth[r].phase = "accepted"
    /\ auth' = [auth EXCEPT ![r] = NoRequest]
    /\ UNCHANGED <<issuer, disco, jwks, attempt, lock, service, denials, refetches, starts>>

-----------------------------------------------------------------------------
(* DiscoveryClient: a fresh copy is served as it is; otherwise the         *)
(* document is fetched, and a copy no older than StaleMax serves while the *)
(* issuer is unreachable.                                                  *)

IsFresh(fetched, t) == fetched # NoMoment /\ t - fetched < Ttl

(* A variant with no limit on the age of a copy. *)
IsUsableAlways(fetched, t) == fetched # NoMoment

IsUsable(fetched, t) == fetched # NoMoment /\ t - fetched <= StaleMax

(* metadata(): whether it answers, and the copy it leaves. *)
MetadataServed(t) == IsFresh(disco, t) \/ up \/ IsUsable(disco, t)
MetadataAfter(t) == IF ~ IsFresh(disco, t) /\ up THEN t ELSE disco

metadata(r) ==
    /\ auth[r].phase = "discover"
    /\ disco' = MetadataAfter(auth[r].at)
    /\ \/ /\ MetadataServed(auth[r].at)
          /\ auth' = [auth EXCEPT ![r].phase = "keys"] /\ UNCHANGED denials
       \/ ~ MetadataServed(auth[r].at) /\ Unavailable(r)
    /\ UNCHANGED <<issuer, jwks, attempt, lock, service, refetches, starts>>

(* jwks(): a fresh key set is served; otherwise the request fetches it     *)
(* once it has the lock and has looked again.                              *)
jwks_served(r) ==
    /\ auth[r].phase = "keys" /\ IsFresh(jwks.at, auth[r].at)
    /\ auth' = [auth EXCEPT ![r].phase = "match", ![r].keys = jwks.keys]
    /\ UNCHANGED <<issuer, disco, jwks, attempt, lock, service, denials, refetches, starts>>

jwks_locked(r) ==
    /\ \/ auth[r].phase = "keys" /\ ~ IsFresh(jwks.at, auth[r].at)
       \/ auth[r].phase = "refresh"
    /\ lock = Nobody
    /\ lock' = r
    /\ auth' = [auth EXCEPT ![r].phase = "fetch"]
    /\ UNCHANGED <<issuer, disco, jwks, attempt, service, denials, refetches, starts>>

(* _fetch_jwks under the lock: the answer, the copy, or nothing.  However  *)
(* the fetch ends, `async with` gives the lock back.                       *)
_fetch_jwks(r) ==
    /\ auth[r].phase = "fetch"
    /\ lock' = Nobody
    /\ LET t == auth[r].at IN
        /\ disco' = MetadataAfter(t)
        /\ \/ /\ MetadataServed(t) /\ up
              /\ jwks' = [keys |-> published, at |-> t]
              /\ auth' = [auth EXCEPT ![r].phase = "match", ![r].keys = published]
              /\ UNCHANGED denials
           \/ /\ MetadataServed(t) /\ ~ up /\ IsUsable(jwks.at, t)
              /\ auth' = [auth EXCEPT ![r].phase = "match", ![r].keys = jwks.keys]
              /\ UNCHANGED <<jwks, denials>>
           \/ /\ ~ up /\ ~ (MetadataServed(t) /\ IsUsable(jwks.at, t))
              /\ Unavailable(r)
              /\ UNCHANGED jwks
    /\ UNCHANGED <<issuer, attempt, service, refetches, starts>>

(* refresh_jwks_for_unknown_kid: may_refresh and the note of the attempt   *)
(* are one step; within the cooldown the copy is served as it is.          *)
MayRefresh(t) == attempt = NoMoment \/ t - attempt >= Cooldown

(* A variant that notes the attempt only when the fetch has succeeded. *)
refresh_unnoted(r) ==
    /\ auth[r].phase = "match" /\ ~ auth[r].asked /\ auth[r].kid \notin auth[r].keys
    /\ IF MayRefresh(auth[r].at)
       THEN /\ attempt' = IF up THEN auth[r].at ELSE attempt
            /\ refetches' = refetches + 1
            /\ auth' = [auth EXCEPT ![r].phase = "refresh", ![r].asked = TRUE]
       ELSE /\ auth' = [auth EXCEPT ![r].keys = jwks.keys, ![r].asked = TRUE]
            /\ UNCHANGED <<attempt, refetches>>
    /\ UNCHANGED <<issuer, disco, jwks, lock, service, denials, starts>>

refresh_jwks_for_unknown_kid(r) ==
    /\ auth[r].phase = "match" /\ ~ auth[r].asked /\ auth[r].kid \notin auth[r].keys
    /\ IF MayRefresh(auth[r].at)
       THEN /\ attempt' = auth[r].at
            /\ refetches' = refetches + 1
            /\ auth' = [auth EXCEPT ![r].phase = "refresh", ![r].asked = TRUE]
       ELSE /\ auth' = [auth EXCEPT ![r].keys = jwks.keys, ![r].asked = TRUE]
            /\ UNCHANGED <<attempt, refetches>>
    /\ UNCHANGED <<issuer, disco, jwks, lock, service, denials, starts>>

(* A refresh or MFA token has the issuer and the signature of a bearer     *)
(* token: its type tells it apart.                                         *)
ensure_bearer_token_type(r) == auth[r].good

(* _decode and the policy checks: a token that is not signed by a key of   *)
(* the set, of the wrong type, issuer, algorithm or past its expiry is     *)
(* denied; what remains is accepted, or introspected when it must be.      *)
decoded(r) ==
    /\ auth[r].phase = "match"
    /\ auth[r].kid \in auth[r].keys \/ auth[r].asked
    /\ \/ /\ auth[r].kid \in auth[r].keys /\ ensure_bearer_token_type(r)
          /\ IF auth[r].fresh
             THEN auth' = [auth EXCEPT ![r].phase = "introspect"] /\ UNCHANGED denials
             ELSE Accepted(r)
       \/ ~ (auth[r].kid \in auth[r].keys /\ ensure_bearer_token_type(r)) /\ Denied(r)
    /\ UNCHANGED <<issuer, disco, jwks, attempt, lock, service, refetches, starts>>

-----------------------------------------------------------------------------
(* CyberdyneIntrospector: the service token is fetched when there is none; *)
(* a rejected one is dropped and fetched again, once.  The answer of the   *)
(* issuer decides; without an answer the request fails.                    *)

service_token(r) ==
    /\ auth[r].phase \in {"introspect", "retry"} /\ service = "none"
    /\ \/ up /\ service' = "valid" /\ UNCHANGED <<auth, denials>>
       \/ ~ up /\ Unavailable(r) /\ UNCHANGED service
    /\ UNCHANGED <<issuer, disco, jwks, attempt, lock, refetches, starts>>

(* A variant that trusts the token's own claims when nobody answers. *)
introspect_open(r) ==
    /\ auth[r].phase \in {"introspect", "retry"} /\ service # "none"
    /\ \/ ~ up /\ Accepted(r) /\ UNCHANGED service
       \/ up /\ (IF active THEN Accepted(r) ELSE Denied(r)) /\ UNCHANGED service
    /\ UNCHANGED <<issuer, disco, jwks, attempt, lock, refetches, starts>>

introspect(r) ==
    /\ auth[r].phase \in {"introspect", "retry"} /\ service # "none"
    /\ \/ ~ up /\ Unavailable(r) /\ UNCHANGED service
       \/ /\ up /\ service = "stale"
          /\ IF auth[r].phase = "introspect"
             THEN /\ service' = "none"
                  /\ auth' = [auth EXCEPT ![r].phase = "retry"] /\ UNCHANGED denials
             ELSE Unavailable(r) /\ UNCHANGED service
       \/ /\ up /\ service = "valid"
          /\ IF active THEN Accepted(r) ELSE Denied(r)
          /\ UNCHANGED service
    /\ UNCHANGED <<issuer, disco, jwks, attempt, lock, refetches, starts>>

-----------------------------------------------------------------------------
Handle(r) ==
    \/ metadata(r) \/ jwks_served(r) \/ jwks_locked(r) \/ _fetch_jwks(r)
    \/ refresh_jwks_for_unknown_kid(r) \/ decoded(r) \/ service_token(r) \/ introspect(r)
    \/ responded(r)

Issuer ==
    \/ issuer_rotates \/ issuer_retires \/ issuer_changes_subject \/ issuer_outage
    \/ service_token_stale \/ clock_ticks

TrustNext ==
    \/ \E r \in Requests : Handle(r)
    \/ \E r \in Requests, token \in Tokens : authenticate(r, token)
    \/ Issuer

TrustSpec == TrustInit /\ [][TrustNext]_trustVars

-----------------------------------------------------------------------------
(* A token signed by a key the issuer has withdrawn is accepted for at     *)
(* most StaleMax after the withdrawal, through outages, copies that are    *)
(* served stale, and requests that wait for the fetch of another.          *)
WithdrawnKeyRefused ==
    \A r \in Requests : auth[r].phase \in {"introspect", "retry", "accepted"} =>
        \/ retired[auth[r].kid] = NoMoment
        \/ auth[r].at - retired[auth[r].kid] <= StaleMax

(* Tokens that name unknown keys, however many and however the fetches     *)
(* fail, make the process ask the issuer at most once per cooldown.        *)
RefetchesBounded == refetches <= 1 + now \div Cooldown

(* A request that must be fresh is accepted only if the issuer held the    *)
(* subject active at some moment since the request started; neither an     *)
(* outage nor a stale service token lets an older answer through.          *)
FreshMeansActive ==
    \A r \in Requests : auth[r].phase = "accepted" /\ auth[r].fresh => auth[r].held
=============================================================================
