------------------------------- MODULE Session -------------------------------
(***************************************************************************)
(* Signing in and out of the web client: the route guard, the tenant       *)
(* lookup behind the OIDC manager, the code exchange on the callback page, *)
(* the token of the API client, its renewal and its loss.                  *)
(*                                                                         *)
(* Nothing but the sign-in state of oidc-client-ts outlives the page: the  *)
(* session, the token and the manager are memory, and each time the        *)
(* browser is sent elsewhere they are gone.                                *)
(***************************************************************************)
EXTENDS Naturals, FiniteSets

CONSTANTS
    Token,        \* access tokens, reused once nobody holds them
    Nothing

ASSUME TokensAreDistinct == {Nothing, "none", "code"} \intersect Token = {}

VARIABLES
    where,        \* what the browser shows: "app", "callback", "idp" or "out"
    realm,        \* the realm asked to sign in, or whose code the callback holds
    sso,          \* realms in which the identity provider remembers the user
    token,        \* _token of api/client
    session,      \* the token of AuthProvider's session, Nothing without one
    good,         \* the tokens the server accepts
    latch,        \* ProtectedRoute's `redirecting'
    asks,         \* continuations of getOidcManager: [for, via]
    manager,      \* _resolvedManager: a realm or Nothing
    exchange,     \* the callback: "none", "code", or the token it got
    renewing,     \* a silent renewal is in flight
    calls         \* tokens of the API requests in flight

memory == <<token, session, latch, asks, manager, exchange, renewing, calls>>
vars == <<where, realm, sso, good, memory>>

(* /api/tenant-config names the tenant's realm; when it cannot be asked    *)
(* the built-in default takes its place until the page is loaded again.    *)
Realm == {"tenant", "default"}

TypeOK ==
    /\ where \in {"app", "callback", "idp", "out"}
    /\ realm \in Realm \union {Nothing} /\ manager \in Realm \union {Nothing}
    /\ sso \subseteq Realm
    /\ token \in Token \union {Nothing} /\ session \in Token \union {Nothing}
    /\ good \subseteq Token /\ calls \subseteq Token \union {Nothing}
    /\ asks \subseteq [for : {"warm", "signin", "signout", "exchange"}, via : Realm \union {Nothing}]
    /\ exchange \in {"none", "code"} \union Token
    /\ latch \in BOOLEAN /\ renewing \in BOOLEAN

-----------------------------------------------------------------------------
(* Asking for the manager: at once when it is known, else after a lookup.  *)
Ask(purpose) == [for |-> purpose, via |-> manager]

(* A page load: main.tsx warms the configuration, the callback page asks   *)
(* for the manager that is to exchange its code.                           *)
Loads(place) ==
    /\ where' = place
    /\ token' = Nothing /\ session' = Nothing /\ latch' = FALSE /\ manager' = Nothing
    /\ exchange' = "none" /\ renewing' = FALSE /\ calls' = {}
    /\ asks' = CASE place = "app" -> {[for |-> "warm", via |-> Nothing]}
                 [] place = "callback" -> {[for |-> "warm", via |-> Nothing],
                                           [for |-> "exchange", via |-> Nothing]}
                 [] OTHER -> {}

Init ==
    /\ where = "out" /\ realm = Nothing /\ sso = {} /\ good = {}
    /\ token = Nothing /\ session = Nothing /\ latch = FALSE /\ manager = Nothing
    /\ asks = {} /\ exchange = "none" /\ renewing = FALSE /\ calls = {}

(* The user opens the application, or gives up on the callback page.       *)
OpenApp ==
    /\ where # "app"
    /\ Loads("app") /\ UNCHANGED <<realm, sso, good>>

(* Lookups in flight together each answer for themselves; the last one to  *)
(* answer decides which manager later calls get.                           *)
LookUpDropping(a, r) ==
    /\ a.via = Nothing
    /\ manager' = r
    /\ asks' = IF r = "default" THEN asks \ {a}
               ELSE (asks \ {a}) \union ({[a EXCEPT !.via = r]} \ {[for |-> "warm", via |-> r]})
    /\ UNCHANGED <<where, realm, sso, good, token, session, latch, exchange,
                   renewing, calls>>

LookUp(a, r) ==
    /\ a.via = Nothing
    /\ manager' = r
    /\ asks' = (asks \ {a}) \union ({[a EXCEPT !.via = r]} \ {[for |-> "warm", via |-> r]})
    /\ UNCHANGED <<where, realm, sso, good, token, session, latch, exchange,
                   renewing, calls>>

-----------------------------------------------------------------------------
(* The guard of every route but the callback.                              *)
Protect ==
    /\ where = "app" /\ session = Nothing /\ ~latch
    /\ latch' = TRUE
    /\ asks' = asks \union {Ask("signin")}
    /\ UNCHANGED <<where, realm, sso, good, token, session, manager,
                   exchange, renewing, calls>>

(* The browser is sent to the identity provider; of two redirections the   *)
(* one that takes effect takes the page with it.                           *)
Depart(a) ==
    /\ a \in asks /\ a.via # Nothing /\ a.for \in {"signin", "signout"}
    /\ IF a.for = "signin"
       THEN Loads("idp") /\ realm' = a.via /\ sso' = sso
       ELSE Loads("out") /\ realm' = Nothing /\ sso' = sso \ {a.via}
    /\ UNCHANGED good

(* The identity provider asks for credentials unless it knows the user.    *)
SignIn ==
    /\ where = "idp"
    /\ sso' = sso \union {realm}
    /\ Loads("callback")
    /\ UNCHANGED <<realm, good>>

-----------------------------------------------------------------------------
(* The callback page.                                                      *)

Exchanging(a) ==
    /\ a \in asks /\ a.for = "exchange" /\ a.via # Nothing /\ exchange = "none"
    /\ IF a.via = realm
       THEN /\ asks' = asks \ {a} /\ exchange' = "code"
            /\ UNCHANGED <<where, token, session, latch, manager, renewing, calls>>
       ELSE Loads("app")     \* the code belongs to another authority
    /\ UNCHANGED <<realm, sso, good>>

Fresh == Token \ ({token, session, exchange} \union calls \union good)

CodeExchanged(t) ==
    /\ exchange = "code" /\ t \in Fresh
    /\ token' = t /\ good' = good \union {t} /\ exchange' = t
    /\ UNCHANGED <<where, realm, sso, session, latch, asks, manager, renewing, calls>>

(* The exchange fails, or the token has no roles: back to the start.       *)
CodeRefused == exchange = "code" /\ Loads("app") /\ UNCHANGED <<realm, sso, good>>

ExpiredQuietly == [token |-> Nothing, session |-> Nothing, asks |-> asks]

(* What a 401 does, whichever request it answers.                          *)
Expired == [token |-> Nothing, session |-> Nothing, asks |-> asks \union {Ask("signin")}]

Signed(t) ==
    /\ session' = t /\ where' = "app" /\ exchange' = "none" /\ latch' = FALSE
    /\ UNCHANGED <<realm, sso, good, manager, renewing, calls>>

(* The tenant's name is asked for with the new token; any failure is       *)
(* swallowed, a 401 having reached the expiry handler before.              *)
TenantAnswered(t) ==
    /\ exchange = t
    /\ \/ token' = token /\ asks' = asks
       \/ t \notin good /\ token' = Expired.token /\ asks' = Expired.asks
    /\ Signed(t)

-----------------------------------------------------------------------------
(* API requests and the end of a token.                                    *)

(* What a request carries: the token the client holds when it is sent.     *)
Bearer == token

Call ==
    /\ where = "app" /\ session # Nothing
    /\ calls' = calls \union {Bearer}
    /\ UNCHANGED <<where, realm, sso, good, token, session, latch, asks,
                   manager, exchange, renewing>>

(* The answer is judged by the token it was sent with, and ends the        *)
(* session whatever token the client holds by now.                         *)
CallAnswered(t) ==
    /\ t \in calls
    /\ calls' = calls \ {t}
    /\ IF t \in good THEN UNCHANGED <<token, session, asks>>
       ELSE token' = Expired.token /\ session' = Expired.session /\ asks' = Expired.asks
    /\ UNCHANGED <<where, realm, sso, good, latch, manager, exchange, renewing>>

Expire(t) ==
    /\ t \in good /\ good' = good \ {t}
    /\ UNCHANGED <<where, realm, sso, memory>>

RenewStart ==
    /\ ~renewing /\ token # Nothing /\ manager # Nothing
    /\ renewing' = TRUE
    /\ UNCHANGED <<where, realm, sso, good, token, session, latch, asks,
                   manager, exchange, calls>>

RenewDoneAnyway(t) ==
    /\ renewing /\ manager \in sso /\ t \in Fresh
    /\ token' = t /\ good' = good \union {t} /\ renewing' = FALSE
    /\ session' = t
    /\ UNCHANGED <<where, realm, sso, latch, asks, manager, exchange, calls>>

(* A renewed token replaces that of the client; the session takes it only  *)
(* if there still is one.                                                  *)
RenewDone(t) ==
    /\ renewing /\ manager \in sso /\ t \in Fresh
    /\ token' = t /\ good' = good \union {t} /\ renewing' = FALSE
    /\ session' = IF session # Nothing THEN t ELSE Nothing
    /\ UNCHANGED <<where, realm, sso, latch, asks, manager, exchange, calls>>

RenewFails ==
    /\ renewing /\ renewing' = FALSE
    /\ UNCHANGED <<where, realm, sso, good, token, session, latch, asks,
                   manager, exchange, calls>>

Logout ==
    /\ where = "app" /\ session # Nothing
    /\ token' = Nothing /\ session' = Nothing
    /\ asks' = asks \union {Ask("signout")}
    /\ UNCHANGED <<where, realm, sso, good, latch, manager, exchange, renewing, calls>>

-----------------------------------------------------------------------------
Redirect == \E a \in asks : Depart(a)

Lookup == \E a \in asks, r \in Realm : LookUp(a, r)

Next ==
    \/ OpenApp \/ Protect \/ Redirect \/ Lookup \/ SignIn
    \/ (\E a \in asks : Exchanging(a))
    \/ (\E t \in Token : CodeExchanged(t) \/ TenantAnswered(t)) \/ CodeRefused
    \/ Call \/ (\E t \in Token \union {Nothing} : CallAnswered(t)) \/ (\E t \in Token : Expire(t))
    \/ RenewStart \/ (\E t \in Token : RenewDone(t)) \/ RenewFails \/ Logout

(* The guard's effect and the browser's lookups and redirections happen.   *)
Fairness == WF_vars(Protect) /\ WF_vars(Lookup) /\ WF_vars(Redirect)

Spec == Init /\ [][Next]_vars /\ Fairness

-----------------------------------------------------------------------------
(* A renewal, an answer or a redirection that arrives after the session    *)
(* has ended never brings it back: only the callback page signs in.        *)
OnlyCallbackSignsIn == [][session = Nothing /\ session' # Nothing => where = "callback"]_vars

(* A session whose requests go out without a token is on its way out:      *)
(* a redirection has been asked for.                                       *)
NoSilentAnonymity ==
    where = "app" /\ session # Nothing /\ token = Nothing
        => \E a \in asks : a.for = "signin"

(* Whoever is not signed in does not stay on a page of the application:    *)
(* a lookup that fails, or answers late, does not swallow the redirection. *)
GuardRedirects == (where = "app" /\ session = Nothing) ~> (where # "app" \/ session # Nothing)

=============================================================================
