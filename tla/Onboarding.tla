------------------------------ MODULE Onboarding ------------------------------
(***************************************************************************)
(* The server's side of tenant onboarding: the registry that makes         *)
(* POST /onboarding idempotent, and the saga a detached thread runs over   *)
(* the database and Keycloak, with the compensation of what it has done.   *)
(*                                                                         *)
(* A registry row, its saga and the tenant the saga creates are named by   *)
(* the idempotency key they come from.                                     *)
(***************************************************************************)
EXTENDS Naturals, FiniteSets, Sequences

CONSTANTS
    Key,          \* idempotency keys
    Form,         \* what a registration form may hold
    SlugOf,       \* [Form -> slug]; the realm is named like the tenant
    HostOf,       \* [Form -> host name]
    Budgets,      \* how many failures [server, network] may happen, how many forms
                  \* are mounted and how many status requests overlap
    None

ASSUME NoneIsNothing ==
    None \notin Key \union [form : Form, state : {"pending", "completed", "failed"}] \union {"running"}

VARIABLES
    record,       \* onboarding_registry: [Key -> None or [form, state]]
    saga,         \* [Key -> [pc, made]]: the next step and the flags of SagaState
    tenants,      \* public.tenant: [slug -> its key or None]
    schemas,      \* keys of the tenants that have a schema
    realms,       \* Keycloak's realms
    lost,         \* realms somebody has removed by hand
    hosts,        \* tenant_hostnames: [host -> key or None]
    faults        \* what may still happen of it

server == <<record, saga, tenants, schemas, realms, lost, hosts>>

Slug == {SlugOf[f] : f \in Form}
Host == {HostOf[f] : f \in Form}

ServerInit ==
    /\ record = [k \in Key |-> None]
    /\ saga = [k \in Key |-> [pc |-> "idle", made |-> {}]]
    /\ tenants = [s \in Slug |-> None] /\ schemas = {} /\ realms = {} /\ lost = {}
    /\ hosts = [h \in Host |-> None] /\ faults \in Budgets

(* The database, Keycloak or a thread fails, or a request of the browser.  *)
Strikes(what) == faults[what] > 0 /\ faults' = [faults EXCEPT ![what] = @ - 1]
Fault == Strikes("server")

Did(k, part, next) == saga' = [saga EXCEPT ![k] = [pc |-> next, made |-> @.made \union part]]

Recorded(k, state) == record' = [record EXCEPT ![k] = [form |-> @.form, state |-> state]]

SlugFor(k) == SlugOf[record[k].form]
HostFor(k) == HostOf[record[k].form]

-----------------------------------------------------------------------------
(* POST /onboarding.                                                       *)

(* What the registry answers a key and a form with; a key that is new to   *)
(* it is claimed.  A row keeps the status code its saga ended with, also   *)
(* when its realm is found missing later: only a saga that has failed has  *)
(* nothing left that it made.                                              *)
Verdict(k, f) ==
    IF record[k] = None THEN "created"
    ELSE IF record[k].form # f THEN "conflict"
    ELSE IF record[k].state = "pending" THEN "running"
    ELSE IF saga[k].made # {} THEN "created" ELSE "refused"

(* The row is committed before the thread is spawned: without a thread it  *)
(* stays pending.                                                          *)
Claim(k, f, spawned) ==
    /\ record' = IF record[k] = None THEN [record EXCEPT ![k] = [form |-> f, state |-> "pending"]]
                 ELSE record
    /\ IF record[k] # None THEN UNCHANGED saga
       ELSE Did(k, {}, IF spawned THEN "tenant" ELSE "over")
    /\ UNCHANGED <<tenants, schemas, realms, lost, hosts>>

-----------------------------------------------------------------------------
(* The saga: executeSaga step by step.                                     *)

Fails(k) == Did(k, {}, "undo")

MakeTenant(k) ==
    /\ saga[k].pc = "tenant"
    /\ \/ /\ tenants[SlugFor(k)] = None
          /\ tenants' = [tenants EXCEPT ![SlugFor(k)] = k] /\ Did(k, {"tenant"}, "schema")
          /\ UNCHANGED faults
       \/ tenants[SlugFor(k)] # None /\ Fails(k) /\ UNCHANGED <<tenants, faults>>
       \/ Fault /\ Fails(k) /\ UNCHANGED tenants
    /\ UNCHANGED <<record, schemas, realms, lost, hosts>>

MakeSchema(k) ==
    /\ saga[k].pc = "schema"
    /\ \/ schemas' = schemas \union {k} /\ Did(k, {"schema"}, "realm") /\ UNCHANGED faults
       \/ Fault /\ Fails(k) /\ UNCHANGED schemas
    /\ UNCHANGED <<record, tenants, realms, lost, hosts>>

(* A realm that is there already is configured and taken over.  A failure  *)
(* may come after the realm was created; it does not count as provisioned. *)
MakeRealm(k) ==
    /\ saga[k].pc = "realm"
    /\ \/ realms' = realms \union {SlugFor(k)} /\ Did(k, {"realm"}, "access") /\ UNCHANGED faults
       \/ Fault /\ Fails(k) /\ realms' \in {realms, realms \union {SlugFor(k)}}
    /\ UNCHANGED <<record, tenants, schemas, lost, hosts>>

(* The administrator, the roles and the client are made inside the realm.  *)
MakeAccess(k) ==
    /\ saga[k].pc = "access"
    /\ \/ SlugFor(k) \in realms /\ Did(k, {}, "host") /\ UNCHANGED faults
       \/ SlugFor(k) \notin realms /\ Fails(k) /\ UNCHANGED faults
       \/ Fault /\ Fails(k)
    /\ UNCHANGED <<record, tenants, schemas, realms, lost, hosts>>

BindHost(k) ==
    /\ saga[k].pc = "host"
    /\ \/ /\ hosts[HostFor(k)] = None
          /\ hosts' = [hosts EXCEPT ![HostFor(k)] = k] /\ Did(k, {"host"}, "complete")
          /\ UNCHANGED faults
       \/ hosts[HostFor(k)] # None /\ Fails(k) /\ UNCHANGED <<hosts, faults>>
       \/ Fault /\ Fails(k) /\ UNCHANGED hosts
    /\ UNCHANGED <<record, tenants, schemas, realms, lost>>

(* Building the result may still fail; writing it may, unnoticed.          *)
Complete(k) ==
    /\ saga[k].pc = "complete"
    /\ \/ /\ Recorded(k, "completed") /\ Did(k, {}, "over")
          /\ UNCHANGED faults
       \/ Fault /\ Fails(k) /\ UNCHANGED record
       \/ Fault /\ Did(k, {}, "over") /\ UNCHANGED record
    /\ UNCHANGED <<tenants, schemas, realms, lost, hosts>>

TenantFirst == <<"tenant", "host", "realm", "schema">>

(* What is compensated, in the order in which it is.                       *)
Reverse == <<"host", "realm", "schema", "tenant">>

(* One compensation; when it fails the error is swallowed and the next     *)
(* one follows.                                                            *)
Undo(k) ==
    /\ saga[k].pc = "undo" /\ saga[k].made # {}
    /\ \E i \in 1..4 :
          LET part == Reverse[i] IN
          /\ part \in saga[k].made /\ \A j \in 1..(i - 1) : Reverse[j] \notin saga[k].made
          /\ saga' = [saga EXCEPT ![k] = [pc |-> "undo", made |-> @.made \ {part}]]
          /\ \/ /\ hosts' = IF part = "host" THEN [h \in Host |-> IF hosts[h] = k THEN None ELSE hosts[h]]
                            ELSE hosts
                /\ realms' = IF part = "realm" THEN realms \ {SlugFor(k)} ELSE realms
                /\ schemas' = IF part = "schema" THEN schemas \ {k} ELSE schemas
                /\ tenants' = IF part = "tenant" THEN [tenants EXCEPT ![SlugFor(k)] = None]
                              ELSE tenants
                /\ UNCHANGED faults
             \/ Fault /\ UNCHANGED <<hosts, realms, schemas, tenants>>
    /\ UNCHANGED <<record, lost>>

Fail(k) ==
    /\ saga[k].pc = "undo" /\ saga[k].made = {} /\ Did(k, {}, "over")
    /\ \/ Recorded(k, "failed") /\ UNCHANGED faults
       \/ Fault /\ UNCHANGED record
    /\ UNCHANGED <<tenants, schemas, realms, lost, hosts>>

SagaStep(k) ==
    \/ MakeTenant(k) \/ MakeSchema(k) \/ MakeRealm(k) \/ MakeAccess(k) \/ BindHost(k)
    \/ Complete(k) \/ Undo(k) \/ Fail(k)

(* The process ends with its detached threads; nothing resumes a saga.     *)
Crash ==
    /\ Fault /\ \E k \in Key : saga[k].pc \notin {"idle", "over"}
    /\ saga' = [k \in Key |-> IF saga[k].pc = "idle" THEN saga[k] ELSE [pc |-> "over", made |-> saga[k].made]]
    /\ UNCHANGED <<record, tenants, schemas, realms, lost, hosts>>

RealmRemoved(s) ==
    /\ Fault /\ s \in realms /\ realms' = realms \ {s} /\ lost' = lost \union {s}
    /\ UNCHANGED <<record, saga, tenants, schemas, hosts>>

-----------------------------------------------------------------------------
(* GET /onboarding/:id.  A completed row whose realm is gone is failed on  *)
(* the way; if Keycloak cannot be asked, it is not.                        *)
Missing(k) == record[k].state = "completed" /\ SlugFor(k) \notin realms

StateOf(k, asked) == IF asked /\ Missing(k) THEN "failed" ELSE record[k].state

Looked(k, asked) ==
    /\ Recorded(k, StateOf(k, asked))
    /\ UNCHANGED <<saga, tenants, schemas, realms, lost, hosts>>

(* GET /onboarding?hostname=: a completed row of that host, if there is    *)
(* one.                                                                    *)
ByHost(h) ==
    {k \in Key : record[k] # None /\ record[k].state = "completed" /\ HostFor(k) = h}

-----------------------------------------------------------------------------
(* OIDC-17: a tenant whose onboarding is recorded as completed is there as *)
(* a whole and is its own, whatever other onboardings of the same slug or  *)
(* host fail, are undone or die half-way beside it.                        *)
CompletedIsWhole ==
    \A k \in Key : record[k] # None /\ record[k].state = "completed" =>
        /\ tenants[SlugFor(k)] = k /\ k \in schemas /\ hosts[HostFor(k)] = k
        /\ SlugFor(k) \in realms \union lost
=============================================================================
