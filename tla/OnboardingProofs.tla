--------------------------- MODULE OnboardingProofs ---------------------------
(***************************************************************************)
(* A completed onboarding is whole, for any keys, forms, tenants and hosts *)
(* and any failures.  The argument rests on the order of the saga and of   *)
(* its compensation: whoever has a realm to take back still owns the       *)
(* tenant it is named after, so nobody takes back what another has made.   *)
(* The pages matter because they name the onboardings that are looked at.  *)
(***************************************************************************)
EXTENDS OnboardingPages, TLAPS

Row == [form : Form, state : {"pending", "completed", "failed"}]
Part == {"tenant", "schema", "realm", "host"}
Step == {"idle", "tenant", "schema", "realm", "access", "host", "complete", "undo", "over"}

ServerTypes ==
    /\ record \in [Key -> Row \union {None}]
    /\ saga \in [Key -> [pc : Step, made : SUBSET Part]]
    /\ tenants \in [Slug -> Key \union {None}]
    /\ hosts \in [Host -> Key \union {None}]

Known(k) == k \in Key /\ record[k] # None

(* What a saga has behind it, given where it stands.                       *)
Owner(k) == "tenant" \in saga[k].made => tenants[SlugFor(k)] = k
Nested(k) == "realm" \in saga[k].made => "tenant" \in saga[k].made
Done(k) ==
    /\ saga[k].pc \in {"schema", "realm", "access", "host", "complete"} => "tenant" \in saga[k].made
    /\ saga[k].pc \in {"realm", "access", "host", "complete"} => k \in schemas
    /\ saga[k].pc \in {"access", "host", "complete"} => SlugFor(k) \in realms \union lost
    /\ saga[k].pc = "complete" => hosts[HostFor(k)] = k
Whole(k) ==
    record[k] # None /\ record[k].state = "completed" =>
        /\ tenants[SlugFor(k)] = k /\ k \in schemas /\ hosts[HostFor(k)] = k
        /\ SlugFor(k) \in realms \union lost
Settled(k) == record[k] # None /\ record[k].state = "completed" => saga[k].pc = "over"
Unborn(k) == record[k] = None => saga[k].pc = "idle" /\ saga[k].made = {}

SagaInv(k) == Owner(k) /\ Nested(k) /\ Done(k) /\ Whole(k) /\ Settled(k) /\ Unborn(k)
ServerInv == ServerTypes /\ \A k \in Key : SagaInv(k)

RecordsKept == \A k \in Key : record[k] # None => record'[k] # None

(* Every known onboarding has a slug and a host.                           *)
LEMMA Named ==
    ASSUME ServerTypes, NEW k \in Key, record[k] # None
    PROVE  record[k] \in Row /\ SlugFor(k) \in Slug /\ HostFor(k) \in Host
<1>1. record[k] \in Row BY DEF ServerTypes
<1>2. record[k].form \in Form BY <1>1 DEF Row
<1>3. QED BY <1>1, <1>2 DEF SlugFor, HostFor, Slug, Host

(* The sagas an action leaves alone.                                       *)
LEMMA Others ==
    ASSUME ServerTypes, NEW k \in Key, NEW part, NEW next, Did(k, part, next)
    PROVE  /\ saga'[k] = [pc |-> next, made |-> saga[k].made \union part]
           /\ \A j \in Key \ {k} : saga'[j] = saga[j]
           /\ next \in Step /\ part \subseteq Part => saga' \in [Key -> [pc : Step, made : SUBSET Part]]
<1>1. /\ saga'[k] = [pc |-> next, made |-> saga[k].made \union part]
      /\ \A j \in Key \ {k} : saga'[j] = saga[j]
  BY DEF Did, ServerTypes
<1>2. next \in Step /\ part \subseteq Part => [pc |-> next, made |-> saga[k].made \union part] \in [pc : Step, made : SUBSET Part]
  <2>1. saga[k].made \subseteq Part BY DEF ServerTypes
  <2>2. QED BY <2>1
<1>3. QED BY <1>1, <1>2 DEF Did, ServerTypes

LEMMA InitServer == ServerInit => ServerInv
<1>. SUFFICES ASSUME ServerInit PROVE ServerInv OBVIOUS
<1>1. ServerTypes BY DEF ServerInit, ServerTypes, Step, Part
<1>2. ASSUME NEW k \in Key PROVE SagaInv(k)
  BY DEF ServerInit, SagaInv, Owner, Nested, Done, Whole, Settled, Unborn
<1>3. QED BY <1>1, <1>2 DEF ServerInv

(* A saga that stops or turns round leaves what it has made behind.        *)
LEMMA Stops ==
    ASSUME ServerInv, NEW k \in Key, record[k] # None, saga[k].pc # "over",
           NEW next \in {"undo", "over"}, Did(k, {}, next),
           UNCHANGED <<record, tenants, schemas, lost, hosts>>, realms \subseteq realms'
    PROVE  ServerInv' /\ RecordsKept
<1>1. /\ saga'[k] = [pc |-> next, made |-> saga[k].made \union {}]
      /\ \A j \in Key \ {k} : saga'[j] = saga[j]
      /\ saga' \in [Key -> [pc : Step, made : SUBSET Part]]
  BY Others DEF Step, ServerInv
<1>2. ServerTypes' BY <1>1 DEF ServerTypes, ServerInv
<1>3. ASSUME NEW j \in Key PROVE SagaInv(j)'
  BY <1>1 DEF ServerInv, SagaInv, Owner, Nested, Done, Whole, Settled, Unborn, SlugFor, HostFor
<1>4. QED BY <1>2, <1>3 DEF ServerInv, RecordsKept

(* The first step takes a tenant nobody has.                               *)
LEMMA TenantMade ==
    ASSUME ServerInv, NEW k \in Key, MakeTenant(k)
    PROVE  ServerInv' /\ RecordsKept
<1>. USE DEF ServerInv
<1>1. record[k] # None BY DEF MakeTenant, SagaInv, Unborn
<1>2. SlugFor(k) \in Slug /\ \A j \in Key : record[j] # None => SlugFor(j) \in Slug BY <1>1, Named
<1>3. UNCHANGED <<record, schemas, realms, lost, hosts>> BY DEF MakeTenant
<1>4. CASE tenants[SlugFor(k)] = None /\ tenants' = [tenants EXCEPT ![SlugFor(k)] = k] /\ Did(k, {"tenant"}, "schema")
  <2>1. /\ saga'[k] = [pc |-> "schema", made |-> saga[k].made \union {"tenant"}]
        /\ \A j \in Key \ {k} : saga'[j] = saga[j]
        /\ saga' \in [Key -> [pc : Step, made : SUBSET Part]]
    BY <1>4, Others DEF Step, Part
  <2>2. ServerTypes' BY <1>2, <1>3, <1>4, <2>1 DEF ServerTypes
  <2>3. /\ tenants'[SlugFor(k)] = k
        /\ \A s \in Slug : tenants[s] # None => tenants'[s] = tenants[s]
    BY <1>2, <1>4 DEF ServerTypes
  <2>4. SagaInv(k)'
    BY <1>1, <1>3, <2>1, <2>3 DEF MakeTenant, SagaInv, Owner, Nested, Done, Whole, Settled, Unborn, SlugFor, HostFor
  <2>5. ASSUME NEW j \in Key \ {k} PROVE SagaInv(j)'
    <3>1. \A i \in Key : i # None BY NoneIsNothing
    <3>2. record[j] # None /\ tenants[SlugFor(j)] = j => tenants'[SlugFor(j)] = j BY <1>2, <2>3, <3>1
    <3>3. "tenant" \in saga[j].made => record[j] # None BY DEF SagaInv, Unborn
    <3>4. QED BY <1>3, <2>1, <3>2, <3>3 DEF SagaInv, Owner, Nested, Done, Whole, Settled, Unborn, SlugFor, HostFor
  <2>6. QED BY <1>3, <2>2, <2>4, <2>5 DEF RecordsKept
<1>5. CASE Fails(k) /\ UNCHANGED tenants
  BY <1>1, <1>3, <1>5, Stops DEF Fails, MakeTenant
<1>6. QED BY <1>4, <1>5 DEF MakeTenant

LEMMA SchemaMade ==
    ASSUME ServerInv, NEW k \in Key, MakeSchema(k)
    PROVE  ServerInv' /\ RecordsKept
<1>1. record[k] # None BY DEF MakeSchema, ServerInv, SagaInv, Unborn
<1>2. UNCHANGED <<record, tenants, realms, lost, hosts>> BY DEF MakeSchema
<1>3. CASE schemas' = schemas \union {k} /\ Did(k, {"schema"}, "realm")
  <2>1. /\ saga'[k] = [pc |-> "realm", made |-> saga[k].made \union {"schema"}]
        /\ \A j \in Key \ {k} : saga'[j] = saga[j]
        /\ saga' \in [Key -> [pc : Step, made : SUBSET Part]]
    BY <1>3, Others DEF Step, Part, ServerInv
  <2>2. ServerTypes' BY <1>2, <2>1 DEF ServerTypes, ServerInv
  <2>3. ASSUME NEW j \in Key PROVE SagaInv(j)'
    BY <1>1, <1>2, <1>3, <2>1 DEF MakeSchema, ServerInv, SagaInv, Owner, Nested, Done, Whole, Settled, Unborn, SlugFor, HostFor
  <2>4. QED BY <1>2, <2>2, <2>3 DEF ServerInv, RecordsKept
<1>4. CASE Fails(k) /\ UNCHANGED schemas
  BY <1>1, <1>2, <1>4, Stops DEF Fails, MakeSchema
<1>5. QED BY <1>3, <1>4 DEF MakeSchema

LEMMA RealmMade ==
    ASSUME ServerInv, NEW k \in Key, MakeRealm(k)
    PROVE  ServerInv' /\ RecordsKept
<1>1. record[k] # None BY DEF MakeRealm, ServerInv, SagaInv, Unborn
<1>2. UNCHANGED <<record, tenants, schemas, lost, hosts>> BY DEF MakeRealm
<1>3. CASE realms' = realms \union {SlugFor(k)} /\ Did(k, {"realm"}, "access")
  <2>1. /\ saga'[k] = [pc |-> "access", made |-> saga[k].made \union {"realm"}]
        /\ \A j \in Key \ {k} : saga'[j] = saga[j]
        /\ saga' \in [Key -> [pc : Step, made : SUBSET Part]]
    BY <1>3, Others DEF Step, Part, ServerInv
  <2>2. ServerTypes' BY <1>2, <2>1 DEF ServerTypes, ServerInv
  <2>3. ASSUME NEW j \in Key PROVE SagaInv(j)'
    BY <1>1, <1>2, <1>3, <2>1 DEF MakeRealm, ServerInv, SagaInv, Owner, Nested, Done, Whole, Settled, Unborn, SlugFor, HostFor
  <2>4. QED BY <1>2, <2>2, <2>3 DEF ServerInv, RecordsKept
<1>4. CASE Fails(k) /\ realms' \in {realms, realms \union {SlugFor(k)}}
  BY <1>1, <1>2, <1>4, Stops DEF Fails, MakeRealm
<1>5. QED BY <1>3, <1>4 DEF MakeRealm

LEMMA AccessMade ==
    ASSUME ServerInv, NEW k \in Key, MakeAccess(k)
    PROVE  ServerInv' /\ RecordsKept
<1>1. record[k] # None BY DEF MakeAccess, ServerInv, SagaInv, Unborn
<1>2. UNCHANGED <<record, tenants, schemas, realms, lost, hosts>> BY DEF MakeAccess
<1>3. CASE Did(k, {}, "host")
  <2>1. /\ saga'[k] = [pc |-> "host", made |-> saga[k].made \union {}]
        /\ \A j \in Key \ {k} : saga'[j] = saga[j]
        /\ saga' \in [Key -> [pc : Step, made : SUBSET Part]]
    BY <1>3, Others DEF Step, ServerInv
  <2>2. ServerTypes' BY <1>2, <2>1 DEF ServerTypes, ServerInv
  <2>3. ASSUME NEW j \in Key PROVE SagaInv(j)'
    BY <1>1, <1>2, <2>1 DEF MakeAccess, ServerInv, SagaInv, Owner, Nested, Done, Whole, Settled, Unborn, SlugFor, HostFor
  <2>4. QED BY <1>2, <2>2, <2>3 DEF ServerInv, RecordsKept
<1>4. CASE Fails(k)
  BY <1>1, <1>2, <1>4, Stops DEF Fails, MakeAccess
<1>5. QED BY <1>3, <1>4 DEF MakeAccess

(* The last step takes a host nobody has.                                  *)
LEMMA HostBound ==
    ASSUME ServerInv, NEW k \in Key, BindHost(k)
    PROVE  ServerInv' /\ RecordsKept
<1>1. record[k] # None BY DEF BindHost, ServerInv, SagaInv, Unborn
<1>2. HostFor(k) \in Host /\ \A j \in Key : record[j] # None => HostFor(j) \in Host
  BY <1>1, Named DEF ServerInv
<1>3. UNCHANGED <<record, tenants, schemas, realms, lost>> BY DEF BindHost
<1>4. CASE hosts[HostFor(k)] = None /\ hosts' = [hosts EXCEPT ![HostFor(k)] = k] /\ Did(k, {"host"}, "complete")
  <2>1. /\ saga'[k] = [pc |-> "complete", made |-> saga[k].made \union {"host"}]
        /\ \A j \in Key \ {k} : saga'[j] = saga[j]
        /\ saga' \in [Key -> [pc : Step, made : SUBSET Part]]
    BY <1>4, Others DEF Step, Part, ServerInv
  <2>2. ServerTypes' BY <1>2, <1>3, <1>4, <2>1 DEF ServerTypes, ServerInv
  <2>3. /\ hosts'[HostFor(k)] = k
        /\ \A h \in Host : hosts[h] # None => hosts'[h] = hosts[h]
    BY <1>2, <1>4 DEF ServerTypes, ServerInv
  <2>4. SagaInv(k)'
    BY <1>1, <1>3, <2>1, <2>3 DEF BindHost, ServerInv, SagaInv, Owner, Nested, Done, Whole, Settled, Unborn, SlugFor, HostFor
  <2>5. ASSUME NEW j \in Key \ {k} PROVE SagaInv(j)'
    <3>1. j # None BY NoneIsNothing
    <3>2. record[j] # None /\ hosts[HostFor(j)] = j => hosts'[HostFor(j)] = j BY <1>2, <2>3, <3>1
    <3>3. saga[j].pc = "complete" => record[j] # None BY DEF ServerInv, SagaInv, Unborn
    <3>4. QED BY <1>3, <2>1, <3>2, <3>3 DEF ServerInv, SagaInv, Owner, Nested, Done, Whole, Settled, Unborn, SlugFor, HostFor
  <2>6. QED BY <1>3, <2>2, <2>4, <2>5 DEF ServerInv, RecordsKept
<1>5. CASE Fails(k) /\ UNCHANGED hosts
  BY <1>1, <1>3, <1>5, Stops DEF Fails, BindHost
<1>6. QED BY <1>4, <1>5 DEF BindHost

(* A change of state keeps the form, and with it slug and host.            *)
LEMMA Rewritten ==
    ASSUME ServerTypes, NEW k \in Key, record[k] # None,
           NEW state \in {"pending", "completed", "failed"}, Recorded(k, state)
    PROVE  /\ record' \in [Key -> Row \union {None}] /\ RecordsKept
           /\ record'[k] # None /\ record'[k].state = state
           /\ SlugFor(k)' = SlugFor(k) /\ HostFor(k)' = HostFor(k)
           /\ \A j \in Key \ {k} : record'[j] = record[j]
<1>1. record[k].form \in Form BY Named DEF Row
<1>2. [form |-> record[k].form, state |-> state] \in Row BY <1>1 DEF Row
<1>3. /\ record'[k] = [form |-> record[k].form, state |-> state]
      /\ \A j \in Key \ {k} : record'[j] = record[j]
      /\ record' \in [Key -> Row \union {None}]
  BY <1>2 DEF Recorded, ServerTypes
<1>4. record'[k] # None BY <1>2, <1>3, NoneIsNothing DEF Row
<1>5. QED BY <1>3, <1>4 DEF RecordsKept, SlugFor, HostFor

(* Completion is recorded when all is there.                               *)
LEMMA Completed ==
    ASSUME ServerInv, NEW k \in Key, Complete(k)
    PROVE  ServerInv' /\ RecordsKept
<1>1. record[k] # None BY DEF Complete, ServerInv, SagaInv, Unborn
<1>2. UNCHANGED <<tenants, schemas, realms, lost, hosts>> BY DEF Complete
<1>3. CASE Recorded(k, "completed") /\ Did(k, {}, "over")
  <2>1. /\ saga'[k] = [pc |-> "over", made |-> saga[k].made \union {}]
        /\ \A j \in Key \ {k} : saga'[j] = saga[j]
        /\ saga' \in [Key -> [pc : Step, made : SUBSET Part]]
    BY <1>3, Others DEF Step, ServerInv
  <2>2. /\ record' \in [Key -> Row \union {None}] /\ RecordsKept
        /\ record'[k] # None /\ SlugFor(k)' = SlugFor(k) /\ HostFor(k)' = HostFor(k)
        /\ \A j \in Key \ {k} : record'[j] = record[j]
    BY <1>1, <1>3, Rewritten DEF ServerInv
  <2>3. ServerTypes' BY <1>2, <2>1, <2>2 DEF ServerTypes, ServerInv
  <2>4. SagaInv(k)'
    <3>1. tenants[SlugFor(k)] = k /\ k \in schemas /\ hosts[HostFor(k)] = k /\ SlugFor(k) \in realms \union lost
      BY DEF Complete, ServerInv, SagaInv, Owner, Done
    <3>2. Whole(k)' /\ Owner(k)' BY <1>2, <2>2, <3>1 DEF Whole, Owner
    <3>3. QED BY <2>1, <2>2, <3>2 DEF ServerInv, SagaInv, Nested, Done, Settled, Unborn
  <2>5. ASSUME NEW j \in Key \ {k} PROVE SagaInv(j)'
    BY <1>2, <2>1, <2>2 DEF ServerInv, SagaInv, Owner, Nested, Done, Whole, Settled, Unborn, SlugFor, HostFor
  <2>6. QED BY <2>2, <2>3, <2>4, <2>5 DEF ServerInv
<1>4. CASE (Fails(k) \/ Did(k, {}, "over")) /\ UNCHANGED record
  BY <1>1, <1>2, <1>4, Stops DEF Fails, Complete
<1>5. QED BY <1>3, <1>4 DEF Complete

(* A state other than "completed" promises nothing.                        *)
LEMMA Failed ==
    ASSUME ServerInv, NEW k \in Key, record[k] # None,
           NEW state \in {"pending", "completed", "failed"}, Recorded(k, state),
           state = "completed" => record[k].state = "completed",
           UNCHANGED <<saga, tenants, schemas, realms, lost, hosts>>
    PROVE  ServerInv' /\ RecordsKept
<1>1. /\ record' \in [Key -> Row \union {None}] /\ RecordsKept
      /\ record'[k] # None /\ record'[k].state = state
      /\ SlugFor(k)' = SlugFor(k) /\ HostFor(k)' = HostFor(k)
      /\ \A j \in Key \ {k} : record'[j] = record[j]
  BY Rewritten DEF ServerInv
<1>2. ServerTypes' BY <1>1 DEF ServerTypes, ServerInv
<1>3. SagaInv(k)' BY <1>1 DEF ServerInv, SagaInv, Owner, Nested, Done, Whole, Settled, Unborn
<1>4. ASSUME NEW j \in Key \ {k} PROVE SagaInv(j)'
  BY <1>1 DEF ServerInv, SagaInv, Owner, Nested, Done, Whole, Settled, Unborn, SlugFor, HostFor
<1>5. QED BY <1>1, <1>2, <1>3, <1>4 DEF ServerInv

LEMMA GivenUp ==
    ASSUME ServerInv, NEW k \in Key, Fail(k)
    PROVE  ServerInv' /\ RecordsKept
<1>1. record[k] # None \/ (saga[k].pc = "idle") BY DEF ServerInv, SagaInv, Unborn
<1>2. record[k] # None BY <1>1 DEF Fail
<1>3. Did(k, {}, "over") /\ UNCHANGED <<tenants, schemas, realms, lost, hosts>> BY DEF Fail
<1>4. CASE UNCHANGED record
  BY <1>2, <1>3, <1>4, Stops DEF Fail
<1>5. CASE Recorded(k, "failed")
  <2>1. /\ saga'[k] = [pc |-> "over", made |-> saga[k].made \union {}]
        /\ \A j \in Key \ {k} : saga'[j] = saga[j]
        /\ saga' \in [Key -> [pc : Step, made : SUBSET Part]]
    BY <1>3, Others DEF Step, ServerInv
  <2>2. /\ record' \in [Key -> Row \union {None}] /\ RecordsKept
        /\ record'[k] # None /\ record'[k].state = "failed"
        /\ SlugFor(k)' = SlugFor(k) /\ HostFor(k)' = HostFor(k)
        /\ \A j \in Key \ {k} : record'[j] = record[j]
    BY <1>2, <1>5, Rewritten DEF ServerInv
  <2>3. ServerTypes' BY <1>3, <2>1, <2>2 DEF ServerTypes, ServerInv
  <2>4. SagaInv(k)' BY <1>3, <2>1, <2>2 DEF ServerInv, SagaInv, Owner, Nested, Done, Whole, Settled, Unborn
  <2>5. ASSUME NEW j \in Key \ {k} PROVE SagaInv(j)'
    BY <1>3, <2>1, <2>2 DEF ServerInv, SagaInv, Owner, Nested, Done, Whole, Settled, Unborn, SlugFor, HostFor
  <2>6. QED BY <2>2, <2>3, <2>4, <2>5 DEF ServerInv
<1>6. QED BY <1>4, <1>5 DEF Fail

(* A compensation takes back what is its own: a host by its key, a realm   *)
(* and a tenant because the tenant is still owned.                         *)
LEMMA Undone ==
    ASSUME ServerInv, NEW k \in Key, Undo(k)
    PROVE  ServerInv' /\ RecordsKept
<1>1. record[k] # None BY DEF Undo, ServerInv, SagaInv, Unborn
<1>2. UNCHANGED <<record, lost>> BY DEF Undo
<1>3. SlugFor(k) \in Slug /\ \A j \in Key : record[j] # None => SlugFor(j) \in Slug /\ HostFor(j) \in Host
  BY <1>1, Named DEF ServerInv
<1>4. \A j \in Key : j # None BY NoneIsNothing
<1>5. PICK i \in 1..4 :
        /\ Reverse[i] \in saga[k].made /\ \A j \in 1..(i - 1) : Reverse[j] \notin saga[k].made
        /\ saga' = [saga EXCEPT ![k] = [pc |-> "undo", made |-> @.made \ {Reverse[i]}]]
        /\ \/ /\ hosts' = IF Reverse[i] = "host" THEN [h \in Host |-> IF hosts[h] = k THEN None ELSE hosts[h]]
                          ELSE hosts
              /\ realms' = IF Reverse[i] = "realm" THEN realms \ {SlugFor(k)} ELSE realms
              /\ schemas' = IF Reverse[i] = "schema" THEN schemas \ {k} ELSE schemas
              /\ tenants' = IF Reverse[i] = "tenant" THEN [tenants EXCEPT ![SlugFor(k)] = None]
                            ELSE tenants
           \/ UNCHANGED <<hosts, realms, schemas, tenants>>
  BY DEF Undo
<1>6. i = 4 => "realm" \notin saga[k].made
  <2>1. i = 4 => Reverse[2] \notin saga[k].made BY <1>5
  <2>2. QED BY <2>1 DEF Reverse
<1>7. Reverse[i] \in {"host", "realm", "schema", "tenant"} /\ (Reverse[i] = "tenant" => i = 4)
  BY DEF Reverse
<1>8. /\ saga'[k] = [pc |-> "undo", made |-> saga[k].made \ {Reverse[i]}]
      /\ \A j \in Key \ {k} : saga'[j] = saga[j]
      /\ saga' \in [Key -> [pc : Step, made : SUBSET Part]]
  BY <1>5 DEF ServerInv, ServerTypes, Step
<1>9. Reverse[i] \in {"realm", "tenant"} => tenants[SlugFor(k)] = k
  BY <1>5 DEF ServerInv, SagaInv, Owner, Nested
<1>10. tenants' \in [Slug -> Key \union {None}] /\ hosts' \in [Host -> Key \union {None}]
  BY <1>5 DEF ServerInv, ServerTypes
<1>11. ServerTypes' BY <1>2, <1>8, <1>10 DEF ServerTypes, ServerInv
<1>12. SagaInv(k)'
  <2>1. Owner(k)'
    <3>1. SUFFICES ASSUME "tenant" \in saga'[k].made PROVE tenants'[SlugFor(k)] = k
      BY <1>2 DEF Owner, SlugFor
    <3>2. Reverse[i] # "tenant" /\ "tenant" \in saga[k].made BY <1>8, <3>1
    <3>3. tenants' = tenants BY <1>5, <3>2
    <3>4. QED BY <3>2, <3>3 DEF ServerInv, SagaInv, Owner
  <2>2. Nested(k)'
    BY <1>6, <1>7, <1>8 DEF ServerInv, SagaInv, Nested
  <2>3. record[k].state # "completed" BY <1>1 DEF Undo, ServerInv, SagaInv, Settled
  <2>4. QED BY <1>1, <1>2, <1>8, <2>1, <2>2, <2>3 DEF SagaInv, Done, Whole, Settled, Unborn
<1>13. ASSUME NEW j \in Key \ {k} PROVE SagaInv(j)'
  <2>1. record[j] # None /\ tenants[SlugFor(j)] = j
          => tenants'[SlugFor(j)] = j /\ (SlugFor(j) \in realms \union lost => SlugFor(j) \in realms' \union lost)
    <3>1. SUFFICES ASSUME record[j] # None, tenants[SlugFor(j)] = j
                   PROVE  tenants'[SlugFor(j)] = j /\ (SlugFor(j) \in realms \union lost => SlugFor(j) \in realms' \union lost)
      OBVIOUS
    <3>2. Reverse[i] \in {"realm", "tenant"} => SlugFor(j) # SlugFor(k) BY <1>9, <3>1
    <3>3. tenants'[SlugFor(j)] = j BY <1>3, <1>5, <3>1, <3>2 DEF ServerInv, ServerTypes
    <3>4. SlugFor(j) \in realms => SlugFor(j) \in realms' BY <1>5, <3>2
    <3>5. QED BY <3>3, <3>4
  <2>2. record[j] # None /\ hosts[HostFor(j)] = j => hosts'[HostFor(j)] = j
    BY <1>3, <1>5 DEF ServerInv, ServerTypes
  <2>3. j \in schemas => j \in schemas' BY <1>5
  <2>4. (saga[j].made # {} \/ saga[j].pc # "idle") => record[j] # None BY DEF ServerInv, SagaInv, Unborn
  <2>5. Owner(j)' /\ Nested(j)' /\ Settled(j)' /\ Unborn(j)'
    BY <1>2, <1>8, <2>1, <2>4 DEF ServerInv, SagaInv, Owner, Nested, Settled, Unborn, SlugFor
  <2>6. Whole(j)'
    BY <1>2, <2>1, <2>2, <2>3 DEF ServerInv, SagaInv, Whole, SlugFor, HostFor
  <2>7. saga[j].pc \in {"schema", "realm", "access", "host", "complete"} => tenants[SlugFor(j)] = j
    BY DEF ServerInv, SagaInv, Owner, Done
  <2>8. Done(j)'
    BY <1>2, <1>8, <2>1, <2>2, <2>3, <2>4, <2>7 DEF ServerInv, SagaInv, Done, SlugFor, HostFor
  <2>9. QED BY <2>5, <2>6, <2>8 DEF SagaInv
<1>14. QED BY <1>2, <1>11, <1>12, <1>13 DEF ServerInv, RecordsKept

LEMMA SagaSteps ==
    ASSUME ServerInv, NEW k \in Key, SagaStep(k)
    PROVE  ServerInv' /\ RecordsKept
BY TenantMade, SchemaMade, RealmMade, AccessMade, HostBound, Completed, Undone, GivenUp DEF SagaStep

LEMMA Crashes ==
    ASSUME ServerInv, Crash
    PROVE  ServerInv' /\ RecordsKept
<1>1. UNCHANGED <<record, tenants, schemas, realms, lost, hosts>> BY DEF Crash
<1>2. \A k \in Key : saga'[k] = IF saga[k].pc = "idle" THEN saga[k] ELSE [pc |-> "over", made |-> saga[k].made]
  BY DEF Crash
<1>3. saga' \in [Key -> [pc : Step, made : SUBSET Part]]
  <2>1. \A k \in Key : saga[k] \in [pc : Step, made : SUBSET Part] BY DEF ServerInv, ServerTypes
  <2>2. \A k \in Key : [pc |-> "over", made |-> saga[k].made] \in [pc : Step, made : SUBSET Part]
    BY <2>1 DEF Step
  <2>3. QED BY <2>1, <2>2 DEF Crash
<1>4. ServerTypes' BY <1>1, <1>3 DEF ServerTypes, ServerInv
<1>5. ASSUME NEW k \in Key PROVE SagaInv(k)'
  <2>1. saga'[k].made = saga[k].made /\ saga'[k].pc \in {saga[k].pc, "over"} /\ (saga[k].pc = "idle" => saga'[k].pc = "idle")
    <3>1. CASE saga[k].pc = "idle"
      <4>1. saga'[k] = saga[k] BY <1>2, <3>1
      <4>2. QED BY <3>1, <4>1
    <3>2. CASE saga[k].pc # "idle"
      <4>1. saga'[k] = [pc |-> "over", made |-> saga[k].made] BY <1>2, <3>2
      <4>2. QED BY <3>2, <4>1
    <3>3. QED BY <3>1, <3>2
  <2>2. QED BY <1>1, <2>1 DEF ServerInv, SagaInv, Owner, Nested, Done, Whole, Settled, Unborn, SlugFor, HostFor
<1>6. QED BY <1>1, <1>4, <1>5 DEF ServerInv, RecordsKept

LEMMA RealmTaken ==
    ASSUME ServerInv, NEW s, RealmRemoved(s)
    PROVE  ServerInv' /\ RecordsKept
<1>1. UNCHANGED <<record, saga, tenants, schemas, hosts>> /\ realms \union lost \subseteq realms' \union lost'
  BY DEF RealmRemoved
<1>2. ServerTypes' BY <1>1 DEF ServerTypes, ServerInv
<1>3. ASSUME NEW k \in Key PROVE SagaInv(k)'
  BY <1>1 DEF ServerInv, SagaInv, Owner, Nested, Done, Whole, Settled, Unborn, SlugFor, HostFor
<1>4. QED BY <1>1, <1>2, <1>3 DEF ServerInv, RecordsKept

LEMMA Claimed ==
    ASSUME ServerInv, NEW k \in Key, NEW f \in Form, NEW spawned, Claim(k, f, spawned)
    PROVE  ServerInv' /\ RecordsKept /\ record'[k] # None
<1>1. UNCHANGED <<tenants, schemas, realms, lost, hosts>> BY DEF Claim
<1>2. CASE record[k] # None
  <2>1. UNCHANGED <<record, saga>> BY <1>2 DEF Claim
  <2>2. ServerTypes' BY <1>1, <2>1 DEF ServerTypes, ServerInv
  <2>3. ASSUME NEW j \in Key PROVE SagaInv(j)'
    BY <1>1, <2>1 DEF ServerInv, SagaInv, Owner, Nested, Done, Whole, Settled, Unborn, SlugFor, HostFor
  <2>4. QED BY <1>2, <2>1, <2>2, <2>3 DEF ServerInv, RecordsKept
<1>3. CASE record[k] = None
  <2>1. Did(k, {}, IF spawned THEN "tenant" ELSE "over") BY <1>3 DEF Claim
  <2>2. PICK next \in {"tenant", "over"} : Did(k, {}, next) BY <2>1
  <2>3. /\ saga'[k] = [pc |-> next, made |-> saga[k].made \union {}]
        /\ \A j \in Key \ {k} : saga'[j] = saga[j]
        /\ saga' \in [Key -> [pc : Step, made : SUBSET Part]]
    BY <2>2, Others DEF Step, ServerInv
  <2>4. [form |-> f, state |-> "pending"] \in Row /\ [form |-> f, state |-> "pending"] # None
    BY NoneIsNothing DEF Row
  <2>5. /\ record'[k] = [form |-> f, state |-> "pending"]
        /\ \A j \in Key \ {k} : record'[j] = record[j]
        /\ record' \in [Key -> Row \union {None}]
    BY <1>3, <2>4 DEF Claim, ServerInv, ServerTypes
  <2>6. ServerTypes' BY <1>1, <2>3, <2>5 DEF ServerTypes, ServerInv
  <2>7. SagaInv(k)'
    <3>1. saga[k].made = {} BY <1>3 DEF ServerInv, SagaInv, Unborn
    <3>2. QED BY <2>3, <2>4, <2>5, <3>1 DEF SagaInv, Owner, Nested, Done, Whole, Settled, Unborn
  <2>8. ASSUME NEW j \in Key \ {k} PROVE SagaInv(j)'
    BY <1>1, <2>3, <2>5 DEF ServerInv, SagaInv, Owner, Nested, Done, Whole, Settled, Unborn, SlugFor, HostFor
  <2>9. QED BY <2>4, <2>5, <2>6, <2>7, <2>8 DEF ServerInv, RecordsKept
<1>4. QED BY <1>2, <1>3

LEMMA Watched ==
    ASSUME ServerInv, NEW k \in Key, record[k] # None, NEW probed \in BOOLEAN, Looked(k, probed)
    PROVE  ServerInv' /\ RecordsKept
<1>1. record[k] \in Row BY Named DEF ServerInv
<1>2. StateOf(k, probed) \in {"pending", "completed", "failed"} BY <1>1 DEF StateOf, Row
<1>3. StateOf(k, probed) = "completed" => record[k].state = "completed" BY DEF StateOf
<1>4. PICK state \in {"pending", "completed", "failed"} : state = StateOf(k, probed) BY <1>2
<1>5. Recorded(k, state) /\ UNCHANGED <<saga, tenants, schemas, realms, lost, hosts>>
  BY <1>4 DEF Looked
<1>6. QED BY <1>3, <1>4, <1>5, Failed

LEMMA ServerKept ==
    ASSUME ServerInv, UNCHANGED server
    PROVE  ServerInv' /\ RecordsKept
<1>1. UNCHANGED <<record, saga, tenants, schemas, realms, lost, hosts>> BY DEF server
<1>2. ServerTypes' BY <1>1 DEF ServerTypes, ServerInv
<1>3. ASSUME NEW k \in Key PROVE SagaInv(k)'
  BY <1>1 DEF ServerInv, SagaInv, Owner, Nested, Done, Whole, Settled, Unborn, SlugFor, HostFor
<1>4. QED BY <1>1, <1>2, <1>3 DEF ServerInv, RecordsKept

-----------------------------------------------------------------------------
(* The pages: whatever they ask about is known to the server, and the      *)
(* timer belongs to the progress page.                                     *)
Says == {"nothing", "created", "conflict", "running", "refused", "error"}
Post == [key : Key, form : Form, says : Says, own : BOOLEAN]

PostOK(p) == p \in Post /\ (p.says # "nothing" => Known(p.key))
Owned(p) == p.own => place = "form" /\ p.key = key
PostsInv == \A p \in posts : PostOK(p) /\ Owned(p)

Get(n) == [id : Key, nr : {n}, says : {"nothing", "pending", "completed", "failed"}, own : BOOLEAN]
GetOK(r) == (\E n : r \in Get(n)) /\ Known(r.id)
GetsInv == \A r \in asked : GetOK(r)

FormInv ==
    place = "form" => key \in Key /\ form \in Form \union {Empty} /\ (banner = "running" => Known(key))
AddressInv == place = "progress" => Known(address)
TimerInv ==
    /\ held \in BOOLEAN /\ timers = (IF held THEN 1 ELSE 0)
    /\ held => place = "progress" /\ ~gaveUp
ViewInv == view.id # None => Known(view.id)

PageInv == PostsInv /\ GetsInv /\ FormInv /\ AddressInv /\ TimerInv /\ ViewInv
OnboardingInv == ServerInv /\ PageInv

(* Known onboardings stay known.                                           *)
LEMMA KnownKept ==
    ASSUME RecordsKept
    PROVE  \A k \in Key : record[k] # None => Known(k) /\ Known(k)'
BY DEF RecordsKept, Known

LEMMA PagesKept ==
    ASSUME PageInv, RecordsKept, UNCHANGED pages
    PROVE  PageInv'
<1>1. /\ UNCHANGED <<place, address, key, form, banner, posts>>
      /\ UNCHANGED <<timers, held, gaveUp, asked, view>>
  BY DEF pages, formPage, progress
<1>2. PostsInv' BY <1>1, KnownKept DEF PageInv, PostsInv, PostOK, Owned, Known
<1>3. GetsInv' BY <1>1, KnownKept DEF PageInv, GetsInv, GetOK, Known
<1>4. FormInv' BY <1>1, KnownKept DEF PageInv, FormInv, Known
<1>5. AddressInv' /\ ViewInv' BY <1>1, KnownKept DEF PageInv, AddressInv, ViewInv, Known
<1>6. TimerInv' BY <1>1 DEF PageInv, TimerInv
<1>7. QED BY <1>2, <1>3, <1>4, <1>5, <1>6 DEF PageInv

LEMMA SameServer ==
    ASSUME UNCHANGED server
    PROVE  RecordsKept /\ record' = record
BY DEF server, RecordsKept

(* Requests that outlive their page.                                       *)
LEMMA OrphanedPosts ==
    ASSUME PostsInv, NEW sent \in SUBSET posts
    PROVE  \A q \in Orphaned(sent) : PostOK(q) /\ ~q.own
<1>. SUFFICES ASSUME NEW p \in sent PROVE PostOK([p EXCEPT !.own = FALSE]) /\ ~[p EXCEPT !.own = FALSE].own
  BY DEF Orphaned
<1>1. p \in Post /\ (p.says # "nothing" => Known(p.key)) BY DEF PostsInv, PostOK
<1>2. [p EXCEPT !.own = FALSE] \in Post /\ ~[p EXCEPT !.own = FALSE].own BY <1>1 DEF Post
<1>3. [p EXCEPT !.own = FALSE].says = p.says /\ [p EXCEPT !.own = FALSE].key = p.key BY <1>1 DEF Post
<1>4. QED BY <1>1, <1>2, <1>3 DEF PostOK

LEMMA OrphanedGets ==
    ASSUME GetsInv, NEW gets \in SUBSET asked
    PROVE  \A q \in Orphaned(gets) : GetOK(q)
<1>. SUFFICES ASSUME NEW r \in gets PROVE GetOK([r EXCEPT !.own = FALSE])
  BY DEF Orphaned
<1>1. Known(r.id) BY DEF GetsInv, GetOK
<1>2. PICK n : r \in Get(n) BY DEF GetsInv, GetOK
<1>3. [r EXCEPT !.own = FALSE] \in Get(n) /\ [r EXCEPT !.own = FALSE].id = r.id BY <1>2 DEF Get
<1>4. QED BY <1>1, <1>3 DEF GetOK

(* Going from page to page.                                                *)
LEMMA Navigated ==
    ASSUME PageInv, UNCHANGED server, NEW p, NEW k, NEW state,
           NEW sent \in SUBSET posts, NEW gets \in SUBSET asked, Navigate(p, k, state, sent, gets),
           p # "form", p = "progress" => Known(k), state.id # None => Known(state.id)
    PROVE  PageInv'
<1>1. record' = record /\ place' = p /\ address' = k BY SameServer DEF Navigate, Arrive
<1>2. PostsInv'
  BY <1>1, OrphanedPosts DEF PageInv, PostsInv, PostOK, Owned, Known, Navigate
<1>3. GetsInv'
  BY <1>1, OrphanedGets DEF PageInv, GetsInv, GetOK, Known, Navigate
<1>4. FormInv' /\ AddressInv' BY <1>1 DEF FormInv, AddressInv, Known
<1>5. ViewInv'
  <2>1. view' \in {NoView, view, state} BY DEF Navigate, Arrive
  <2>2. NoView.id = None BY DEF NoView
  <2>3. QED BY <1>1, <2>1, <2>2 DEF PageInv, ViewInv, Known
<1>6. TimerInv'
  <2>1. held \in BOOLEAN /\ timers = (IF held THEN 1 ELSE 0) /\ (held => place = "progress" /\ ~gaveUp)
    BY DEF PageInv, TimerInv
  <2>2. Cleared = 0 BY <2>1 DEF Cleared
  <2>3. CASE p # "progress"
    BY <1>1, <2>2, <2>3 DEF Navigate, Arrive, ClearPoll, TimerInv
  <2>4. CASE p = "progress" /\ p = place /\ k = address
    BY <1>1, <2>1, <2>4 DEF Navigate, Arrive, TimerInv, progress
  <2>5. CASE p = "progress" /\ ~(p = place /\ k = address)
    <3>1. StartPolling(Cleared) BY <2>5 DEF Navigate, Arrive
    <3>2. timers' = 1 BY <2>2, <3>1 DEF StartPolling
    <3>3. held' /\ held' = TRUE /\ gaveUp' = FALSE BY <3>1 DEF StartPolling
    <3>4. held' \in BOOLEAN /\ timers' = (IF held' THEN 1 ELSE 0) BY <3>2, <3>3
    <3>5. QED BY <1>1, <2>5, <3>3, <3>4 DEF TimerInv
  <2>6. QED BY <2>3, <2>4, <2>5
<1>7. QED BY <1>2, <1>3, <1>4, <1>5, <1>6 DEF PageInv

LEMMA Opened ==
    ASSUME OnboardingInv, NEW k \in Key, OpenForm(k)
    PROVE  PageInv'
<1>1. record' = record /\ UNCHANGED <<timers, held, misses, gaveUp>> BY SameServer DEF OpenForm, progress
<1>2. place' = "form" /\ key' = k /\ banner' = None /\ view' = NoView BY DEF OpenForm
<1>3. place # "progress" BY DEF OpenForm, StartsOver
<1>4. PostsInv'
  BY <1>1, OrphanedPosts DEF OnboardingInv, PageInv, PostsInv, PostOK, Owned, Known, OpenForm
<1>5. GetsInv'
  BY <1>1, OrphanedGets DEF OnboardingInv, PageInv, GetsInv, GetOK, Known, OpenForm
<1>6. form' \in Form \union {Empty}
  <2>1. ASSUME NEW i \in {view.id} \ {None} PROVE record[i].form \in Form
    <3>1. Known(i) BY DEF OnboardingInv, PageInv, ViewInv
    <3>2. record[i] \in Row BY <3>1, Named DEF OnboardingInv, ServerInv, Known
    <3>3. QED BY <3>2 DEF Row
  <2>2. QED BY <2>1 DEF OpenForm
<1>7. FormInv' BY <1>1, <1>2, <1>6, NoneIsNothing DEF FormInv
<1>8. AddressInv' /\ ViewInv' BY <1>1, <1>2 DEF AddressInv, ViewInv, NoView
<1>9. TimerInv' BY <1>1, <1>3 DEF OnboardingInv, PageInv, TimerInv
<1>10. QED BY <1>4, <1>5, <1>7, <1>8, <1>9 DEF PageInv

LEMMA Filled ==
    ASSUME PageInv, NEW f \in Form, Edit(f)
    PROVE  PageInv'
<1>1. record' = record BY SameServer DEF Edit
<1>2. UNCHANGED <<place, address, key, posts, timers, held, gaveUp, asked, view>> BY DEF Edit, progress
<1>3. form' = f /\ banner' = None BY DEF Edit
<1>4. PostsInv' /\ GetsInv' BY <1>1, <1>2 DEF PageInv, PostsInv, PostOK, Owned, GetsInv, GetOK, Known
<1>5. FormInv' BY <1>1, <1>2, <1>3, NoneIsNothing DEF PageInv, FormInv, Known
<1>6. AddressInv' /\ ViewInv' /\ TimerInv'
  BY <1>1, <1>2 DEF PageInv, AddressInv, ViewInv, TimerInv, Known
<1>7. QED BY <1>4, <1>5, <1>6 DEF PageInv

LEMMA Submitted ==
    ASSUME PageInv, Submit
    PROVE  PageInv'
<1>1. record' = record BY SameServer DEF Submit
<1>2. UNCHANGED <<place, address, key, form, timers, held, gaveUp, asked, view>> BY DEF Submit, progress
<1>3. place = "form" /\ key \in Key /\ form \in Form
  BY DEF Submit, CanSubmit, Valid, PageInv, FormInv
<1>4. PostsInv'
  <2>1. [key |-> key, form |-> form, says |-> "nothing", own |-> TRUE] \in Post BY <1>3 DEF Post, Says
  <2>2. ASSUME NEW p \in posts PROVE PostOK(p)' /\ Owned(p)'
    BY <1>1, <1>2 DEF PageInv, PostsInv, PostOK, Owned, Known
  <2>3. PICK p : p = [key |-> key, form |-> form, says |-> "nothing", own |-> TRUE] OBVIOUS
  <2>4. p \in Post /\ p.says = "nothing" /\ p.key = key BY <2>1, <2>3
  <2>5. PostOK(p)' /\ Owned(p)' BY <1>2, <1>3, <2>4 DEF PostOK, Owned
  <2>6. posts' = posts \union {p} BY <2>3 DEF Submit
  <2>7. QED BY <2>2, <2>5, <2>6 DEF PostsInv
<1>5. FormInv'
  <2>1. banner' = None BY DEF Submit
  <2>2. QED BY <1>1, <1>2, <2>1, NoneIsNothing DEF PageInv, FormInv, Known
<1>6. GetsInv' /\ AddressInv' /\ ViewInv' /\ TimerInv'
  BY <1>1, <1>2 DEF PageInv, GetsInv, GetOK, AddressInv, ViewInv, TimerInv, Known
<1>7. QED BY <1>4, <1>5, <1>6 DEF PageInv

(* A submission is received once or not at all.                            *)
LEMMA Received ==
    ASSUME OnboardingInv, NEW p, NEW spawned \in BOOLEAN, Receive(p, spawned)
    PROVE  OnboardingInv'
<1>1. p \in posts /\ p \in Post /\ p.key \in Key /\ p.form \in Form
  BY DEF Receive, OnboardingInv, PageInv, PostsInv, PostOK, Post
<1>2. Claim(p.key, p.form, spawned) BY DEF Receive
<1>3. ServerInv' /\ RecordsKept /\ record'[p.key] # None
  BY <1>1, <1>2, Claimed DEF OnboardingInv
<1>4. UNCHANGED <<place, address, key, form, banner, timers, held, gaveUp, asked, view>>
  BY DEF Receive, formPage, progress
<1>5. PICK says : /\ says = IF spawned \/ record[p.key] # None THEN Verdict(p.key, p.form) ELSE "error"
                  /\ posts' = (posts \ {p}) \union {[p EXCEPT !.says = says]}
  BY DEF Receive
<1>6. says \in Says
  <2>1. Verdict(p.key, p.form) \in Says
    <3>1. record[p.key] # None => record[p.key].state \in {"pending", "completed", "failed"}
      BY <1>1, Named DEF OnboardingInv, ServerInv, Row
    <3>2. QED BY <3>1 DEF Verdict, Says
  <2>2. QED BY <1>5, <2>1 DEF Says
<1>7. PostsInv'
  <2>1. [p EXCEPT !.says = says] \in Post BY <1>1, <1>6 DEF Post
  <2>2. /\ [p EXCEPT !.says = says].key = p.key /\ [p EXCEPT !.says = says].own = p.own
    BY <1>1 DEF Post
  <2>3. Owned([p EXCEPT !.says = says])' BY <1>1, <1>4, <2>2 DEF OnboardingInv, PageInv, PostsInv, Owned
  <2>4. PostOK([p EXCEPT !.says = says])' BY <1>1, <1>3, <2>1, <2>2 DEF PostOK, Known
  <2>5. \A q \in posts : PostOK(q)' /\ Owned(q)'
    BY <1>3, <1>4, KnownKept DEF OnboardingInv, PageInv, PostsInv, PostOK, Owned, Known
  <2>6. QED BY <1>5, <2>3, <2>4, <2>5 DEF PostsInv
<1>8. GetsInv' BY <1>3, <1>4, KnownKept DEF OnboardingInv, PageInv, GetsInv, GetOK, Known
<1>9. FormInv' BY <1>3, <1>4, KnownKept DEF OnboardingInv, PageInv, FormInv, Known
<1>10. AddressInv' /\ ViewInv' /\ TimerInv'
  BY <1>3, <1>4, KnownKept DEF OnboardingInv, PageInv, AddressInv, ViewInv, TimerInv, Known
<1>11. QED BY <1>3, <1>7, <1>8, <1>9, <1>10 DEF OnboardingInv, PageInv

LEMMA Accepts ==
    ASSUME PageInv, NEW p, Accepted(p)
    PROVE  PageInv'
<1>1. p \in posts /\ p.says = "created" BY DEF Accepted
<1>2. Known(p.key) BY <1>1 DEF PageInv, PostsInv, PostOK
<1>3. Navigate("progress", p.key, NoView, posts \ {p}, asked) /\ UNCHANGED server BY DEF Accepted
<1>4. NoView.id = None BY DEF NoView
<1>5. QED BY <1>2, <1>3, <1>4, Navigated

LEMMA Refusal ==
    ASSUME PageInv, NEW p, NEW says, Refused(p, says), says = "running" => Known(p.key)
    PROVE  PageInv'
<1>1. record' = record BY SameServer DEF Refused
<1>2. /\ UNCHANGED <<place, address, key, form, timers, held, gaveUp, asked, view>>
      /\ posts' = posts \ {p} /\ p \in posts
  BY DEF Refused, progress
<1>3. PostsInv' BY <1>1, <1>2 DEF PageInv, PostsInv, PostOK, Owned, Known
<1>4. FormInv'
  <2>1. CASE p.own
    <3>1. banner' = says /\ p.key = key BY <1>2, <2>1 DEF Refused, PageInv, PostsInv, Owned
    <3>2. QED BY <1>1, <1>2, <3>1 DEF PageInv, FormInv, Known
  <2>2. CASE ~p.own
    <3>1. banner' = banner BY <2>2 DEF Refused
    <3>2. QED BY <1>1, <1>2, <3>1 DEF PageInv, FormInv, Known
  <2>3. QED BY <2>1, <2>2
<1>5. GetsInv' /\ AddressInv' /\ ViewInv' /\ TimerInv'
  BY <1>1, <1>2 DEF PageInv, GetsInv, GetOK, AddressInv, ViewInv, TimerInv, Known
<1>6. QED BY <1>3, <1>4, <1>5 DEF PageInv

LEMMA Rejects ==
    ASSUME PageInv, NEW p, Rejected(p) \/ Unanswered(p)
    PROVE  PageInv'
<1>1. CASE Rejected(p)
  <2>1. Refused(p, p.says) /\ p \in posts /\ p.says # "nothing" BY <1>1 DEF Rejected, Refused
  <2>2. Known(p.key) BY <2>1 DEF PageInv, PostsInv, PostOK
  <2>3. QED BY <2>1, <2>2, Refusal
<1>2. CASE Unanswered(p)
  <2>1. Refused(p, "error") BY <1>2 DEF Unanswered
  <2>2. "error" # "running" OBVIOUS
  <2>3. QED BY <2>1, <2>2, Refusal
<1>3. QED BY <1>1, <1>2

LEMMA Followed ==
    ASSUME PageInv, FollowLink
    PROVE  PageInv'
<1>1. record' = record BY SameServer DEF FollowLink
<1>2. place' = "progress" /\ address' = key /\ posts' = {} /\ asked' = {} /\ view' = view
  BY DEF FollowLink
<1>3. Known(key) BY DEF FollowLink, PageInv, FormInv
<1>4. timers' = 1 /\ held' = TRUE /\ gaveUp' = FALSE BY DEF FollowLink
<1>5. QED BY <1>1, <1>2, <1>3, <1>4
      DEF PageInv, PostsInv, GetsInv, FormInv, AddressInv, ViewInv, TimerInv, Known

LEMMA Ticks ==
    ASSUME PageInv, Tick
    PROVE  PageInv'
<1>1. record' = record BY SameServer DEF Tick
<1>2. UNCHANGED <<place, address, key, form, banner, posts, timers, held, gaveUp, view>>
  BY DEF Tick, formPage, progress
<1>3. Known(address) BY DEF Tick, PageInv, TimerInv, AddressInv
<1>4. GetsInv'
  <2>1. PICK n : asked' = asked \union {[id |-> address, nr |-> n, says |-> "nothing", own |-> TRUE]} BY DEF Tick
  <2>2. /\ [id |-> address, nr |-> n, says |-> "nothing", own |-> TRUE] \in Get(n)
        /\ Known([id |-> address, nr |-> n, says |-> "nothing", own |-> TRUE].id)
    BY <1>3 DEF Get, Known
  <2>3. \A r \in asked' : GetOK(r) BY <2>1, <2>2 DEF PageInv, GetsInv, GetOK
  <2>4. QED BY <1>1, <2>3 DEF GetsInv, GetOK, Known
<1>5. PostsInv' /\ FormInv' BY <1>1, <1>2 DEF PageInv, PostsInv, PostOK, Owned, FormInv, Known
<1>6. AddressInv' /\ ViewInv' /\ TimerInv'
  BY <1>1, <1>2 DEF PageInv, AddressInv, ViewInv, TimerInv, Known
<1>7. QED BY <1>4, <1>5, <1>6 DEF PageInv

(* A look may fail the onboarding it looks at; it makes none up.           *)
LEMMA Looks ==
    ASSUME OnboardingInv, NEW r, NEW probed \in BOOLEAN, Look(r, probed)
    PROVE  OnboardingInv'
<1>1. r \in asked /\ Known(r.id) BY DEF Look, OnboardingInv, PageInv, GetsInv, GetOK
<1>2. Looked(r.id, probed) BY DEF Look
<1>3. ServerInv' /\ RecordsKept BY <1>1, <1>2, Watched DEF OnboardingInv, Known
<1>4. UNCHANGED <<place, address, key, form, banner, posts, timers, held, gaveUp, view>>
  BY DEF Look, formPage, progress
<1>5. GetsInv'
  <2>1. PICK says : says = StateOf(r.id, probed) /\ asked' = (asked \ {r}) \union {[r EXCEPT !.says = says]}
    BY DEF Look
  <2>2. record[r.id] \in Row BY <1>1, Named DEF OnboardingInv, ServerInv, Known
  <2>3. says \in {"pending", "completed", "failed"} BY <2>1, <2>2 DEF StateOf, Row
  <2>4. GetOK([r EXCEPT !.says = says])
    <3>1. PICK n : r \in Get(n) BY <1>1 DEF OnboardingInv, PageInv, GetsInv, GetOK
    <3>2. [r EXCEPT !.says = says] \in Get(n) /\ [r EXCEPT !.says = says].id = r.id BY <2>3, <3>1 DEF Get
    <3>3. QED BY <1>1, <3>2 DEF GetOK
  <2>5. \A q \in asked' : GetOK(q) BY <2>1, <2>4 DEF OnboardingInv, PageInv, GetsInv
  <2>6. QED BY <1>3, <2>5, KnownKept DEF GetsInv, GetOK, Known
<1>6. PostsInv' BY <1>3, <1>4, KnownKept DEF OnboardingInv, PageInv, PostsInv, PostOK, Owned, Known
<1>7. FormInv' BY <1>3, <1>4, KnownKept DEF OnboardingInv, PageInv, FormInv, Known
<1>8. AddressInv' /\ ViewInv' /\ TimerInv'
  BY <1>3, <1>4, KnownKept DEF OnboardingInv, PageInv, AddressInv, ViewInv, TimerInv, Known
<1>9. QED BY <1>3, <1>5, <1>6, <1>7, <1>8 DEF OnboardingInv, PageInv

(* The third failure in a row, and no other, takes the timer away.         *)
LEMMA Misses ==
    ASSUME PageInv, NEW r, Miss(r) \/ StillPending(r)
    PROVE  PageInv'
<1>1. record' = record BY SameServer DEF Miss, StillPending
<1>2. UNCHANGED <<place, address, key, form, banner, posts, view>> /\ asked' \subseteq asked
  BY DEF Miss, StillPending, formPage
<1>3. PostsInv' /\ FormInv' BY <1>1, <1>2 DEF PageInv, PostsInv, PostOK, Owned, FormInv, Known
<1>4. GetsInv' BY <1>1, <1>2 DEF PageInv, GetsInv, GetOK, Known
<1>5. AddressInv' /\ ViewInv' BY <1>1, <1>2 DEF PageInv, AddressInv, ViewInv, Known
<1>6. TimerInv'
  <2>1. held \in BOOLEAN /\ timers = (IF held THEN 1 ELSE 0) /\ (held => place = "progress" /\ ~gaveUp)
    BY DEF PageInv, TimerInv
  <2>2. \/ UNCHANGED <<timers, held, gaveUp>>
        \/ held' = FALSE /\ timers' = Cleared
    BY DEF Miss, StillPending, ClearPoll
  <2>3. Cleared = 0 BY <2>1 DEF Cleared
  <2>4. CASE UNCHANGED <<timers, held, gaveUp>>
    BY <1>2, <2>1, <2>4 DEF TimerInv
  <2>5. CASE held' = FALSE /\ timers' = Cleared
    <3>1. ~held' /\ held' \in BOOLEAN /\ timers' = 0 BY <2>3, <2>5
    <3>2. QED BY <3>1 DEF TimerInv
  <2>6. QED BY <2>2, <2>4, <2>5
<1>7. QED BY <1>3, <1>4, <1>5, <1>6 DEF PageInv

LEMMA Retries ==
    ASSUME PageInv, Retry
    PROVE  PageInv'
<1>1. record' = record BY SameServer DEF Retry
<1>2. UNCHANGED <<place, address, key, form, banner, posts, asked, view>> BY DEF Retry, formPage
<1>3. PostsInv' /\ FormInv' BY <1>1, <1>2 DEF PageInv, PostsInv, PostOK, Owned, FormInv, Known
<1>4. GetsInv' /\ AddressInv' /\ ViewInv'
  BY <1>1, <1>2 DEF PageInv, GetsInv, GetOK, AddressInv, ViewInv, Known
<1>5. TimerInv'
  <2>1. place = "progress" /\ gaveUp /\ timers = 0 BY DEF Retry, PageInv, TimerInv
  <2>2. QED BY <1>2, <2>1 DEF Retry, StartPolling, TimerInv
<1>6. QED BY <1>3, <1>4, <1>5 DEF PageInv

LEMMA Restores ==
    ASSUME PageInv, Restored \/ RestoreFails
    PROVE  PageInv'
<1>1. record' = record BY SameServer DEF Restored, RestoreFails
<1>2. UNCHANGED <<place, address, key, form, banner, posts, timers, held, gaveUp, asked>>
  BY DEF Restored, RestoreFails, formPage, progress
<1>3. ViewInv'
  <2>1. view'.id = None \/ view'.id \in ByHost(HostFor(view.id)) BY DEF Restored, RestoreFails
  <2>2. QED BY <1>1, <2>1 DEF ViewInv, ByHost, Known
<1>4. PostsInv' /\ FormInv' BY <1>1, <1>2 DEF PageInv, PostsInv, PostOK, Owned, FormInv, Known
<1>5. GetsInv' /\ AddressInv' /\ TimerInv'
  BY <1>1, <1>2 DEF PageInv, GetsInv, GetOK, AddressInv, TimerInv, Known
<1>6. QED BY <1>3, <1>4, <1>5 DEF PageInv

(* Leaving, opening a result and being shown one are navigations.          *)
LEMMA Travels ==
    ASSUME PageInv, \/ Leave \/ \E k \in Key : OpenResult(k)
                    \/ \E r \in asked : Ended(r)
    PROVE  PageInv' /\ UNCHANGED server
<1>1. CASE Leave
  <2>1. NoView.id = None BY DEF NoView
  <2>2. QED BY <1>1, <2>1, Navigated DEF Leave
<1>2. ASSUME NEW k \in Key, OpenResult(k) PROVE PageInv' /\ UNCHANGED server
  <2>1. Navigate("result", k, [phase |-> "loading", id |-> k], posts, asked) /\ UNCHANGED server
    BY <1>2 DEF OpenResult
  <2>2. Known([phase |-> "loading", id |-> k].id) BY <1>2 DEF OpenResult, Known
  <2>3. QED BY <2>1, <2>2, Navigated
<1>3. ASSUME NEW r \in asked, Ended(r) PROVE PageInv' /\ UNCHANGED server
  <2>1. Navigate("result", r.id, [phase |-> r.says, id |-> r.id], posts, asked \ {r}) /\ UNCHANGED server
    BY <1>3 DEF Ended
  <2>2. Known([phase |-> r.says, id |-> r.id].id) BY <1>3 DEF PageInv, GetsInv, GetOK
  <2>3. QED BY <2>1, <2>2, Navigated
<1>4. QED BY <1>1, <1>2, <1>3

-----------------------------------------------------------------------------
LEMMA InitOnboarding == Init => OnboardingInv
<1>. SUFFICES ASSUME Init PROVE OnboardingInv OBVIOUS
<1>1. ServerInv BY InitServer DEF Init
<1>2. PostsInv /\ GetsInv /\ FormInv /\ AddressInv /\ TimerInv
  BY DEF Init, PostsInv, GetsInv, FormInv, AddressInv, TimerInv
<1>3. ViewInv BY DEF Init, ViewInv, NoView
<1>4. QED BY <1>1, <1>2, <1>3 DEF OnboardingInv, PageInv

LEMMA NextOnboarding == OnboardingInv /\ [Next]_vars => OnboardingInv'
<1>. SUFFICES ASSUME OnboardingInv, [Next]_vars PROVE OnboardingInv' OBVIOUS
<1>. USE DEF OnboardingInv
<1>1. CASE (\E k \in Key : SagaStep(k)) /\ UNCHANGED pages
  BY <1>1, SagaSteps, PagesKept
<1>2. CASE (Crash \/ (\E s \in Slug : RealmRemoved(s))) /\ UNCHANGED pages
  BY <1>2, Crashes, RealmTaken, PagesKept
<1>3. CASE Leave \/ (\E k \in Key : OpenResult(k)) \/ (\E r \in asked : Ended(r))
  BY <1>3, Travels, ServerKept
<1>4. CASE Submit
  BY <1>4, Submitted, ServerKept DEF Submit
<1>5. CASE FollowLink
  BY <1>5, Followed, ServerKept DEF FollowLink
<1>6. CASE Tick
  BY <1>6, Ticks, ServerKept DEF Tick
<1>7. CASE Retry
  BY <1>7, Retries, ServerKept DEF Retry
<1>8. CASE Restored \/ RestoreFails
  BY <1>8, Restores, ServerKept DEF Restored, RestoreFails
<1>9. CASE \E k \in Key : OpenForm(k)
  BY <1>9, Opened, ServerKept DEF OpenForm
<1>10. CASE \E f \in Form : Edit(f)
  BY <1>10, Filled, ServerKept DEF Edit
<1>11. CASE \E p \in posts, b \in BOOLEAN : Receive(p, b)
  BY <1>11, Received
<1>12. CASE \E p \in posts : Accepted(p)
  BY <1>12, Accepts, ServerKept DEF Accepted
<1>13. CASE \E p \in posts : Rejected(p) \/ Unanswered(p)
  <2>1. PICK p \in posts : Rejected(p) \/ Unanswered(p) BY <1>13
  <2>2. UNCHANGED server BY <2>1 DEF Rejected, Unanswered, Refused
  <2>3. QED BY <2>1, <2>2, Rejects, ServerKept
<1>14. CASE \E r \in asked, b \in BOOLEAN : Look(r, b)
  BY <1>14, Looks
<1>15. CASE \E r \in asked : StillPending(r) \/ Miss(r)
  <2>1. PICK r \in asked : StillPending(r) \/ Miss(r) BY <1>15
  <2>2. UNCHANGED server BY <2>1 DEF StillPending, Miss
  <2>3. QED BY <2>1, <2>2, Misses, ServerKept
<1>16. CASE UNCHANGED vars
  <2>1. UNCHANGED server /\ UNCHANGED pages BY <1>16 DEF vars
  <2>2. QED BY <2>1, ServerKept, PagesKept
<1>17. QED
  BY <1>1, <1>2, <1>3, <1>4, <1>5, <1>6, <1>7, <1>8, <1>9, <1>10, <1>11, <1>12, <1>13, <1>14,
     <1>15, <1>16 DEF Next

(* OIDC-17: a tenant whose onboarding is recorded as completed has its     *)
(* row, its schema and its host, and its realm unless somebody removed it. *)
THEOREM CompletedTenants == Spec => []CompletedIsWhole
<1>1. OnboardingInv => CompletedIsWhole
  BY DEF OnboardingInv, ServerInv, SagaInv, Whole, CompletedIsWhole
<1>2. QED BY <1>1, InitOnboarding, NextOnboarding, PTL DEF Spec

(* ONB-UI-03: at most one timer runs, and only while the progress page     *)
(* shows that it is waiting.                                               *)
THEOREM TimersStop == Spec => []NoLeakedTimer
<1>1. OnboardingInv => NoLeakedTimer
  BY DEF OnboardingInv, PageInv, TimerInv, NoLeakedTimer
<1>2. QED BY <1>1, InitOnboarding, NextOnboarding, PTL DEF Spec
===============================================================================
