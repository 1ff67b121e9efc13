----------------------- MODULE ServiceEndpointControllers -----------------------
(***************************************************************************)
(* The five controllers of service endpoints                               *)
(* (internal/controller/serviceendpoint<kind>): one CR of one kind, the    *)
(* endpoints of its project, which are known by UUIDs, and the Kubernetes  *)
(* Secret the credentials come from.  Azure DevOps does not give them out  *)
(* again: a digest of what was sent is kept in an annotation (ann).        *)
(*                                                                         *)
(* The five are separate code of one shape.  The shape is stated once, in  *)
(* ...Endpoint(...), and below it each controller with what is its own:    *)
(* which specs it accepts, what it compares, when it reads the Secret and  *)
(* when it records or forgets a digest.                                    *)
(***************************************************************************)
EXTENDS ManagedReconciler, Sequences

CONSTANTS
  EndpointNames,  \* names of service endpoints
  Values,         \* what the Secret may hold under the referenced key
  Empty           \* the empty string: no credentials, or a key the Secret lacks

VARIABLES
  kind,       \* which of the five controllers this is
  endpoints,  \* endpoints[i]: the service endpoint with the i-th UUID
  secret,     \* the referenced Secret's value; None while there is no such Secret
  payload     \* the value the running reconcile resolved, to be sent

serviceVars == <<kind, endpoints, secret, payload>>
vars == <<runtimeVars, serviceVars>>

Kinds == {"generic", "github", "azurerm", "kubernetes", "dockerregistry"}

(***************************************************************************)
(* scheme: whether the kind of authorization chosen needs credentials      *)
(* ("secret") or not ("open").  ref: whether the spec refers to a Secret.  *)
(* Everything else a spec says beside the name stands with the scheme.     *)
(***************************************************************************)
ServiceEndpointParameters ==
  [name : EndpointNames, scheme : {"secret", "open"}, ref : BOOLEAN]

ASSUME ServiceEndpointAssumption ==
  /\ None \notin Values \cup Nat \cup ServiceEndpointParameters
  /\ Empty \notin Values \cup {None}
  /\ MetaName \notin Nat \cup {None}

UUIDs == DOMAIN endpoints

\* owner: "us" if the controller created the endpoint, "named" if the user gave
\* its UUID to the CR.  heard: the response to its creation arrived.
NewEndpoint(p, value) ==
  [there |-> TRUE, name |-> p.name, scheme |-> p.scheme, value |-> value,
   ready |-> TRUE, owner |-> "us", heard |-> FALSE]

NamedEndpoint(p) == [NewEndpoint(p, Empty) EXCEPT !.owner = "named"]

Kept(i) == endpoints[i].there /\ endpoints[i].owner = "us" /\ endpoints[i].heard

\* Names are unique in a project.
Taken(name) == {i \in UUIDs : endpoints[i].there /\ endpoints[i].name = name}

-----------------------------------------------------------------------------
(* What the controllers have in common *)

\* parseUUID: only the CR's own name may be something else than a UUID.
IsUUID(name) == name # MetaName

Get(i) == i \in UUIDs /\ endpoints[i].there

\* What a digest tells: whether it was made of a value.  Each is salted anew.
Hash(value) == [madeOf |-> value]
Matches(value, digest) == digest = Hash(value)

\* CommonCredentialExtractor: no Secret is an error, no such key is not.
Resolve(p) == IF p.ref THEN secret ELSE Empty

\* Seeded fault: without its Secret an endpoint counts as missing.
ObserveEndpoint_Blind(valid, same, looks, value, digestMatches) ==
  /\ pc = "observe"
  /\ ObserveReturns([mem EXCEPT !.status = mem.name],
       IF ~IsUUID(mem.name) \/ ~valid THEN "status"
       ELSE IF ~Get(mem.name) \/ value = None THEN "missing"
       ELSE IF same /\ digestMatches THEN "current" ELSE "stale")
  /\ UNCHANGED <<faults, serviceVars>>

(***************************************************************************)
(* valid: the spec passes validateParameters.  same: what can be compared  *)
(* is as the spec wants it.  looks: the Secret is read at all.  value: what*)
(* it gives.  digestMatches: the annotation agrees with it.  An invalid    *)
(* spec ends Observe before anything is read, for a CR in deletion too.    *)
(* When the context has ended before the read, Retry gives neither an      *)
(* endpoint nor an error: it counts as there, and as not up to date.       *)
(***************************************************************************)
ObserveEndpoint(valid, same, looks, value, digestMatches) ==
  LET i == mem.name
      seen == [mem EXCEPT !.status = i]
  IN /\ pc = "observe"
     /\ \/ /\ Fault
           /\ ObserveReturns(mem, "status")
        \/ /\ valid /\ IsUUID(i) /\ Fault
           /\ ObserveReturns([mem EXCEPT !.status = None], "stale")
        \/ /\ ~valid \/ ~IsUUID(i)
           /\ ObserveReturns(mem, "status")
           /\ UNCHANGED faults
        \/ /\ valid /\ IsUUID(i) /\ ~Get(i)
           /\ ObserveReturns(mem, "missing")
           /\ UNCHANGED faults
        \/ /\ valid /\ Get(i) /\ ~same
           /\ ObserveReturns(seen, "stale")
           /\ UNCHANGED faults
        \/ /\ valid /\ Get(i) /\ same
           /\ IF looks /\ value = None
                THEN ObserveReturns(seen, "status")
                ELSE ObserveReturns(seen, IF looks => digestMatches THEN "current" ELSE "stale")
           /\ UNCHANGED faults
     /\ UNCHANGED serviceVars

\* Seeded fault: a Secret that is not there is sent as it is.
Build_Unchecked(valid, value, next, failed) ==
  /\ pc' = IF valid THEN next ELSE failed
  /\ payload' = value
  /\ UNCHANGED <<api, cache, mem, fresh, edits, faults, kind, endpoints, secret>>

\* buildServiceEndpoint: the value is on its way from here on, whatever becomes
\* of the Secret.
Build(valid, value, next, failed) ==
  /\ \/ /\ ~valid \/ value = None
        /\ pc' = failed
        /\ UNCHANGED <<payload, faults>>
     \/ /\ Fault
        /\ pc' = failed
        /\ UNCHANGED payload
     \/ /\ valid /\ value # None
        /\ payload' = value
        /\ pc' = next
        /\ UNCHANGED faults
  /\ UNCHANGED <<api, cache, mem, fresh, edits, kind, endpoints, secret>>

\* Seeded fault: the UUID is recorded only after the digest.
AddEndpoint_NameLast(digest) ==
  /\ pc = "add" /\ Taken(mem.spec.name) = {}
  /\ endpoints' = Append(endpoints, [NewEndpoint(mem.spec, payload) EXCEPT !.heard = TRUE])
  /\ \/ Fault /\ pc' = "createFailed" /\ UNCHANGED mem
     \/ /\ mem' = [mem EXCEPT !.name = Len(endpoints'), !.status = Len(endpoints'), !.ann = digest]
        /\ pc' = "created" /\ UNCHANGED faults
  /\ payload' = None
  /\ UNCHANGED <<api, cache, fresh, edits, kind, secret>>

(***************************************************************************)
(* One request of Create's Retry; module Retry counts them.  A request     *)
(* that is lost, before or after it was granted, is repeated or given up;  *)
(* a name that is taken, if only by an earlier attempt, is refused.  The   *)
(* digest comes after the external-name.  When the context has ended       *)
(* before the first request, Retry returns nil and Create reports a        *)
(* success without a UUID.  (That it does so after a lost request, too, is *)
(* more than the code can do.)                                             *)
(***************************************************************************)
AddEndpoint(digest) ==
  LET i == Len(endpoints) + 1
      endpoint == NewEndpoint(mem.spec, payload)
      created == [mem EXCEPT !.name = i, !.status = i]
      free == Taken(mem.spec.name) = {}
  IN /\ pc = "add"
     /\ \/ /\ ~free
           /\ pc' = "createFailed" /\ payload' = None
           /\ UNCHANGED <<mem, endpoints, faults>>
        \/ /\ Fault
           /\ endpoints' \in {endpoints} \cup IF free THEN {Append(endpoints, endpoint)} ELSE {}
           /\ \/ UNCHANGED <<pc, payload>>
              \/ pc' = "createFailed" /\ payload' = None
           /\ UNCHANGED mem
        \/ /\ Fault
           /\ mem' = [mem EXCEPT !.status = None, !.ann = digest]
           /\ pc' = "created" /\ payload' = None
           /\ UNCHANGED endpoints
        \/ /\ free
           /\ endpoints' = Append(endpoints, [endpoint EXCEPT !.heard = TRUE])
           /\ \/ /\ mem' = [created EXCEPT !.ann = digest]
                 /\ pc' = "created" /\ UNCHANGED faults
              \/ /\ digest = Hash(payload) /\ Fault
                 /\ mem' = created
                 /\ pc' = "createFailed"
           /\ payload' = None
     /\ UNCHANGED <<api, cache, fresh, edits, kind, secret>>

\* Seeded fault: the credentials are left as they are.
ReplaceEndpoint_Partly(digest) ==
  /\ pc = "update"
  /\ endpoints' = [endpoints EXCEPT ![mem.name].name = mem.spec.name,
                                    ![mem.name].scheme = mem.spec.scheme]
  /\ pc' = "status" /\ payload' = None
  /\ UNCHANGED <<api, cache, mem, fresh, edits, faults, kind, secret>>

\* The whole endpoint is replaced.  The digest goes to a copy of the CR whose
\* annotations nobody stores.
ReplaceEndpoint(digest) ==
  LET i == mem.name
      accepted == Get(i) /\ Taken(mem.spec.name) \subseteq {i}
      replaced == [endpoints EXCEPT ![i].name = mem.spec.name, ![i].scheme = mem.spec.scheme,
                                    ![i].value = payload, ![i].ready = TRUE]
  IN /\ pc = "update"
     /\ \/ /\ ~accepted
           /\ UNCHANGED <<endpoints, mem, faults>>
        \/ /\ Fault
           /\ endpoints' \in {endpoints} \cup IF accepted THEN {replaced} ELSE {}
           /\ UNCHANGED mem
        \/ /\ accepted
           /\ endpoints' = replaced
           /\ mem' = [mem EXCEPT !.status = i, !.ann = digest]
           /\ UNCHANGED faults
     /\ pc' = "status" /\ payload' = None
     /\ UNCHANGED <<api, cache, fresh, edits, kind, secret>>

\* The Secret is not read here.  An endpoint that is gone is a success.
DeleteEndpoint ==
  LET i == mem.name
      deleted == IF Get(i) THEN [endpoints EXCEPT ![i].there = FALSE] ELSE endpoints
  IN /\ MayDelete
     /\ \/ endpoints' = deleted /\ UNCHANGED faults
        \/ Fault /\ endpoints' \in {endpoints, deleted}
     /\ pc' = "status"
     /\ UNCHANGED <<api, cache, mem, fresh, edits, kind, secret, payload>>

-----------------------------------------------------------------------------
(* ServiceEndpointGeneric *)

\* None goes without a Secret; UsernamePassword and Token need one.
ValidGeneric(p) == p.ref = (p.scheme = "secret")

IsUpToDateGeneric(p, endpoint) == endpoint.name = p.name /\ endpoint.scheme = p.scheme

\* No value is nothing to compare, whatever was sent before.
PasswordUpToDate(object) ==
  LET value == Resolve(object.spec) IN value = Empty \/ Matches(value, object.ann)

\* Seeded fault: the digest is taken of the Secret as it is by now.
PasswordHash_Now(ann) == IF payload = Empty THEN ann ELSE Hash(secret)

\* No value leaves the digest of an earlier one.
PasswordHash(ann) == IF payload = Empty THEN ann ELSE Hash(payload)

ObserveGeneric ==
  /\ kind = "generic"
  /\ ObserveEndpoint(ValidGeneric(mem.spec), IsUpToDateGeneric(mem.spec, endpoints[mem.name]),
                     TRUE, Resolve(mem.spec), PasswordUpToDate(mem))

BuildGeneric(next, failed) ==
  Build(ValidGeneric(mem.spec), Resolve(mem.spec), next, failed)

CreateGeneric ==
  /\ kind = "generic"
  /\ \/ pc = "create" /\ BuildGeneric("add", "createFailed")
     \/ AddEndpoint(PasswordHash(mem.ann))

UpdateGeneric ==
  /\ kind = "generic"
  /\ \/ MayUpdate /\ BuildGeneric("update", "status")
     \/ ReplaceEndpoint(PasswordHash(mem.ann))

DeleteGeneric == kind = "generic" /\ DeleteEndpoint

Generic == ObserveGeneric \/ CreateGeneric \/ UpdateGeneric \/ DeleteGeneric

-----------------------------------------------------------------------------
(* ServiceEndpointGitHub *)

\* OAuth may do without a Secret, but need not.
ValidGitHub(p) == p.scheme = "secret" => p.ref

IsUpToDateGitHub(p, endpoint) == endpoint.name = p.name /\ endpoint.scheme = p.scheme

\* No value agrees only with no digest.
TokenUpToDate(object) ==
  LET value == Resolve(object.spec)
  IN IF value = Empty THEN object.ann = None ELSE Matches(value, object.ann)

\* No value removes the digest of an earlier one.
TokenHash == IF payload = Empty THEN None ELSE Hash(payload)

ObserveGitHub ==
  /\ kind = "github"
  /\ ObserveEndpoint(ValidGitHub(mem.spec), IsUpToDateGitHub(mem.spec, endpoints[mem.name]),
                     TRUE, Resolve(mem.spec), TokenUpToDate(mem))

BuildGitHub(next, failed) ==
  Build(ValidGitHub(mem.spec), Resolve(mem.spec), next, failed)

CreateGitHub ==
  /\ kind = "github"
  /\ \/ pc = "create" /\ BuildGitHub("add", "createFailed")
     \/ AddEndpoint(TokenHash)

UpdateGitHub ==
  /\ kind = "github"
  /\ \/ MayUpdate /\ BuildGitHub("update", "status")
     \/ ReplaceEndpoint(TokenHash)

DeleteGitHub == kind = "github" /\ DeleteEndpoint

GitHub == ObserveGitHub \/ CreateGitHub \/ UpdateGitHub \/ DeleteGitHub

-----------------------------------------------------------------------------
(* ServiceEndpointAzureRM *)

\* Either servicePrincipal, which has a Secret, or workloadIdentityFederation:
\* ref without "secret" is both, "secret" without ref neither.
ValidAzureRM(p) == p.ref = (p.scheme = "secret")

IsUpToDateAzureRM(p, endpoint) == endpoint.name = p.name /\ endpoint.scheme = p.scheme

ClientSecretUpToDate(object) ==
  LET value == Resolve(object.spec) IN value = Empty \/ Matches(value, object.ann)

ClientSecretHash(ann) == IF payload = Empty THEN ann ELSE Hash(payload)

ObserveAzureRM ==
  /\ kind = "azurerm"
  /\ ObserveEndpoint(ValidAzureRM(mem.spec), IsUpToDateAzureRM(mem.spec, endpoints[mem.name]),
                     TRUE, Resolve(mem.spec), ClientSecretUpToDate(mem))

BuildAzureRM(next, failed) ==
  Build(ValidAzureRM(mem.spec), Resolve(mem.spec), next, failed)

CreateAzureRM ==
  /\ kind = "azurerm"
  /\ \/ pc = "create" /\ BuildAzureRM("add", "createFailed")
     \/ AddEndpoint(ClientSecretHash(mem.ann))

UpdateAzureRM ==
  /\ kind = "azurerm"
  /\ \/ MayUpdate /\ BuildAzureRM("update", "status")
     \/ ReplaceEndpoint(ClientSecretHash(mem.ann))

DeleteAzureRM == kind = "azurerm" /\ DeleteEndpoint

AzureRM == ObserveAzureRM \/ CreateAzureRM \/ UpdateAzureRM \/ DeleteAzureRM

-----------------------------------------------------------------------------
(* ServiceEndpointKubernetes *)

ValidKubernetes(p) == p.scheme = "secret" => p.ref

\* AzureSubscription ("open") passes the validation but cannot be sent.
BuildsKubernetes(p) == ValidKubernetes(p) /\ p.scheme = "secret"

IsUpToDateKubernetes(p, endpoint) == endpoint.name = p.name /\ endpoint.scheme = p.scheme

\* Only Kubeconfig and ServiceAccount have a Secret that is read.
AuthSecret(p) == IF p.scheme = "secret" THEN Resolve(p) ELSE Empty

AuthSecretUpToDate(object) ==
  LET value == AuthSecret(object.spec)
  IN IF value = Empty THEN object.ann = None ELSE Matches(value, object.ann)

AuthSecretHash == IF payload = Empty THEN None ELSE Hash(payload)

\* Seeded fault: the Secret is read for a CR in deletion, too.
ObserveKubernetes_Always ==
  /\ kind = "kubernetes"
  /\ ObserveEndpoint(ValidKubernetes(mem.spec), IsUpToDateKubernetes(mem.spec, endpoints[mem.name]),
                     TRUE, AuthSecret(mem.spec), AuthSecretUpToDate(mem))

\* Of the five, only this one does without the Secret during deletion.
ObserveKubernetes ==
  /\ kind = "kubernetes"
  /\ ObserveEndpoint(ValidKubernetes(mem.spec), IsUpToDateKubernetes(mem.spec, endpoints[mem.name]),
                     ~mem.del, AuthSecret(mem.spec), AuthSecretUpToDate(mem))

BuildKubernetes(next, failed) ==
  Build(BuildsKubernetes(mem.spec), AuthSecret(mem.spec), next, failed)

CreateKubernetes ==
  /\ kind = "kubernetes"
  /\ \/ pc = "create" /\ BuildKubernetes("add", "createFailed")
     \/ AddEndpoint(AuthSecretHash)

UpdateKubernetes ==
  /\ kind = "kubernetes"
  /\ \/ MayUpdate /\ BuildKubernetes("update", "status")
     \/ ReplaceEndpoint(AuthSecretHash)

DeleteKubernetes == kind = "kubernetes" /\ DeleteEndpoint

Kubernetes == ObserveKubernetes \/ CreateKubernetes \/ UpdateKubernetes \/ DeleteKubernetes

-----------------------------------------------------------------------------
(* ServiceEndpointDockerRegistry *)

\* There is one scheme, and it needs a username and a password; the two Secrets
\* stand as one.
ValidDockerRegistry(p) == p.ref

\* An endpoint that is not ready is sent anew.
IsUpToDateDockerRegistry(p, endpoint) ==
  endpoint.ready /\ endpoint.name = p.name /\ endpoint.scheme = p.scheme

ConfigUpToDate(object) == Matches(Resolve(object.spec), object.ann)

\* An empty password has a digest as well.
ConfigHash == Hash(payload)

ObserveDockerRegistry ==
  /\ kind = "dockerregistry"
  /\ ObserveEndpoint(ValidDockerRegistry(mem.spec),
                     IsUpToDateDockerRegistry(mem.spec, endpoints[mem.name]),
                     TRUE, Resolve(mem.spec), ConfigUpToDate(mem))

BuildDockerRegistry(next, failed) ==
  Build(ValidDockerRegistry(mem.spec), Resolve(mem.spec), next, failed)

CreateDockerRegistry ==
  /\ kind = "dockerregistry"
  /\ \/ pc = "create" /\ BuildDockerRegistry("add", "createFailed")
     \/ AddEndpoint(ConfigHash)

UpdateDockerRegistry ==
  /\ kind = "dockerregistry"
  /\ \/ MayUpdate /\ BuildDockerRegistry("update", "status")
     \/ ReplaceEndpoint(ConfigHash)

DeleteDockerRegistry == kind = "dockerregistry" /\ DeleteEndpoint

DockerRegistry == ObserveDockerRegistry \/ CreateDockerRegistry \/ UpdateDockerRegistry \/ DeleteDockerRegistry

-----------------------------------------------------------------------------

ControllerStep ==
  \/ ReconcilerStep(TRUE) /\ UNCHANGED serviceVars
  \/ Generic \/ GitHub \/ AzureRM \/ Kubernetes \/ DockerRegistry

-----------------------------------------------------------------------------
(* Faults, the user and the project's administrators *)

Crash == Abort /\ payload' = None /\ UNCHANGED <<kind, endpoints, secret>>

\* The specs a kind's CRD can express.
Parameters == {p \in ServiceEndpointParameters : kind = "dockerregistry" => p.scheme = "secret"}

\* The user keeps the project: these kinds have no word for an endpoint that moves.
UserStep ==
  /\ \/ \E p \in Parameters : EditSpec(p)
     \/ RequestDelete
  /\ UNCHANGED serviceVars

RotateSecret ==
  /\ Edit
  /\ secret' \in (Values \cup {Empty, None}) \ {secret}
  /\ UNCHANGED <<api, cache, mem, fresh, pc, faults, kind, endpoints, payload>>

AdminStep ==
  /\ Edit
  /\ \E i \in UUIDs :
       /\ endpoints[i].there
       /\ \/ endpoints' = [endpoints EXCEPT ![i].there = FALSE]
          \/ endpoints' = [endpoints EXCEPT ![i].ready = FALSE]
          \/ \E name \in EndpointNames :
               Taken(name) = {} /\ endpoints' = [endpoints EXCEPT ![i].name = name]
  /\ UNCHANGED <<api, cache, mem, fresh, pc, faults, kind, secret, payload>>

-----------------------------------------------------------------------------

\* A CR that was just applied, or one whose user gave it a UUID: that of an
\* endpoint or, to have one created, one that no endpoint has.  Which name it
\* asks for makes no difference.
Init ==
  LET first == {p \in Parameters : p.name = CHOOSE name \in EndpointNames : TRUE}
  IN /\ kind \in Kinds
     /\ \/ /\ endpoints = <<>>
           /\ RuntimeInit({NewObject(p, name) : p \in first, name \in {None, 0}})
        \/ \E p \in first :
             /\ endpoints = <<NamedEndpoint(p)>>
             /\ RuntimeInit({NewObject(p, 1)})
     /\ secret \in Values \cup {Empty, None}
     /\ payload = None

Next ==
  \/ ControllerStep
  \/ CacheSync /\ UNCHANGED serviceVars
  \/ Crash \/ UserStep \/ RotateSecret \/ AdminStep

Spec == Init /\ [][Next]_vars

\* As for the other kinds: the work queue hands the CR out again, the informer
\* catches up and the creation grace period ends.
Fairness ==
  /\ WF_vars(ControllerStep)
  /\ WF_vars(CacheSync /\ UNCHANGED serviceVars)
  /\ SF_vars((RemoveFinalizer \/ MarkPending) /\ UNCHANGED serviceVars)

FairSpec == Spec /\ Fairness

-----------------------------------------------------------------------------
(* Properties *)

Digests == {Hash(v) : v \in Values \cup {Empty}}

Object == Objects(Nat \cup {MetaName}, Digests, Nat, ServiceEndpointParameters)

Endpoint ==
  [there : BOOLEAN, name : EndpointNames, scheme : {"secret", "open"}, value : Values \cup {Empty},
   ready : BOOLEAN, owner : {"us", "named"}, heard : BOOLEAN]

TypeOK ==
  /\ RuntimeTypeOK(Object, {"add", "update"})
  /\ kind \in Kinds
  /\ endpoints \in Seq(Endpoint)
  /\ secret \in Values \cup {Empty, None} /\ payload \in Values \cup {Empty, None}

Held == {i \in UUIDs : Kept(i)}

Lifecycle == INSTANCE ExternalLifecycle
  WITH cr <- Stage, held <- Held, leaving <- {}

\* The promise of ExternalLifecycle for the endpoints whose creation the
\* controller heard of: though Secrets vanish, digests fail and creations are
\* repeated, it makes no second one and does not release a CR whose endpoint
\* lives on (Observe, Create).
KeepsLifecycle == Lifecycle!LifecycleSpec

\* What the controller of this kind would find out about the Secret.
SecretUpToDate(object) ==
  CASE kind = "generic" -> PasswordUpToDate(object)
    [] kind = "github" -> TokenUpToDate(object)
    [] kind = "azurerm" -> ClientSecretUpToDate(object)
    [] kind = "kubernetes" -> AuthSecretUpToDate(object)
    [] kind = "dockerregistry" -> ConfigUpToDate(object)

\* After a creation with credentials that was heard of, the annotation is of those
\* that were sent, also when the Secret is rotated while the request is on its way,
\* so that the next Observe does not take the rotation for applied.
DigestOfSent ==
  LET i == mem.status
  IN pc = "created" /\ i # None /\ endpoints[i].there /\ endpoints[i].value # Empty =>
       Matches(endpoints[i].value, mem.ann)

\* Why the three hold: nothing is on its way but what a Secret gave, and a
\* creation whose outcome is known has its UUID on the CR.
Sent == pc \in {"add", "update"} => payload # None

Numbered == pc = "created" => mem.status \in UUIDs \cup {None}

IInv == TypeOK /\ Attached(Held) /\ Sent /\ Numbered /\ DigestOfSent

Valid(p) ==
  CASE kind = "generic" -> ValidGeneric(p)
    [] kind = "github" -> ValidGitHub(p)
    [] kind = "azurerm" -> ValidAzureRM(p)
    [] kind = "kubernetes" -> ValidKubernetes(p)
    [] kind = "dockerregistry" -> ValidDockerRegistry(p)

\* When the user asks for deletion, the CR is eventually gone -- unless a crash
\* left its creation pending, its external-name is not a UUID, its spec is invalid
\* or, for every kind but Kubernetes, the Secret it refers to is missing: what the
\* test of that kind asks for (serviceendpointkubernetes_test.go).
DeletionCompletes ==
  api.del ~> \/ ~api.exists \/ api.create = "pending"
             \/ ~IsUUID(api.name) \/ ~Valid(api.spec)
             \/ kind # "kubernetes" /\ Resolve(api.spec) = None

\* Nothing the controller cannot help stands in the way of the spec.
Possible ==
  /\ api.exists /\ ~api.del /\ api.create # "pending"
  /\ IsUUID(api.name) /\ Valid(api.spec)
  /\ kind = "kubernetes" => BuildsKubernetes(api.spec)
  /\ Resolve(api.spec) # None
  /\ Taken(api.spec.name) \subseteq {api.name}

\* Once nobody interferes any more, the endpoint of a CR that is kept ends up and
\* stays with the name and scheme of the spec and with the Secret's value, unless
\* the digest of its creation happens to agree with that.
Converges ==
  <>[](Possible =>
    /\ Get(api.name)
    /\ endpoints[api.name].name = api.spec.name
    /\ endpoints[api.name].scheme = api.spec.scheme
    /\ endpoints[api.name].value = Resolve(api.spec) \/ SecretUpToDate(api)
    /\ kind = "dockerregistry" => endpoints[api.name].ready)
=============================================================================
