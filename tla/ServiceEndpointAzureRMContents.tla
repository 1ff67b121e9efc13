-------------------- MODULE ServiceEndpointAzureRMContents --------------------
(***************************************************************************)
(* What a ServiceEndpointAzureRM's parameters make of an endpoint, and     *)
(* when an endpoint counts as up to date with them                         *)
(* (internal/controller/serviceendpointazurerm).  The subscription's id    *)
(* and name are one text here.  The project is no part of it: it says      *)
(* where the endpoint is, and is compared nowhere.                         *)
(***************************************************************************)
EXTENDS Spellings

AuthorizationSchemes == {"ServicePrincipal", "WorkloadIdentityFederation"}

\* Azure DevOps does not always write them the same.
Fold(scheme) == IF scheme = "serviceprincipal" THEN "ServicePrincipal" ELSE scheme

\* By field, the values it may have in a CR.  schemes are the credentials
\* that are given; key is the content of the Secret they refer to.
Parameters == [
  name |-> Texts, subscription |-> Texts, tenant |-> Texts, resourceGroup |-> Texts \cup {Empty},
  schemes |-> SUBSET AuthorizationSchemes, client |-> Texts, key |-> Texts]

\* By field, what an administrator may make of it.  An endpoint made otherwise
\* than by hand for a subscription, or for another cloud, is of another make.
Fields == [
  name |-> Texts, subscription |-> Texts, tenant |-> Texts, resourceGroup |-> Texts \cup {Empty},
  scheme |-> AuthorizationSchemes, client |-> Texts, key |-> Texts, make |-> {"manual", "other"}]

\* Where Azure DevOps shows the client and the tenant.
Places == {"parameters", "data"}

\* By field, what it may hold, made by the controller or by an administrator.
Endpoint == [
  name |-> Texts, subscription |-> Texts, tenant |-> Texts, resourceGroup |-> Texts \cup {Empty},
  scheme |-> AuthorizationSchemes \cup {"serviceprincipal"}, client |-> Texts, key |-> Texts \cup {Empty},
  make |-> {"manual", "other"}, shown |-> (SUBSET Places) \ {{}}]

Accepted(p) == \E s \in AuthorizationSchemes : p.schemes = {s}

Scheme(p) == CHOOSE s \in AuthorizationSchemes : p.schemes = {s}

\* The endpoint sent to Azure DevOps, which the current one has no part in.
Desired(p) ==
  [name |-> p.name,
   subscription |-> p.subscription,
   tenant |-> p.tenant,
   resourceGroup |-> p.resourceGroup,
   scheme |-> Scheme(p),
   client |-> p.client,
   key |-> IF Scheme(p) = "ServicePrincipal" THEN p.key ELSE Empty,
   make |-> "manual",
   shown |-> Places]

\* How Azure DevOps may write it down, and where it shows the client and tenant.
Answer(sent, scheme, places) == [sent EXCEPT !.scheme = scheme, !.shown = places]

Answers(sent) ==
  {Answer(sent, s, places) :
     s \in {t \in AuthorizationSchemes \cup {"serviceprincipal"} : Fold(t) = sent.scheme},
     places \in (SUBSET Places) \ {{}}}

\* Seeded fault: the client and the tenant are looked for in one place.
FirstNonEmpty_Parameters(endpoint, field) ==
  IF "parameters" \in endpoint.shown THEN endpoint[field] ELSE Empty

\* The client or tenant among the authorization's parameters, or else the data.
FirstNonEmpty(endpoint, field) == IF endpoint.shown # {} THEN endpoint[field] ELSE Empty

\* Seeded fault: data is compared for the keys the spec has only.
ComparableData_Given(p, endpoint) ==
  /\ endpoint.subscription = p.subscription /\ endpoint.make = "manual"
  /\ p.resourceGroup # Empty => endpoint.resourceGroup = p.resourceGroup

ComparableData(p, endpoint) ==
  /\ endpoint.subscription = p.subscription /\ endpoint.make = "manual"
  /\ p.resourceGroup # Empty => endpoint.resourceGroup = p.resourceGroup
  /\ p.resourceGroup = Empty => endpoint.resourceGroup = Empty

IsUpToDate(p, endpoint) ==
  /\ endpoint.name = p.name
  /\ Accepted(p) /\ Fold(endpoint.scheme) = Scheme(p)
  /\ ComparableData(p, endpoint)
  /\ FirstNonEmpty(endpoint, "client") = p.client
  /\ FirstNonEmpty(endpoint, "tenant") = p.tenant

-----------------------------------------------------------------------------
(* What the two stand for, but for the key, which is not to be seen *)

Asked(p) ==
  [name |-> p.name, for |-> <<p.subscription, p.tenant, p.resourceGroup>>,
   as |-> <<p.schemes, p.client>>, make |-> "manual"]

Meaning(endpoint) ==
  [name |-> endpoint.name, for |-> <<endpoint.subscription, endpoint.tenant, endpoint.resourceGroup>>,
   as |-> <<{Fold(endpoint.scheme)}, endpoint.client>>, make |-> endpoint.make]
================================================================================
