------------------------------ MODULE NetGrants ------------------------------
(***************************************************************************)
(* What a network grant allows and which credentials it attaches: the      *)
(* allowlist (src/internet/policy.go) that each of the three drivers makes *)
(* of its manifest, and what each refuses to configure: core.internet and  *)
(* its injections (src/internet/registration.go), core.httpTemplate's      *)
(* operations (src/httptemplate/registration.go) and core.openaiApi's      *)
(* endpoint (src/openaillm/settings.go, client.go).                        *)
(*                                                                         *)
(* A manifest is [driver, capabilities, private, insecure, keyless]: its   *)
(* capabilities, and whether it has allow_private_network,                 *)
(* allow_insecure_http and api_key_optional.  A capability is              *)
(* [methods, domain, inject], where inject maps header names, as the       *)
(* manifest spells them, to the secret that each carries; the provider's   *)
(* only capability is its endpoint, with the key as Authorization.         *)
(***************************************************************************)
EXTENDS FiniteSets

CONSTANTS
    Loopback,    \* the loopback hosts that LoopbackHost knows
    Bracketed,   \* loopback literals that it misses: an IPv6 one without a port
    AnyMethod,   \* the rule method that matches any
    Names,       \* canonical header names
    Spellings,   \* header names as guests and manifests spell them
    Canonical,   \* http.CanonicalHeaderKey: [Spellings -> Names]
    Unsettable,  \* the names that the transport controls
    Secrets      \* the secrets that the resolver holds

ASSUME NetGrantsAssumption ==
    /\ Loopback \cap Bracketed = {}
    /\ Canonical \in [Spellings -> Names]

Drivers == {"internet", "template", "provider"}

----------------------------------------------------------------------------
\* A domain is [any, scheme, host, bare]: "*", or an origin with its scheme, or
\* none for a bare host, and whether there is nothing else to it.

\* NewRule: what it refuses, and the rule.
RuleRefuses(domain) ==
    ~domain.any /\ (domain.scheme \notin {"", "http", "https"} \/ ~domain.bare)

NewRule(method, domain) ==
    [method |-> method,
     scheme |-> IF domain.scheme = "" THEN "https" ELSE domain.scheme,
     host |-> domain.host,
     anyHost |-> domain.any]

\* A url is [scheme, host, user].
OriginOf(u) == <<u.scheme, u.host>>

\* The URL of a capability's own origin.
OriginUrl(c) ==
    [scheme |-> NewRule(AnyMethod, c.domain).scheme, host |-> c.domain.host, user |-> FALSE]

\* The allowlist: each method of a capability at its domain.
Policy(m) == UNION {{NewRule(method, c.domain) : method \in c.methods} : c \in m.capabilities}

\* Policy.Check
Allowed(m, method, u) ==
    /\ u.scheme \in {"http", "https"}
    /\ ~u.user
    /\ \E r \in Policy(m) :
        /\ r.method \in {AnyMethod, method}
        /\ r.anyHost \/ (r.scheme = u.scheme /\ r.host = u.host)

\* Plain HTTP with a wire to it.
InTheClear(u) == u.scheme # "https" /\ u.host \notin Loopback

----------------------------------------------------------------------------
\* Credentials.

\* The headers a capability attaches, and the labels that name their secrets.
HostHeaders(c) == {Canonical[name] : name \in DOMAIN c.inject}
CredentialLabels(c) == {c.inject[name] : name \in DOMAIN c.inject}

\* ValidateInjection
InjectionRefuses(c) ==
    \/ c.domain.any
    \/ NewRule(AnyMethod, c.domain).scheme = "http" /\ c.domain.host \notin Loopback
    \/ HostHeaders(c) \cap Unsettable # {}

\* ResolveInjectedHeaders, Secret.Resolve
SecretMissing(c) == ~(CredentialLabels(c) \subseteq Secrets)

----------------------------------------------------------------------------
\* What the drivers refuse to configure.

\* parseInternetConfig, for one permission; its methods are enumerated.
PermissionRefuses(c) ==
    \/ c.methods = {} \/ AnyMethod \in c.methods
    \/ RuleRefuses(c.domain)
    \/ DOMAIN c.inject # {} /\ InjectionRefuses(c)

\* parseTemplateConfig, for one operation: it has one method and its own origin,
\* over TLS or at loopback, whether it has a credential or not.
OperationRefuses(c) ==
    \/ AnyMethod \in c.methods
    \/ RuleRefuses(c.domain) \/ c.domain.any
    \/ NewRule(AnyMethod, c.domain).scheme = "http" /\ c.domain.host \notin Loopback
    \/ DOMAIN c.inject # {} /\ InjectionRefuses(c)

\* validateBaseURL, which knows the loopback hosts in a way of its own, and
\* newProvider's test of the key.
EndpointRefuses(m, c) ==
    \/ DOMAIN c.inject = {} /\ ~m.keyless
    \/ c.domain.any \/ ~c.domain.bare
    \/ c.domain.scheme \notin {"http", "https"}
    \/ c.domain.scheme = "http" /\ ~(m.insecure /\ c.domain.host \in Loopback \cup Bracketed)

Refuses(m) ==
    \/ m.capabilities = {}
    \/ \E c \in m.capabilities :
        \/ m.driver = "internet" /\ PermissionRefuses(c)
        \/ m.driver = "template" /\ OperationRefuses(c)
        \/ m.driver = "provider" /\ EndpointRefuses(m, c)
        \/ SecretMissing(c)

\* allow_private_network; the provider reaches a private address only when its
\* endpoint is a loopback one.
AllowsPrivate(m) ==
    IF m.driver = "provider" THEN \E c \in m.capabilities : c.domain.host \in Loopback
    ELSE m.private
=============================================================================
