------------------------------ MODULE HttpClient ------------------------------
(***************************************************************************)
(* One request of a network driver, from the driver to the end of its      *)
(* redirects: the driver attaches the grant's credentials (core.internet   *)
(* to a guest's request, src/internet/handler.go; core.httpTemplate to an  *)
(* operation's, src/httptemplate/httptemplate.go; core.openaiApi to each   *)
(* of its provider's, src/openaillm/client.go), the client checks the      *)
(* allowlist (policy.go), sends the request and follows redirects under    *)
(* its CheckRedirect and dial guard (src/internet/client.go).  What the    *)
(* grant allows and holds is NetGrants'.  Go's net/http and the servers    *)
(* are external: a server may answer a redirect to any URL, a name may     *)
(* resolve to any address, and net/http builds every redirected request    *)
(* from the first one's headers.                                           *)
(***************************************************************************)
EXTENDS Naturals, NetGrants

CONSTANTS
    Manifests,     \* the manifests in play
    Urls,          \* the URLs in play: [scheme, host, user]
    Methods,       \* the methods guests and servers use; GET is one
    GuestNames,    \* the spellings that guests use
    MaxRedirects   \* DefaultMaxRedirects

Configured == {m \in Manifests : ~Refuses(m)}

ASSUME HttpAssumption ==
    /\ "GET" \in Methods
    /\ GuestNames \subseteq Spellings
    /\ MaxRedirects \in Nat \ {0}
    /\ \A m \in Configured :
        /\ m.driver \in Drivers
        /\ m.driver = "provider" => \A c, d \in m.capabilities : c = d
    /\ \A m \in Configured : \A c \in m.capabilities :
        /\ c.methods \subseteq Methods \cup {AnyMethod}
        /\ DOMAIN c.inject \subseteq Spellings
        /\ c.domain.any \/ OriginUrl(c) \in Urls

VARIABLES
    manifest, \* the manifest that the driver was configured with
    phase,    \* where the call is
    request,  \* the driver's request: [method, url, names]
    applied,  \* the capabilities whose credentials it carries
    base,     \* the headers of the first request
    hop,      \* the request about to be sent
    via,      \* how many requests were made, counted to MaxRedirects + 1
    sent,     \* history: the requests that went out
    reply     \* the result

vars == <<manifest, phase, request, applied, base, hop, via, sent, reply>>

Values == {"none", "guest", "host"}
Headers == [Names -> Values]
Requests == [method : Methods, url : Urls, names : SUBSET GuestNames]
Hops == [method : Methods, url : Urls, headers : Headers]
Addresses == {"public", "private"}
NoReply == [status |-> "none", labels |-> {}]
NoHeaders == [n \in Names |-> "none"]

----------------------------------------------------------------------------
\* The requests a driver makes: core.internet's are the guest's, to any URL and
\* with any headers, under a method the grant names; an operation of a template
\* and the provider's endpoint have their own.

OwnMethods(c) == IF AnyMethod \in c.methods THEN Methods ELSE c.methods

RequestsOf(m) ==
    IF m.driver = "internet"
    THEN [method : UNION {c.methods : c \in m.capabilities}, url : Urls, names : SUBSET GuestNames]
    ELSE UNION {[method : OwnMethods(c), url : {OriginUrl(c)}, names : {{}}] : c \in m.capabilities}

Init ==
    /\ manifest \in Configured
    /\ phase = "inject"
    /\ request \in RequestsOf(manifest)
    /\ applied = {}
    /\ base = NoHeaders
    /\ hop = [method |-> request.method, url |-> request.url, headers |-> NoHeaders]
    /\ via = 0
    /\ sent = {}
    /\ reply = NoReply

\* The injections that apply to the guest's request.
Applying ==
    {c \in manifest.capabilities :
        DOMAIN c.inject # {} /\ c.domain.host = request.url.host /\ request.method \in c.methods}

\* The names that are bound to the request's origin: the provider binds none.
Bound ==
    IF manifest.driver = "provider" THEN {} ELSE UNION {HostHeaders(c) : c \in applied}

\* What the result names: core.internet stamps the labels of the injections that
\* applied; the monitor (external) stamps those of a template's operation, as
\* its entry has them; a provider's key is not named.
Stamped ==
    IF manifest.driver = "provider" THEN {} ELSE UNION {CredentialLabels(c) : c \in applied}

Finish(status, ls) ==
    /\ phase' = "done"
    /\ reply' = [status |-> status, labels |-> ls]

RefuseInTheClear ==
    /\ phase = "inject" /\ manifest.driver = "internet"
    /\ Applying # {} /\ InTheClear(request.url)
    /\ Finish("denied", {})
    /\ UNCHANGED <<manifest, request, applied, base, hop, via, sent>>

\* Variant of HeaderValues: a guest's spelling of an injected name survives,
\* and net/http applies the two in any order.
AliasSurvives(n, names, injected) ==
    IF n \in injected
    THEN {"host"} \cup {"guest" : g \in {x \in names : x # n /\ Canonical[x] = n}}
    ELSE IF \E g \in names : Canonical[g] = n THEN {"guest"} ELSE {"none"}

\* Host wins over any guest header of the same name, whatever its casing.
HeaderValues(n, names, injected) ==
    IF n \in injected THEN {"host"}
    ELSE IF \E g \in names : Canonical[g] = n THEN {"guest"} ELSE {"none"}

\* Handler.inject
Inject ==
    /\ phase = "inject" /\ manifest.driver = "internet"
    /\ Applying = {} \/ ~InTheClear(request.url)
    /\ applied' = Applying
    /\ LET injected == UNION {HostHeaders(c) : c \in Applying} IN
        base' \in {h \in Headers : \A n \in Names : h[n] \in HeaderValues(n, request.names, injected)}
    /\ phase' = "check"
    /\ UNCHANGED <<manifest, request, hop, via, sent, reply>>

\* The headers of a template's operation (render) and of the provider
\* (newProvider) are the host's alone.
Attach(c) ==
    /\ phase = "inject" /\ manifest.driver # "internet"
    /\ request.url = OriginUrl(c) /\ request.method \in OwnMethods(c)
    /\ applied' = {c}
    /\ base' = [n \in Names |-> IF n \in HostHeaders(c) THEN "host" ELSE "none"]
    /\ phase' = "check"
    /\ UNCHANGED <<manifest, request, hop, via, sent, reply>>

\* Variant of FailureLabels: a failed attempt names no credential.
NoFailureLabels == {}

\* "A failed attempt carries it too."
FailureLabels == Stamped

\* Client.Do gives up: the policy refuses, or the body is over its bound.
DoRefuses ==
    /\ phase = "check"
    /\ Finish("transient", FailureLabels)
    /\ UNCHANGED <<manifest, request, applied, base, hop, via, sent>>

DoChecks ==
    /\ phase = "check"
    /\ Allowed(manifest, request.method, request.url)
    /\ hop' = [method |-> request.method, url |-> request.url, headers |-> base]
    /\ phase' = "send"
    /\ UNCHANGED <<manifest, request, applied, base, via, sent, reply>>

\* The name resolves to addr, which a loopback literal does as itself, the dial
\* guard lets it pass, and the request goes out.
Send(addr) ==
    /\ phase = "send"
    /\ hop.url.host \in Bracketed => addr = "private"
    /\ AllowsPrivate(manifest) \/ addr = "public"
    /\ sent' = sent \cup {[hop |-> hop, addr |-> addr]}
    /\ via' = IF via > MaxRedirects THEN via ELSE via + 1
    /\ phase' = "answer"
    /\ UNCHANGED <<manifest, request, applied, base, hop, reply>>

\* The dial is blocked, or the exchange fails or times out on the way.
Fails ==
    /\ phase \in {"send", "answer"}
    /\ Finish("transient", FailureLabels)
    /\ UNCHANGED <<manifest, request, applied, base, hop, via, sent>>

\* The caller's context is done: no result.
CallerLeaves ==
    /\ phase \in {"check", "send", "answer"}
    /\ Finish("caller", {})
    /\ UNCHANGED <<manifest, request, applied, base, hop, via, sent>>

Answered ==
    /\ phase = "answer"
    /\ Finish("ok", Stamped)
    /\ UNCHANGED <<manifest, request, applied, base, hop, via, sent>>

----------------------------------------------------------------------------
\* Redirects.  net/http rewrites the method of a 301, 302 or 303 to GET unless
\* it is GET or HEAD, and copies the first request's headers afresh; it may
\* withhold some of them (Authorization) from other hosts, or from then on.

Redirected(method, rewrites) == IF rewrites /\ method # "HEAD" THEN "GET" ELSE method

\* Variants of CapReached: only hops away from the request's origin are held to
\* the ceiling; one hop too many.
CappedAway == via >= MaxRedirects /\ OriginOf(hop.url) # OriginOf(request.url)
CappedLate == via > MaxRedirects

CapReached == via >= MaxRedirects

\* Variant of LeavesOrigin: the scheme is not part of the origin.
LeavesHost(u) == u.host # request.url.host

LeavesOrigin(u) == OriginOf(u) # OriginOf(request.url)

\* CheckRedirect drops every injected header once a hop leaves the origin.
Carried(u) ==
    {h \in Headers : \A n \in Names :
        h[n] \in IF n \in Bound /\ LeavesOrigin(u) THEN {"none"} ELSE {"none", base[n]}}

\* Variant of RedirectAllowed: only the first request meets the policy.
FirstHopOnly(method, u) == TRUE

RedirectAllowed(method, u) == Allowed(manifest, method, u)

\* Variant of RedirectStatus: a redirect that is refused reads as a call that is.
RedirectDenied == "denied"

\* An error of CheckRedirect is one of Do, which has sent a request.
RedirectStatus == "transient"

Redirect(u, rewrites) ==
    LET m == Redirected(hop.method, rewrites) IN
    /\ phase = "answer"
    /\ IF CapReached \/ ~RedirectAllowed(m, u)
       THEN Finish(RedirectStatus, FailureLabels) /\ UNCHANGED hop
       ELSE /\ \E h \in Carried(u) : hop' = [method |-> m, url |-> u, headers |-> h]
            /\ phase' = "send"
            /\ UNCHANGED reply
    /\ UNCHANGED <<manifest, request, applied, base, via, sent>>

Next ==
    \/ RefuseInTheClear
    \/ Inject
    \/ \E c \in manifest.capabilities : Attach(c)
    \/ DoRefuses
    \/ DoChecks
    \/ \E addr \in Addresses : Send(addr)
    \/ Fails
    \/ CallerLeaves
    \/ Answered
    \/ \E u \in Urls, rewrites \in BOOLEAN : Redirect(u, rewrites)

Spec == Init /\ [][Next]_vars

\* The client is never stuck: an exchange that hangs times out.
FairSpec == Spec /\ WF_vars(Next)

----------------------------------------------------------------------------
\* Correctness.

\* Every variable has its type, and no more requests are made than the
\* redirect cap allows.
TypeOK ==
    /\ manifest \in Configured
    /\ phase \in {"inject", "check", "send", "answer", "done"}
    /\ request \in Requests
    /\ applied \subseteq manifest.capabilities
    /\ base \in Headers
    /\ hop \in Hops
    /\ via \in 0..MaxRedirects
    /\ sent \subseteq [hop : Hops, addr : Addresses]
    /\ reply \in [status : {"none", "ok", "denied", "transient", "caller"},
                  labels : SUBSET Secrets]

\* Every request that goes out, redirects included, is allowlisted for its
\* own method and URL, and reached a public address unless the grant opts in
\* (Policy.Check at every hop, the dial guard after resolution).
EveryHopIsAllowed ==
    \A s \in sent :
        /\ Allowed(manifest, s.hop.method, s.hop.url)
        /\ AllowsPrivate(manifest) \/ s.addr = "public"

\* "A credential cannot be sent in the clear or to an unintended host"
\* (handler.go): a host-held header is only ever sent to the host of a capability
\* that holds it and applies to this request, over TLS or to loopback, along any
\* chain of redirects and from any driver.
CredentialNeverStrays ==
    \A s \in sent, n \in Names :
        s.hop.headers[n] = "host" =>
            /\ \E c \in applied : c.domain.host = s.hop.url.host /\ n \in HostHeaders(c)
            /\ ~InTheClear(s.hop.url)

\* At the origin a credential is bound to, the guest's header of that name
\* never goes out in its place, on the first request or after a redirect back.
HostHeaderWins ==
    \A s \in sent, n \in Bound :
        OriginOf(s.hop.url) = OriginOf(request.url) => s.hop.headers[n] # "guest"

\* A result of core.internet or core.httpTemplate that a credential had a part
\* in says so: every label of every injection that applied is on it, whether the
\* call succeeded or failed after the credential went out.
UsedCredentialIsNamed ==
    reply.status \in {"ok", "transient"} /\ manifest.driver # "provider"
            /\ (\E s \in sent, n \in Names : s.hop.headers[n] = "host")
        => /\ manifest.driver = "internet" => applied = Applying
           /\ \A c \in applied : CredentialLabels(c) \subseteq reply.labels

\* What the caller of DispatchCall sees, who is found to have left as it returns.
Answer ==
    CASE reply.status = "ok" -> "result"
      [] reply.status = "denied" -> "refused"
      [] reply.status = "caller" -> "nothing"
      [] OTHER -> reply.status

Promised ==
    INSTANCE DriverCall WITH
        begun <- sent # {}, left <- reply.status = "caller", answer <- Answer

\* A network driver keeps what every driver promises of a call (handler.go's
\* errors): it is denied only when nothing was sent, and what the policy refuses
\* of a redirect, once a request is out, is a failure on the way.
ImplementsDriverCall == Promised!Spec

\* The call ends, even against servers that always redirect.
CallEnds == <>(phase = "done")

\* "A method the injection does not list must not receive the credential, even
\* on the bound host" (inject_test.go; CredentialInjection's comment in
\* handler.go says the same of requests whose method and host it matches).
CredentialOnlyOnItsMethods ==
    \A s \in sent, n \in Names :
        s.hop.headers[n] = "host" =>
            \E c \in manifest.capabilities :
                /\ c.domain.host = s.hop.url.host /\ n \in HostHeaders(c)
                /\ s.hop.method \in OwnMethods(c)
=============================================================================
