-------------------------- MODULE HttpClientProofs --------------------------
(***************************************************************************)
(* Proofs about HttpClient, for every set of manifests, URLs, methods and  *)
(* header names: which requests go out, and with whose headers, along any  *)
(* chain of redirects.                                                     *)
(***************************************************************************)
EXTENDS HttpClient, TLAPS

----------------------------------------------------------------------------
\* The inductive invariant.

\* A credential may ride to u: the host it is held for, not in the clear, or one
\* that the dial guard keeps the client from.
MayCarry(u) ==
    /\ u.host = request.url.host
    /\ ~InTheClear(u) \/ (u.host \in Bracketed /\ ~AllowsPrivate(manifest))

\* Requests are counted before they are answered.
Counted ==
    /\ phase \in {"inject", "check"} => via = 0 /\ sent = {}
    /\ phase = "send" => via < MaxRedirects

\* What the driver attached to the first request.
Attached ==
    /\ phase = "inject" => applied = {} /\ base = NoHeaders
    /\ applied # {} => MayCarry(request.url)
    /\ manifest.driver # "internet" => \A c \in applied : request.url = OriginUrl(c)
    /\ \A c \in applied : c.domain.host = request.url.host
    /\ \A n \in Names : base[n] = "host" => \E c \in applied : n \in HostHeaders(c)
    /\ \A n \in Bound : base[n] # "guest"

\* The request about to be sent, or under way.
HopIsSound ==
    phase \in {"send", "answer"} =>
        /\ Allowed(manifest, hop.method, hop.url)
        /\ \A n \in Names : hop.headers[n] \in {"none", base[n]}
        /\ \A n \in Names : hop.headers[n] = "host" => MayCarry(hop.url)

\* No request went out with the guest's header in a credential's place.
NoGuestHeader == \A s \in sent, n \in Bound : s.hop.headers[n] # "guest"

\* There is no result before the call is done.
Replied == phase # "done" => reply = NoReply

\* What the result names.
Named ==
    /\ Replied
    /\ reply.status \in {"ok", "transient"} => reply.labels = Stamped
    /\ manifest.driver = "internet" /\ phase # "inject" /\ reply.status # "denied"
           => applied = Applying

IInv ==
    /\ TypeOK
    /\ Counted
    /\ Attached
    /\ HopIsSound
    /\ EveryHopIsAllowed
    /\ CredentialNeverStrays
    /\ NoGuestHeader
    /\ Named

----------------------------------------------------------------------------
\* What configuration guarantees.

\* Every request a configured driver can make is of the call's types.
LEMMA RequestsAreTyped ==
    ASSUME NEW m \in Configured
    PROVE  RequestsOf(m) \subseteq Requests
<1>1. CASE m.driver = "internet"
  <2>1. \A c \in m.capabilities : c.methods \subseteq Methods
    BY <1>1, HttpAssumption DEF Configured, Refuses, PermissionRefuses
  <2> QED BY <1>1, <2>1 DEF RequestsOf, Requests
<1>2. CASE m.driver # "internet"
  <2>1. m.driver \in {"template", "provider"}
    BY <1>2, HttpAssumption DEF Drivers
  <2>2. \A c \in m.capabilities : OriginUrl(c) \in Urls
    BY <2>1, HttpAssumption DEF Configured, Refuses, OperationRefuses, EndpointRefuses
  <2>3. \A c \in m.capabilities : OwnMethods(c) \subseteq Methods
    BY HttpAssumption DEF OwnMethods
  <2> QED BY <1>2, <2>2, <2>3 DEF RequestsOf, Requests
<1> QED BY <1>1, <1>2

\* A capability's headers and labels are header names and secrets.
LEMMA CapabilitiesAreTyped ==
    ASSUME NEW m \in Configured, NEW c \in m.capabilities
    PROVE  HostHeaders(c) \subseteq Names /\ CredentialLabels(c) \subseteq Secrets
<1>1. HostHeaders(c) \subseteq Names
  BY HttpAssumption, NetGrantsAssumption DEF HostHeaders
<1>2. CredentialLabels(c) \subseteq Secrets
  BY DEF Configured, Refuses, SecretMissing
<1> QED BY <1>1, <1>2

\* The origin of a template's operation, and of a provider, is no place where a
\* credential could be read.
LEMMA OwnOriginIsSafe ==
    ASSUME NEW m \in Configured, NEW c \in m.capabilities, m.driver # "internet"
    PROVE  \/ ~InTheClear(OriginUrl(c))
           \/ c.domain.host \in Bracketed /\ ~AllowsPrivate(m)
<1>1. m.driver \in {"template", "provider"}
  BY HttpAssumption DEF Drivers
<1>2. CASE m.driver = "template"
  BY <1>2 DEF Configured, Refuses, OperationRefuses, RuleRefuses, NewRule, OriginUrl, InTheClear
<1>3. CASE m.driver = "provider"
  <2>1. \A d \in m.capabilities : d = c
    BY <1>3, HttpAssumption
  <2>2. c.domain.scheme = "https" \/ c.domain.host \in Loopback \cup Bracketed
    BY <1>3 DEF Configured, Refuses, EndpointRefuses
  <2>3. ~EndpointRefuses(m, c)
    BY <1>3 DEF Configured, Refuses
  <2>4. c.domain.scheme \in {"http", "https"}
    BY <2>3 DEF EndpointRefuses
  <2>5. OriginUrl(c).scheme = c.domain.scheme /\ OriginUrl(c).host = c.domain.host
    BY <2>4 DEF OriginUrl, NewRule
  <2>6. AllowsPrivate(m) => c.domain.host \in Loopback
    BY <1>3, <2>1 DEF AllowsPrivate
  <2> QED BY <2>2, <2>5, <2>6, NetGrantsAssumption DEF InTheClear
<1> QED BY <1>1, <1>2, <1>3

\* The provider's allowlist is its own origin.
LEMMA ProviderStaysHome ==
    ASSUME NEW m \in Configured, NEW c \in m.capabilities, m.driver = "provider",
           NEW method, NEW u, Allowed(m, method, u)
    PROVE  OriginOf(u) = OriginOf(OriginUrl(c))
<1>1. \A d \in m.capabilities : d = c
  BY HttpAssumption
<1>2. ~EndpointRefuses(m, c)
  BY DEF Configured, Refuses
<1>3. ~c.domain.any
  BY <1>2 DEF EndpointRefuses
<1>4. PICK r \in Policy(m) : r.anyHost \/ (r.scheme = u.scheme /\ r.host = u.host)
  BY DEF Allowed
<1>5. PICK x : r = NewRule(x, c.domain)
  BY <1>1, <1>4 DEF Policy
<1>6. r.scheme = OriginUrl(c).scheme /\ r.host = OriginUrl(c).host /\ ~r.anyHost
  BY <1>3, <1>5 DEF NewRule, OriginUrl
<1> QED BY <1>4, <1>6 DEF OriginOf

----------------------------------------------------------------------------
\* The invariant is inductive.

\* Every initial state satisfies the invariant.
LEMMA InitInvariant == Init => IInv
<1> SUFFICES ASSUME Init PROVE IInv
  OBVIOUS
<1>1. request \in Requests
  BY RequestsAreTyped DEF Init
<1>2. NoHeaders \in Headers
  BY DEF NoHeaders, Headers, Values
<1>3. TypeOK
  BY <1>1, <1>2, HttpAssumption DEF Init, TypeOK, Hops, Requests, NoReply
<1>4. Attached
  BY DEF Init, Attached, Bound, NoHeaders
<1>5. Counted /\ HopIsSound /\ NoGuestHeader /\ EveryHopIsAllowed /\ CredentialNeverStrays
  BY DEF Init, Counted, HopIsSound, NoGuestHeader, EveryHopIsAllowed, CredentialNeverStrays
<1>6. Named
  BY DEF Init, Named, Replied, NoReply
<1> QED BY <1>3, <1>4, <1>5, <1>6 DEF IInv

\* The labels and the bound names are of their types.
LEMMA AppliedIsTyped ==
    ASSUME TypeOK
    PROVE  Bound \subseteq Names /\ Stamped \subseteq Secrets
BY CapabilitiesAreTyped DEF TypeOK, Bound, Stamped

\* A call that ends without sending anything more leaves the invariant as it is.
LEMMA FinishKeepsInvariant ==
    ASSUME IInv, NEW status \in {"ok", "denied", "transient", "caller"}, NEW ls \in SUBSET Secrets,
           phase # "done", Finish(status, ls),
           status \in {"ok", "transient"} => ls = Stamped,
           phase = "inject" => status = "denied",
           UNCHANGED <<manifest, request, applied, base, hop, via, sent>>
    PROVE  IInv'
<1> USE DEF IInv
<1>1. TypeOK'
  BY DEF TypeOK, Finish
<1>2. Counted' /\ HopIsSound'
  BY DEF Counted, HopIsSound, Finish
<1>3. Attached'
  BY DEF Attached, Finish, Bound, MayCarry
<1>4. EveryHopIsAllowed' /\ CredentialNeverStrays' /\ NoGuestHeader'
  BY DEF EveryHopIsAllowed, CredentialNeverStrays, NoGuestHeader, Bound
<1>5. Named'
  BY DEF Named, Replied, NoReply, Finish, Stamped, Applying
<1> QED BY <1>1, <1>2, <1>3, <1>4, <1>5

\* Resolving the host's headers keeps the invariant.
LEMMA InjectKeepsInvariant == IInv /\ Inject => IInv'
<1> SUFFICES ASSUME IInv, Inject PROVE IInv'
  OBVIOUS
<1> USE DEF IInv
<1>1. applied' = Applying /\ Applying \subseteq manifest.capabilities
  BY DEF Inject, Applying
<1>2. \A n \in Names : base'[n] \in HeaderValues(n, request.names, UNION {HostHeaders(c) : c \in Applying})
  BY DEF Inject
<1>3. Bound' = UNION {HostHeaders(c) : c \in Applying}
  BY <1>1 DEF Inject, Bound
<1>4. TypeOK'
  BY <1>1 DEF TypeOK, Inject
<1>5. Attached'
  <2>1. applied' # {} => MayCarry(request.url)'
    BY <1>1 DEF Inject, MayCarry, InTheClear
  <2>2. \A c \in applied' : c.domain.host = request'.url.host
    BY <1>1 DEF Inject, Applying
  <2>3. \A n \in Names : base'[n] = "host" => \E c \in applied' : n \in HostHeaders(c)
    BY <1>1, <1>2 DEF HeaderValues
  <2>4. \A n \in Bound' : base'[n] # "guest"
    <3>1. Bound' \subseteq Names
      BY <1>1, <1>3, CapabilitiesAreTyped DEF TypeOK
    <3> QED BY <1>2, <1>3, <3>1 DEF HeaderValues
  <2>5. phase' = "check" /\ manifest'.driver = "internet"
    BY DEF Inject
  <2> QED BY <2>1, <2>2, <2>3, <2>4, <2>5 DEF Attached
<1>6. sent = {} /\ Counted'
  BY DEF Inject, Counted
<1>7. HopIsSound' /\ EveryHopIsAllowed' /\ CredentialNeverStrays' /\ NoGuestHeader'
  BY <1>6 DEF Inject, HopIsSound, EveryHopIsAllowed, CredentialNeverStrays, NoGuestHeader
<1>8. Named'
  <2>1. reply.status \notin {"ok", "transient"}
    BY DEF Inject, Named, Replied, NoReply
  <2> QED BY <1>1, <2>1 DEF Inject, Named, Replied, Applying
<1> QED BY <1>4, <1>5, <1>6, <1>7, <1>8

\* Attaching a capability keeps the invariant.
LEMMA AttachKeepsInvariant ==
    ASSUME IInv, NEW c \in manifest.capabilities, Attach(c)
    PROVE  IInv'
<1> USE DEF IInv
<1>1. applied' = {c} /\ manifest' = manifest /\ request' = request /\ phase' = "check"
  BY DEF Attach
<1>2. base' = [n \in Names |-> IF n \in HostHeaders(c) THEN "host" ELSE "none"]
  BY DEF Attach
<1>3. TypeOK'
  BY <1>1, <1>2 DEF TypeOK, Attach, Headers, Values
<1>4. Attached'
  <2>1. manifest.driver # "internet" /\ request.url = OriginUrl(c) /\ manifest \in Configured
    BY DEF Attach, TypeOK
  <2>2. MayCarry(request.url)'
    BY <1>1, <2>1, OwnOriginIsSafe DEF MayCarry, OriginUrl
  <2>3. c.domain.host = request.url.host
    BY <2>1 DEF OriginUrl
  <2>4. Bound' \subseteq Names
    BY <1>1, <2>1, CapabilitiesAreTyped DEF Bound
  <2> QED BY <1>1, <1>2, <2>1, <2>2, <2>3, <2>4 DEF Attached
<1>5. sent = {} /\ Counted'
  BY DEF Attach, Counted
<1>6. HopIsSound' /\ EveryHopIsAllowed' /\ CredentialNeverStrays' /\ NoGuestHeader'
  BY <1>5 DEF Attach, HopIsSound, EveryHopIsAllowed, CredentialNeverStrays, NoGuestHeader
<1>7. Named'
  BY DEF Attach, Named, Replied, NoReply
<1> QED BY <1>3, <1>4, <1>5, <1>6, <1>7

\* The client's own checks keep the invariant.
LEMMA DoChecksKeepsInvariant == IInv /\ DoChecks => IInv'
<1> SUFFICES ASSUME IInv, DoChecks PROVE IInv'
  OBVIOUS
<1> USE DEF IInv
<1>1. hop' = [method |-> request.method, url |-> request.url, headers |-> base]
  BY DEF DoChecks
<1>2. TypeOK'
  BY <1>1 DEF TypeOK, DoChecks, Hops, Requests
<1>3. Counted' /\ Attached'
  BY HttpAssumption DEF DoChecks, Counted, Attached, Bound, MayCarry
<1>4. HopIsSound'
  <2>1. \A n \in Names : base[n] = "host" => MayCarry(request.url)
    BY DEF Attached
  <2> QED BY <1>1, <2>1 DEF DoChecks, HopIsSound, MayCarry
<1>5. EveryHopIsAllowed' /\ CredentialNeverStrays' /\ NoGuestHeader'
  BY DEF DoChecks, EveryHopIsAllowed, CredentialNeverStrays, NoGuestHeader, Bound
<1>6. Named'
  BY DEF DoChecks, Named, Replied, Stamped, Applying
<1> QED BY <1>2, <1>3, <1>4, <1>5, <1>6

\* A hop, to whatever address its host resolves, keeps the invariant.
LEMMA SendKeepsInvariant ==
    ASSUME IInv, NEW addr \in Addresses, Send(addr)
    PROVE  IInv'
<1> USE DEF IInv
<1>1. sent' = sent \cup {[hop |-> hop, addr |-> addr]} /\ phase = "send"
  BY DEF Send
<1>2. TypeOK'
  <2>1. via' \in 0..MaxRedirects
    BY HttpAssumption DEF Send, Counted, TypeOK
  <2> QED BY <1>1, <2>1 DEF TypeOK, Send
<1>3. Counted' /\ Attached' /\ HopIsSound'
  BY DEF Send, Counted, Attached, HopIsSound, Bound, MayCarry
<1>4. EveryHopIsAllowed'
  BY <1>1 DEF Send, EveryHopIsAllowed, HopIsSound
<1>5. CredentialNeverStrays'
  <2>1. ASSUME NEW n \in Names, hop.headers[n] = "host"
        PROVE  /\ \E c \in applied : c.domain.host = hop.url.host /\ n \in HostHeaders(c)
               /\ ~InTheClear(hop.url)
    <3>1. MayCarry(hop.url) /\ base[n] = "host"
      BY <1>1, <2>1 DEF HopIsSound
    <3>2. PICK c \in applied : n \in HostHeaders(c) /\ c.domain.host = request.url.host
      BY <3>1 DEF Attached
    <3>3. AllowsPrivate(manifest) \/ hop.url.host \notin Bracketed
      BY DEF Send
    <3> QED BY <3>1, <3>2, <3>3 DEF MayCarry
  <2> QED BY <1>1, <2>1 DEF Send, CredentialNeverStrays
<1>6. NoGuestHeader'
  <2>1. \A n \in Bound : hop.headers[n] # "guest"
    BY <1>1, AppliedIsTyped DEF HopIsSound, Attached
  <2> QED BY <1>1, <2>1 DEF Send, NoGuestHeader, Bound
<1>7. Named'
  BY DEF Send, Named, Replied, Stamped, Applying
<1> QED BY <1>2, <1>3, <1>4, <1>5, <1>6, <1>7

\* A redirect, to whatever URL, keeps the invariant.
LEMMA RedirectKeepsInvariant ==
    ASSUME IInv, NEW u \in Urls, NEW rewrites \in BOOLEAN, Redirect(u, rewrites)
    PROVE  IInv'
<1> USE DEF IInv
<1> DEFINE m == Redirected(hop.method, rewrites)
<1>1. m \in Methods
  BY HttpAssumption DEF Redirected, TypeOK, Hops
<1>2. CASE CapReached \/ ~RedirectAllowed(m, u)
  <2>1. Stamped \subseteq Secrets
    BY AppliedIsTyped
  <2>2. Finish("transient", Stamped) /\ phase = "answer"
    BY <1>2 DEF Redirect, RedirectStatus, FailureLabels
  <2>3. UNCHANGED <<manifest, request, applied, base, hop, via, sent>>
    BY <1>2 DEF Redirect
  <2> QED BY <2>1, <2>2, <2>3, FinishKeepsInvariant
<1>3. CASE ~CapReached /\ RedirectAllowed(m, u)
  <2>1. PICK h \in Carried(u) : hop' = [method |-> m, url |-> u, headers |-> h]
    BY <1>3 DEF Redirect
  <2>2. phase = "answer" /\ phase' = "send"
        /\ UNCHANGED <<manifest, request, applied, base, via, sent, reply>>
    BY <1>3 DEF Redirect
  <2>3. TypeOK'
    BY <1>1, <2>1, <2>2 DEF TypeOK, Hops, Carried
  <2>4. Counted'
    BY <1>3, <2>2, HttpAssumption DEF Counted, CapReached, TypeOK
  <2>5. Attached'
    BY <2>2 DEF Attached, Bound, MayCarry
  <2>6. \A n \in Names : h[n] \in {"none", base[n]}
    BY <2>1 DEF Carried
  <2>7. ASSUME NEW n \in Names, h[n] = "host" PROVE MayCarry(u)
    <3>1. base[n] = "host"
      BY <2>6, <2>7
    <3>2. PICK c \in applied : n \in HostHeaders(c)
      BY <3>1 DEF Attached
    <3>3. MayCarry(request.url)
      BY <3>2 DEF Attached
    <3>4. OriginOf(u) = OriginOf(request.url)
      <4>1. CASE n \in Bound
        BY <2>1, <2>7, <4>1 DEF Carried, LeavesOrigin
      <4>2. CASE n \notin Bound
        <5>1. manifest.driver = "provider"
          BY <3>2, <4>2 DEF Bound
        <5>2. request.url = OriginUrl(c) /\ c \in manifest.capabilities /\ manifest \in Configured
          BY <3>2, <5>1 DEF Attached, TypeOK
        <5>3. Allowed(manifest, m, u)
          BY <1>3 DEF RedirectAllowed
        <5> QED BY <5>1, <5>2, <5>3, ProviderStaysHome
      <4> QED BY <4>1, <4>2
    <3> QED BY <3>3, <3>4 DEF MayCarry, OriginOf, InTheClear
  <2>8. HopIsSound'
    BY <1>3, <2>1, <2>2, <2>6, <2>7 DEF HopIsSound, RedirectAllowed, MayCarry
  <2>9. EveryHopIsAllowed' /\ CredentialNeverStrays' /\ NoGuestHeader'
    BY <2>2 DEF EveryHopIsAllowed, CredentialNeverStrays, NoGuestHeader, Bound
  <2>10. Named'
    BY <2>2 DEF Named, Replied, Stamped, Applying
  <2> QED BY <2>3, <2>4, <2>5, <2>8, <2>9, <2>10
<1> QED BY <1>2, <1>3

\* Every step keeps the invariant.
LEMMA NextKeepsInvariant == IInv /\ [Next]_vars => IInv'
<1> SUFFICES ASSUME IInv, [Next]_vars PROVE IInv'
  OBVIOUS
<1>1. Stamped \subseteq Secrets
  BY AppliedIsTyped DEF IInv
<1>2. CASE RefuseInTheClear
  BY <1>2, FinishKeepsInvariant DEF RefuseInTheClear
<1>3. CASE Inject
  BY <1>3, InjectKeepsInvariant
<1>4. ASSUME NEW c \in manifest.capabilities, Attach(c) PROVE IInv'
  BY <1>4, AttachKeepsInvariant
<1>5. CASE DoRefuses
  BY <1>1, <1>5, FinishKeepsInvariant DEF DoRefuses, FailureLabels
<1>6. CASE DoChecks
  BY <1>6, DoChecksKeepsInvariant
<1>7. ASSUME NEW addr \in Addresses, Send(addr) PROVE IInv'
  BY <1>7, SendKeepsInvariant
<1>8. CASE Fails
  BY <1>1, <1>8, FinishKeepsInvariant DEF Fails, FailureLabels
<1>9. CASE CallerLeaves
  BY <1>9, FinishKeepsInvariant DEF CallerLeaves
<1>10. CASE Answered
  BY <1>1, <1>10, FinishKeepsInvariant DEF Answered
<1>11. ASSUME NEW u \in Urls, NEW rewrites \in BOOLEAN, Redirect(u, rewrites) PROVE IInv'
  BY <1>11, RedirectKeepsInvariant
<1>12. CASE UNCHANGED vars
  BY <1>12 DEF vars, IInv, TypeOK, Counted, Attached, HopIsSound, EveryHopIsAllowed,
               CredentialNeverStrays, NoGuestHeader, Named, Replied, Bound, Stamped, Applying, MayCarry
<1> QED
  BY <1>2, <1>3, <1>4, <1>5, <1>6, <1>7, <1>8, <1>9, <1>10, <1>11, <1>12 DEF Next

----------------------------------------------------------------------------
\* The theorems.

\* The inductive invariant holds in every reachable state.
THEOREM Invariance == Spec => []IInv
<1>1. Init => IInv
  BY InitInvariant
<1>2. IInv /\ [Next]_vars => IInv'
  BY NextKeepsInvariant
<1> QED BY <1>1, <1>2, PTL DEF Spec

\* Every variable has its type, and no more requests are made than the redirect
\* cap allows.
THEOREM TypeCorrectness == Spec => []TypeOK
BY Invariance, PTL DEF IInv

\* Policy.Check and the dial guard hold at every hop of any chain of redirects.
THEOREM HopsAreAllowed == Spec => []EveryHopIsAllowed
BY Invariance, PTL DEF IInv

\* For every manifest that a driver configures, of any of the three, no chain of
\* redirects takes a credential to a host it is not held for or onto a wire in
\* the clear.
THEOREM CredentialsStayHome == Spec => []CredentialNeverStrays
BY Invariance, PTL DEF IInv

\* A guest's header never takes the place of the host's at the bound origin.
THEOREM HostWins == Spec => []HostHeaderWins
<1>1. IInv => HostHeaderWins
  BY DEF IInv, NoGuestHeader, HostHeaderWins
<1> QED BY <1>1, Invariance, PTL

\* A result that a credential had a part in names it.
THEOREM CredentialsAreNamed == Spec => []UsedCredentialIsNamed
<1>1. IInv => UsedCredentialIsNamed
  <2> SUFFICES ASSUME IInv, reply.status \in {"ok", "transient"}, manifest.driver # "provider",
                      NEW s \in sent
               PROVE  /\ manifest.driver = "internet" => applied = Applying
                      /\ \A c \in applied : CredentialLabels(c) \subseteq reply.labels
    BY DEF UsedCredentialIsNamed
  <2>1. phase # "inject"
    BY DEF IInv, Counted
  <2>2. \A c \in applied : CredentialLabels(c) \subseteq Stamped
    BY DEF Stamped
  <2> QED BY <2>1, <2>2 DEF IInv, Named
<1> QED BY <1>1, Invariance, PTL
----------------------------------------------------------------------------
\* The promise of every driver.

\* An answer is of a request that went out.
AnswersAreOfRequests == phase = "answer" => sent # {}

\* An end with no result, before anything was sent or after.
LEMMA FinishAnswers ==
    ASSUME IInv, NEW ls, NEW status \in {"denied", "transient", "caller", "ok"}, phase # "done",
           Finish(status, ls), UNCHANGED sent,
           status = "denied" => sent = {}, status = "ok" => sent # {}
    PROVE  Promised!Next
<1>1. reply.status = "none" /\ reply'.status = status
  BY DEF IInv, Named, Replied, NoReply, Finish
<1> USE DEF Promised!Next, Promised!Answer, Answer
<1>2. CASE status = "denied"
  BY <1>1, <1>2 DEF Promised!Refuse
<1>3. CASE status = "transient"
  BY <1>1, <1>3 DEF Promised!Fail
<1>4. CASE status = "caller"
  BY <1>1, <1>4 DEF Promised!Abandon
<1>5. CASE status = "ok"
  BY <1>1, <1>5 DEF Promised!Result
<1> QED BY <1>2, <1>3, <1>4, <1>5

\* Every step of a call is one that the promise allows, or none of its own.
LEMMA PromisedStep ==
    IInv /\ AnswersAreOfRequests /\ [Next]_vars => [Promised!Next]_(Promised!vars)
<1> SUFFICES ASSUME IInv, AnswersAreOfRequests, [Next]_vars PROVE [Promised!Next]_(Promised!vars)
  OBVIOUS
<1>1. CASE RefuseInTheClear
  BY <1>1, FinishAnswers DEF RefuseInTheClear, IInv, Counted
<1>2. CASE DoRefuses \/ Fails \/ CallerLeaves
  BY <1>2, FinishAnswers DEF DoRefuses, Fails, CallerLeaves
<1>3. CASE Answered
  BY <1>3, FinishAnswers DEF Answered, AnswersAreOfRequests
<1>4. ASSUME NEW addr \in Addresses, Send(addr) PROVE [Promised!Next]_(Promised!vars)
  <2>1. reply = NoReply /\ UNCHANGED reply /\ sent' # {}
    BY <1>4 DEF Send, IInv, Named, Replied
  <2> QED BY <2>1 DEF Promised!Next, Promised!vars, Promised!Begin, Answer, NoReply
<1>5. ASSUME NEW u \in Urls, NEW rewrites \in BOOLEAN, Redirect(u, rewrites)
      PROVE  [Promised!Next]_(Promised!vars)
  <2>1. UNCHANGED sent /\ phase = "answer" /\ (UNCHANGED reply \/ Finish("transient", FailureLabels))
    BY <1>5 DEF Redirect, RedirectStatus
  <2>2. CASE UNCHANGED reply
    BY <2>1, <2>2 DEF Promised!vars, Answer
  <2>3. CASE Finish("transient", FailureLabels)
    BY <2>1, <2>3, FinishAnswers
  <2> QED BY <2>1, <2>2, <2>3
<1>6. CASE Inject \/ DoChecks \/ (\E c \in manifest.capabilities : Attach(c)) \/ UNCHANGED vars
  BY <1>6 DEF Inject, DoChecks, Attach, vars, Promised!vars, Answer
<1> QED BY <1>1, <1>2, <1>3, <1>4, <1>5, <1>6 DEF Next

\* A network driver keeps the promise of every driver, along any chain of
\* redirects: a result is of a request that went out, a call is denied only when
\* none did, and only a caller that has left gets no outcome.
THEOREM KeepsThePromise == Spec => ImplementsDriverCall
<1>1. Init => Promised!Init /\ AnswersAreOfRequests
  BY DEF Init, Promised!Init, Answer, NoReply, AnswersAreOfRequests
<1>2. AnswersAreOfRequests /\ [Next]_vars => AnswersAreOfRequests'
  BY DEF Next, vars, RefuseInTheClear, Inject, Attach, DoRefuses, DoChecks, Send, Fails, CallerLeaves,
         Answered, Redirect, Finish, AnswersAreOfRequests
<1> QED BY <1>1, <1>2, PromisedStep, Invariance, PTL DEF Spec, ImplementsDriverCall, Promised!Spec
----------------------------------------------------------------------------
\* The methods a credential rides under.

\* A capability applies to the method of the call, which net/http only ever
\* rewrites to GET.
MethodIsTheCalls ==
    /\ \A c \in applied : request.method \in OwnMethods(c)
    /\ phase \in {"send", "answer"} => hop.method \in {request.method, "GET"}
    /\ \A s \in sent : s.hop.method \in {request.method, "GET"}

\* A credential goes out under a method that its own capability has, or under
\* the GET that net/http makes of one on a redirect: nothing else departs from
\* CredentialOnlyOnItsMethods.
THEOREM CredentialsKeepTheirMethod ==
    Spec => [](\A s \in sent, n \in Names :
                   s.hop.headers[n] = "host" =>
                       \E c \in applied :
                           /\ c.domain.host = s.hop.url.host /\ n \in HostHeaders(c)
                           /\ request.method \in OwnMethods(c)
                           /\ s.hop.method \in {request.method, "GET"})
<1>1. Init => MethodIsTheCalls
  BY DEF Init, MethodIsTheCalls
<1>2. IInv /\ MethodIsTheCalls /\ [Next]_vars => MethodIsTheCalls'
  <2> SUFFICES ASSUME IInv, MethodIsTheCalls, [Next]_vars PROVE MethodIsTheCalls'
    OBVIOUS
  <2>1. CASE Inject
    <3>1. \A c \in Applying : request.method \in OwnMethods(c)
      BY DEF Applying, OwnMethods, IInv, TypeOK, Requests
    <3> QED BY <2>1, <3>1 DEF Inject, MethodIsTheCalls
  <2>2. ASSUME NEW c \in manifest.capabilities, Attach(c) PROVE MethodIsTheCalls'
    BY <2>2 DEF Attach, MethodIsTheCalls
  <2>3. CASE DoChecks
    BY <2>3 DEF DoChecks, MethodIsTheCalls
  <2>4. ASSUME NEW addr \in Addresses, Send(addr) PROVE MethodIsTheCalls'
    BY <2>4 DEF Send, MethodIsTheCalls
  <2>5. ASSUME NEW u \in Urls, NEW rewrites \in BOOLEAN, Redirect(u, rewrites)
        PROVE  MethodIsTheCalls'
    BY <2>5 DEF Redirect, Redirected, Finish, MethodIsTheCalls
  <2>6. CASE RefuseInTheClear \/ DoRefuses \/ Fails \/ CallerLeaves \/ Answered
    BY <2>6 DEF RefuseInTheClear, DoRefuses, Fails, CallerLeaves, Answered, Finish, MethodIsTheCalls
  <2>7. CASE UNCHANGED vars
    BY <2>7 DEF vars, MethodIsTheCalls
  <2> QED BY <2>1, <2>2, <2>3, <2>4, <2>5, <2>6, <2>7 DEF Next
<1>3. IInv /\ MethodIsTheCalls
        => \A s \in sent, n \in Names :
               s.hop.headers[n] = "host" =>
                   \E c \in applied :
                       /\ c.domain.host = s.hop.url.host /\ n \in HostHeaders(c)
                       /\ request.method \in OwnMethods(c)
                       /\ s.hop.method \in {request.method, "GET"}
  BY DEF IInv, CredentialNeverStrays, MethodIsTheCalls
<1> QED BY <1>1, <1>2, <1>3, Invariance, PTL DEF Spec
----------------------------------------------------------------------------
\* How long a call can last.

\* The steps that a phase has ahead of it, if nothing is redirected.
Ahead == [inject |-> 4, check |-> 3, answer |-> 2, send |-> 1, done |-> 0]

\* The steps a call has ahead of it at most.
Rank == 2 * (MaxRedirects - via) + Ahead[phase]

\* A call is never more steps from its end than its redirects account for, and
\* comes nearer with each step, whatever the servers answer.
THEOREM CallsAreBounded == Spec => [](Rank \in 0..(2 * MaxRedirects + 4)) /\ [][Rank' < Rank]_vars
<1>1. IInv => MaxRedirects \in Nat /\ via \in 0..MaxRedirects /\ Ahead[phase] \in 0..4
  BY HttpAssumption DEF IInv, TypeOK, Ahead
<1>2. IInv => Rank \in 0..(2 * MaxRedirects + 4)
  BY <1>1 DEF Rank
<1>3. IInv /\ [Next]_vars => [Rank' < Rank]_vars
  <2> SUFFICES ASSUME IInv, Next PROVE Rank' < Rank
    OBVIOUS
  <2>1. MaxRedirects \in Nat /\ via \in 0..MaxRedirects /\ Ahead[phase] \in 0..4
    BY <1>1
  <2>2. ASSUME NEW addr \in Addresses, Send(addr) PROVE Rank' < Rank
    <3>1. via' = via + 1 /\ Ahead[phase] = 1 /\ Ahead[phase]' = 2
      BY <2>1, <2>2 DEF Send, Ahead
    <3> QED BY <2>1, <3>1 DEF Rank
  <2>3. ASSUME UNCHANGED via, Ahead[phase]' < Ahead[phase], Ahead[phase]' \in 0..4
        PROVE  Rank' < Rank
    BY <2>1, <2>3 DEF Rank
  <2>4. CASE RefuseInTheClear \/ DoRefuses \/ Fails \/ CallerLeaves \/ Answered
    BY <2>3, <2>4 DEF RefuseInTheClear, DoRefuses, Fails, CallerLeaves, Answered, Finish, Ahead
  <2>5. CASE Inject \/ DoChecks \/ \E c \in manifest.capabilities : Attach(c)
    BY <2>3, <2>5 DEF Inject, DoChecks, Attach, Ahead
  <2>6. ASSUME NEW u \in Urls, NEW rewrites \in BOOLEAN, Redirect(u, rewrites) PROVE Rank' < Rank
    BY <2>3, <2>6 DEF Redirect, Finish, Ahead
  <2> QED BY <2>2, <2>4, <2>5, <2>6 DEF Next
<1> QED BY <1>2, <1>3, Invariance, PTL DEF Spec
----------------------------------------------------------------------------
\* Where a provider's requests go.

\* A provider's request is to its endpoint.
EndpointIsAsked ==
    manifest.driver = "provider" => \E c \in manifest.capabilities : request.url = OriginUrl(c)

\* The provider "sends through an internet.Client allowlisted to the endpoint's
\* origin" (openaillm/client.go): no request of a provider call, and so no prompt
\* and no key, goes out to another origin, wherever its server redirects it.
THEOREM ProviderRequestsStayHome ==
    Spec => [](manifest.driver = "provider" =>
                   \A s \in sent : OriginOf(s.hop.url) = OriginOf(request.url))
<1>1. Init => EndpointIsAsked
  BY DEF Init, EndpointIsAsked, RequestsOf
<1>2. EndpointIsAsked /\ [Next]_vars => EndpointIsAsked'
  <2> SUFFICES ASSUME EndpointIsAsked, [Next]_vars PROVE EndpointIsAsked'
    OBVIOUS
  <2>1. UNCHANGED <<manifest, request>>
    BY DEF Next, vars, RefuseInTheClear, Inject, Attach, DoRefuses, DoChecks, Send, Fails, CallerLeaves,
           Answered, Redirect
  <2> QED BY <2>1 DEF EndpointIsAsked
<1>3. IInv /\ EndpointIsAsked
        => (manifest.driver = "provider" =>
                \A s \in sent : OriginOf(s.hop.url) = OriginOf(request.url))
  <2> SUFFICES ASSUME IInv, EndpointIsAsked, manifest.driver = "provider", NEW s \in sent
               PROVE  OriginOf(s.hop.url) = OriginOf(request.url)
    OBVIOUS
  <2>1. PICK c \in manifest.capabilities : request.url = OriginUrl(c)
    BY DEF EndpointIsAsked
  <2>2. manifest \in Configured /\ Allowed(manifest, s.hop.method, s.hop.url)
    BY DEF IInv, TypeOK, EveryHopIsAllowed
  <2> QED BY <2>1, <2>2, ProviderStaysHome
<1> QED BY <1>1, <1>2, <1>3, Invariance, PTL DEF Spec
=============================================================================
