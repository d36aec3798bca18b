---------------------------- MODULE MCHttpClient ----------------------------
(* Small instances of HttpClient for TLC. *)
EXTENDS HttpClient, TLC

CONSTANTS readCred, writeCred

U(scheme, host, user) == [scheme |-> scheme, host |-> host, user |-> user]

\* The bound host over TLS and in the clear, another allowlisted host, a
\* loopback service and literal, a host that is not allowlisted, URL credentials
\* and a scheme that is no HTTP.
MCUrls == {U("https", "api", FALSE), U("http", "api", FALSE), U("https", "mirror", FALSE),
           U("http", "localhost", FALSE), U("http", "[::1]", FALSE), U("https", "elsewhere", FALSE),
           U("https", "api", TRUE), U("ftp", "mirror", FALSE)}

MCMethods == {"GET", "POST"}
MCNames == {"Authorization", "X-Key", "Host"}
MCGuestNames == {"Authorization", "authorization"}
MCCanonical == ("Authorization" :> "Authorization") @@ ("authorization" :> "Authorization")
                   @@ ("x-key" :> "X-Key") @@ ("host" :> "Host")

D(scheme, host) == [any |-> FALSE, scheme |-> scheme, host |-> host, bare |-> TRUE]
Anywhere == [any |-> TRUE, scheme |-> "", host |-> "*", bare |-> TRUE]
C(methods, domain, inject) == [methods |-> methods, domain |-> domain, inject |-> inject]
None == [n \in {} |-> readCred]
Read == "authorization" :> readCred
Write == "x-key" :> writeCred
Key == "Authorization" :> readCred
M(driver, capabilities, private) ==
    [driver |-> driver, capabilities |-> capabilities, private |-> private,
     insecure |-> FALSE, keyless |-> FALSE]

\* A credential for reads and writes at the API, a second header for writes
\* alone, and one for the loopback service; reads in the clear, anything at the
\* mirror.
Wide == {C({"GET", "POST"}, D("", "api"), Read), C({"POST"}, D("https", "api"), Write),
         C({"GET"}, D("http", "api"), None), C({"GET", "POST"}, D("", "mirror"), None),
         C({"GET"}, D("http", "localhost"), Write)}
Internet ==
    {M("internet", Wide, FALSE),
     M("internet", {C({"GET"}, Anywhere, None), C({"GET", "POST"}, D("", "api"), Read)}, TRUE)}

\* Two operations at the API and one at the mirror, each with its own
\* credential; one at a loopback service.
Template ==
    {M("template", {C({"GET"}, D("https", "api"), Read), C({"POST"}, D("https", "api"), Write),
                    C({"GET"}, D("", "mirror"), Write)}, FALSE),
     M("template", {C({"POST"}, D("http", "localhost"), Key), C({"GET"}, D("", "api"), None)}, TRUE)}

P(domain, inject, keyless) ==
    [M("provider", {C({"*"}, domain, inject)}, FALSE) EXCEPT !.insecure = TRUE, !.keyless = keyless]
Provider ==
    {P(D("https", "api"), Key, FALSE), P(D("http", "localhost"), Key, FALSE),
     P(D("http", "[::1]"), Key, FALSE), P(D("https", "mirror"), None, TRUE)}

\* What no driver configures: a credential for any host, in the clear, for a
\* name of the transport's, or one that the host does not hold; a method or an
\* origin left open; an endpoint in the clear; no key.
Unsound ==
    {M("internet", {C({"GET"}, Anywhere, Read)}, FALSE),
     M("internet", {C({"GET"}, D("http", "api"), Read)}, FALSE),
     M("internet", {C({"GET"}, D("", "api"), "host" :> readCred)}, FALSE),
     M("internet", {C({"GET"}, D("", "api"), "x-key" :> "missing")}, FALSE),
     M("internet", {C({"*"}, D("", "api"), None)}, FALSE),
     M("internet", {C({"GET"}, D("ftp", "mirror"), None)}, FALSE),
     M("template", {C({"GET"}, D("http", "api"), None)}, FALSE),
     M("template", {C({"GET"}, Anywhere, None)}, FALSE),
     P(D("http", "api"), Key, FALSE), P(D("https", "api"), None, FALSE),
     [P(D("http", "localhost"), Key, FALSE) EXCEPT !.insecure = FALSE]}

MCManifests == Internet \cup Template \cup Provider \cup Unsound
=============================================================================
