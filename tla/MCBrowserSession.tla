-------------------------- MODULE MCBrowserSession --------------------------
(***************************************************************************)
(* Small instance of BrowserSession for TLC: two tabs, which are           *)
(* interchangeable, two registered clients and an unregistered one.        *)
(***************************************************************************)
EXTENDS BrowserSession, TLC

MCRegistered == [spa |-> {"https://spa/cb"}, tool |-> {}]

\* A full request, one with the required parameters only, one whose redirect
\* is not registered, and one whose challenge is of the `plain' method.
MCAuthorizeRequests ==
  {[response_type |-> "code", client_id |-> "spa", redirect_uri |-> "https://spa/cb",
    scope |-> "openid email", code_challenge |-> "c1",
    code_challenge_method |-> "S256", nonce |-> "n1"],
   [response_type |-> "code", client_id |-> "tool", redirect_uri |-> "https://tool/cb"],
   [response_type |-> "code", client_id |-> "spa", redirect_uri |-> "https://tool/cb"],
   [response_type |-> "code", client_id |-> "tool", redirect_uri |-> "https://tool/cb",
    code_challenge |-> "c2"]}

\* An AuthnRequest for the Redirect binding signed with its RelayState, and one
\* for the POST binding signed in its XML.
MCSamlRequests ==
  {[id |-> "q1", acs |-> "https://sp/acs", deflated |-> TRUE, xmlSigned |-> FALSE,
    signedFor |-> {"r1"}],
   [id |-> "q2", acs |-> "", deflated |-> FALSE, xmlSigned |-> TRUE, signedFor |-> {}]}

\* An installation: its profile and settings, what its users do, and the bound
\* on the requests they send.
Installed(profile, pkce, strict, signed, visits, n) ==
  [profile |-> profile, requirePkce |-> pkce, strict |-> strict,
   wantSigned |-> signed = "always", mayRequire |-> signed = "later",
   clerk |-> "clerk" \in visits, plain |-> TRUE, visits |-> visits,
   maxExchanges |-> n]

\* The same, visited by queries that do not name their parameters plainly.
Loosely(d) == [d EXCEPT !.plain = FALSE]

MCDeployments ==
  {Installed("dev", FALSE, FALSE, "no", {"authorize"}, 5),
   Installed("dev", FALSE, FALSE, "always", {"authorize", "saml"}, 3),
   Installed("dev", FALSE, FALSE, "no", {"authorize", "form"}, 4),
   Installed("oauth21", FALSE, FALSE, "no", {"authorize", "form"}, 4),
   Installed("stricter-dev", TRUE, FALSE, "no", {"authorize", "logout"}, 4),
   Installed("dev", FALSE, FALSE, "no", {"authorize", "admin", "logout"}, 4),
   Installed("dev", FALSE, TRUE, "no", {"saml", "logout"}, 3),
   Installed("dev", FALSE, FALSE, "always", {"saml"}, 4),
   Loosely(Installed("dev", FALSE, FALSE, "always", {"saml"}, 3)),
   Installed("dev", FALSE, TRUE, "later", {"saml"}, 3),
   Installed("dev", FALSE, FALSE, "no", {"saml", "admin", "clerk", "logout"}, 3)}

Interchangeable == Permutations(Tabs)
=============================================================================
