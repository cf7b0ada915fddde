--------------------------- MODULE MCTokenClaims ---------------------------
(***************************************************************************)
(* Small instance of TokenClaims for TLC: one user, who may have an        *)
(* attribute named like a protocol claim, one client, whose additional     *)
(* audience may become the resource audience.                              *)
(***************************************************************************)
EXTENDS TokenClaims

Plain == [email |-> {"alice@example.org"}, roles |-> {"user"}, tenant |-> {"default"},
          groups |-> {}, identity_class |-> {}, entitlements |-> {},
          attributes |-> << >>]

Rich == [Plain EXCEPT !.groups = {"staff"}, !.identity_class = {"INTERNAL"},
                      !.attributes = [aud |-> {"elsewhere"}, department |-> {"it"}]]

\* Whether the profile is a strict one, the client's additional audience, and
\* the bounds: long chains of refreshes, or many edits.
Installed(strict, auds, i, e) ==
  [audience |-> "default", strict |-> strict, additional |-> [spa |-> auds],
   issues |-> i, edits |-> e]

MCInstallations ==
  {Installed(TRUE, {"api"}, 2, 1), Installed(FALSE, {}, 2, 0),
   Installed(TRUE, {}, 3, 0), Installed(FALSE, {"api", "default"}, 1, 2)}

MCProfiles == {Plain, Rich}
MCScopes == {{}, {"openid"}, {"openid", "email"}}
MCClaimRequests == {{}, {"email", "aud", "department", "groups"}}

\* Nothing; claims that state the grant; marks of an ID token with a subject and
\* a jti of their own; a refresh marker with a time of the caller's own.
MCExtras ==
  {<< >>,
   [scope |-> {"openid", "email"}, req_userinfo_claims |-> {"email"}],
   [token_use |-> {"id"}, sub |-> {"nobody"}, jti |-> {0}],
   [token_type |-> {"refresh"}, auth_time |-> {7}]}
=============================================================================
