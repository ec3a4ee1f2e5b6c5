-------------------------- MODULE MCClientConsole --------------------------
(***************************************************************************)
(* Small instances of ClientConsole for TLC: two acceptable forms, and for *)
(* every check of build_client_metadata forms that fail it alone.          *)
(***************************************************************************)
EXTENDS ClientConsole, TLC

Good == [client_name |-> "name", client_uri |-> "", redirect_uris |-> {"absolute"},
         grant_types |-> {"authorization_code"}, response_types |-> {"code"},
         scope |-> {"openid"}, method |-> "client_secret_basic"]

MCForms ==
    { Good,
      [Good EXCEPT !.method = "none"],
      [Good EXCEPT !.client_name = ""],
      [Good EXCEPT !.client_uri = "relative"],
      [Good EXCEPT !.redirect_uris = {}],
      [Good EXCEPT !.redirect_uris = {"absolute", "relative"}],
      [Good EXCEPT !.grant_types = {}],
      [Good EXCEPT !.grant_types = {"refresh_token"}],
      [Good EXCEPT !.grant_types = {"authorization_code", "other"}],
      [Good EXCEPT !.response_types = {}],
      [Good EXCEPT !.response_types = {"code", "other"}],
      [Good EXCEPT !.scope = {}],
      [Good EXCEPT !.scope = {"openid", "other"}],
      [Good EXCEPT !.method = "other"] }

Symmetry ==
    Permutations(Clients) \cup Permutations(Pages) \cup Permutations(Secrets)
      \cup Permutations(Requests)
=============================================================================
