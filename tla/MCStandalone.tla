---------------------------- MODULE MCStandalone ----------------------------
(***************************************************************************)
(* Components that share no state: a behaviour is one of any single of     *)
(* them, which `focus' chooses, and the others rest.                       *)
(***************************************************************************)
EXTENDS Pagination, S3Folder, IpBan, CacheKey

VARIABLE focus

allVars == <<walkVars, vars, banVars, responses, focus>>

-----------------------------------------------------------------------------
(* Requests of a route with two query parameters, one header to vary by and *)
(* a varyBy, with values made to look like the rest of a key.               *)

Number(t) == [is |-> "number", text |-> t]

String(t) == [is |-> "string", text |-> t]

SomeTokens ==
  {Separator, Quote, Backslash, "=", "a", "b", "h", "p", "u", "x", "1", "GET", "HEAD"}

SomeQueryNames == <<"a", "b">>

QueryValues ==
  {Absent, Number(<<"1">>), String(<<"1">>),
   String(<<"1", Separator, "b", "=", "1">>),
   String(<<"1", Quote, Separator, "b", "=", Quote, "1">>),
   String(<<"1", Backslash>>)}

SomeRouteRequests ==
  [method : {"GET", "HEAD"},
   path : {<<"p">>, <<"p", Separator, "a", "=", "1">>},
   query : [{"a", "b"} -> QueryValues],
   headers : {<<[name |-> "h", text |-> t]>> : t \in {<<>>, <<"x">>}},
   varyBy : {<<>>, <<"u">>}]

-----------------------------------------------------------------------------

WalkAtRest ==
  /\ rows = {} /\ stayed = {}
  /\ cached = [c \in 1..Start |-> NoPage]
  /\ cursor = End
  /\ listed = <<>>
  /\ cut = FALSE

StandaloneInit ==
  /\ focus \in {"walk", "folder", "ban", "key"}
  /\ BanInit
  /\ CacheKeyInit
  /\ Init
  /\ focus = "folder" \/ objects = {}
  /\ \/ focus = "walk" /\ WalkInit
     \/ focus # "walk" /\ WalkAtRest

StandaloneNext ==
  \/ focus = "walk" /\ WalkNext /\ UNCHANGED <<vars, banVars, responses, focus>>
  \/ focus = "folder" /\ Next /\ UNCHANGED <<walkVars, banVars, responses, focus>>
  \/ focus = "ban" /\ BanNext /\ UNCHANGED <<walkVars, vars, responses, focus>>
  \/ focus = "key" /\ CacheKeyNext /\ UNCHANGED <<walkVars, vars, banVars, focus>>

\* Nothing that is fair is enabled in a component at rest.
StandaloneSpec ==
  /\ StandaloneInit /\ [][StandaloneNext]_allVars
  /\ WF_walkVars(Hit \/ Miss)
  /\ WF_vars(DeleteStep)
  /\ BanFairness

-----------------------------------------------------------------------------

\* Each component is type correct, at rest as well.
StandaloneTypeOK == PaginationTypeOK /\ FolderTypeOK /\ IpBanTypeOK
=============================================================================
