------------------------------- MODULE MCOutputs -------------------------------
(***************************************************************************)
(* The questions TLC asks of Outputs.                                      *)
(***************************************************************************)
EXTENDS Outputs, TLC

\* Two servers, each in some of two groups, with one of three environments or none and
\* with a client or none; the second group is called like the first one's environment,
\* and the third environment has an empty slug.
web  == <<"a">>
like == <<"env", "-", "a">>
MCFleets ==
    [{"web01", "web02"} ->
        [active : BOOLEAN, environment : {{}, {web}, {<<"g">>}, {<<>>}}, client : {{}, {web}},
         groups : SUBSET {web, like}]]

\* new_password and X-Api-Key
MCKeys == {<<"new", "_", "password">>, <<"x", "-", "api", "-", "key">>}

\* A host, its name for more hosts, and for what is skipped; and where it is.
MCAliases    == {<<"web01", {}>>, <<"web01", {"any"}>>, <<"forge", {"web01"}>>}
MCDirectives == {<<"hostname", "forge">>, <<"hostname", "address">>, <<"hostname", "unset">>,
                 <<"port", "address">>}
=============================================================================
