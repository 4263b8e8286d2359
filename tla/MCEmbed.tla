------------------------------ MODULE MCEmbed ------------------------------
(* Embed over grammars that put every escape beside every other.             *)
EXTENDS Embed

MCGrammars ==
    {<<"x">>, <<"tick">>, <<"qq">>, <<"crlf", "x">>, <<"bs", "tick">>, <<"tick", "tick">>,
     <<"$", "{">>, <<"bs", "$", "{">>, <<"$", "bs", "{">>, <<"tick", "$", "{", "bs">>,
     <<"qq", "#">>, <<"bs", "qq", "#", "x">>}
=============================================================================
