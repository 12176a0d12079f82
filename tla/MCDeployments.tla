--------------------------- MODULE MCDeployments ---------------------------
(* A small instance of Deployments for TLC.                                *)
EXTENDS Deployments

MCSymbols == {"a", "A", "-", "/", " ", "'", ";", "\\", ".", "r", "s", "c", "v", "why"}

(* Names with letters of both cases, a dash, a dot, a slash, a blank and a *)
(* quote.  With NameLimit = 2 the ones of three symbols are too long.      *)
MCNames(n) == SeqOf({"a", "A", "-", ".", "/", " ", "'"}, n) \ {<<>>}

(* The last one makes the answer of its refusal longer than BodyLimit = 5. *)
MCImages ==
    {NoImage, <<"a">>, <<"a", "/", "A">>, <<"a", ";">>, <<"a", "a", "a", "a", "a">>}

MCServices ==
    {[name |-> n, kind |-> k, image |-> NoImage] :
        n \in MCNames(3), k \in {"docker_compose", "dockerfile"}}
    \cup {[name |-> n, kind |-> "docker_image", image |-> i] : n \in MCNames(2), i \in MCImages}

(* Settings with any slashes at either end, dots, quotes, blanks and       *)
(* nothing; contexts that stay, come back, and climb by one or two levels. *)
MCRoots == SeqOf({"/", "r", "."}, 2) \cup {<<"'">>, <<" ", "r">>, <<"/", ".", ".">>}
MCDefaultRoot == <<"/", "r", "/", "s">>
MCDefaultContext == <<"c">>
MCContexts ==
    {<<>>, <<"/">>, <<".">>, <<"/", "c", "/">>, <<"'", "\\">>, <<".", ".">>,
     <<"c", "/", ".", ".">>, <<"c", "/", ".", ".", "/", ".", ".", "/", ".", ".", "/", "c">>}

(* A bad path or body, an unknown method, a body that is too large or of   *)
(* another type, an answer that quotes a long value, and a failure.        *)
MCRejections ==
    {[status |-> st, text |-> <<"why">>] : st \in {400, 405, 413, 415, 422}}
    \cup {[status |-> 422, text |-> <<"v", "v", "v", "v", "v", "v">>],
          [status |-> 500, text |-> <<"secret">>], [status |-> 404, text |-> NoText]}

=============================================================================
