---------------------------- MODULE MCBuildCache ----------------------------
(***************************************************************************)
(* Builds of a source with two versions: the first includes both names,    *)
(* the second, which gives a warning, only "std".  "std" is looked for     *)
(* beside the source (h1), then, when $BAA_HOME is set, under it (h2);     *)
(* "home" is written as the path of h2.                                    *)
(***************************************************************************)
EXTENDS BuildCache

MCPlaces == [e \in Env |-> [k \in Key |-> [n \in Name |->
    IF n = "home" THEN <<"h2">> ELSE IF e = "set" THEN <<"h1", "h2">> ELSE <<"h1">>]]]
MCConfig ==
    {[env |-> "set", key |-> k, werror |-> FALSE] : k \in Key}
    \cup {[env |-> "unset", key |-> "O1", werror |-> w] : w \in BOOLEAN}
MCIncludes == [v \in Version |-> IF v = "v1" THEN Name ELSE {"std"}]
MCWarns == {"v2"}
=============================================================================
