---------------------------- MODULE MCMirrorlist ----------------------------
(* A small instance of Mirrorlist.                                         *)
EXTENDS Mirrorlist

\* A plain host; one set up by the legacy installer, with another repository
\* before or after; one with a signed section of its own; one that includes
\* every drop-in, once, twice or with a section of its own.
SmallConfs ==
    {<<"core">>, <<"core", "third">>, <<"core", "inlineTrust">>,
     <<"inlineTrust", "core">>, <<"core", "inlineTrust", "third">>,
     <<"core", "third", "inlineTrust">>, <<"inline", "third", "core">>,
     <<"core", "glob">>, <<"core", "inlineTrust", "core", "glob">>,
     <<"core", "inline", "glob">>, <<"core", "inlineTrust", "glob">>,
     <<"glob", "core", "glob">>}

=============================================================================
