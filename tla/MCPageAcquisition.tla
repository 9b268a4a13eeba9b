-------------------------- MODULE MCPageAcquisition --------------------------
(* Instances of PageAcquisition: three tasks on a browser with two contexts, *)
(* two scrapes of two hosts, two keys of a rotation, two concurrent uploads. *)
EXTENDS PageAcquisition

MCMatchesPattern == [x \in PageHosts \X Domains |-> x[1] = "ok"]

MCRequests ==
    {[method |-> m, port |-> p, authority |-> "a", hosts |-> h, forwarded |-> f, body |-> FALSE] :
        m \in {"CONNECT", "GET"}, p \in {443, 22}, h \in {<<"a">>, <<>>, <<"b">>},
        f \in BOOLEAN}

(* The second ring of a rotation writes with the new key and still reads    *)
(* with the old one.                                                        *)
MCRings == <<[primary |-> "k1", keys |-> {"k1"}], [primary |-> "k2", keys |-> {"k1", "k2"}]>>
MCSiteHosts == {<<"x", "com">>, <<"a", "x", "com">>, <<"y", "com">>, <<"b", "y", "com">>}
MCAllowPatterns == {[labels |-> <<"x", "com">>, wildcard |-> TRUE],
                    [labels |-> <<"y", "com">>, wildcard |-> FALSE]}

MCSizeOf == [c \in Contents |-> IF c = "fits" THEN 2 ELSE 3]
=============================================================================
