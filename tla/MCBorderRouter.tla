--------------------------- MODULE MCBorderRouter ---------------------------
(***************************************************************************)
(* An instance of BorderRouter: two prefixes, aaaa::/64 and fd00::/64, two *)
(* nodes, one under each, and a host with the address the gateway uses.    *)
(***************************************************************************)
EXTENDS BorderRouter

MCTwo == {"0000", "hex", "aaaa", "fd00"}
MCSix == {"0000", "hex", "aaaa::", "fd00::"}
MCRest == {"0000", "hex", "::n1", "::n2", "::1"}
MCPrefix == {<<"aaaa::", "0000">>, <<"fd00::", "0000">>}
MCNode == {<<"aaaa", "::n1">>, <<"fd00", "::n2">>}
MCHost == {<<"aaaa", "::1">>}
=============================================================================
