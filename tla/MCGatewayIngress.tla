-------------------------- MODULE MCGatewayIngress --------------------------
(***************************************************************************)
(* GatewayIngress for TLC: one sender who is linked at the start and one   *)
(* who is not, both of whom may get hold of the one code.                  *)
(***************************************************************************)
EXTENDS GatewayIngress

CONSTANTS s1, s2, k1

Message(s, kind, c) == [subject |-> s, kind |-> kind, code |-> c]

MCContents ==
    {Message(s1, "file", None), Message(s1, "link", k1),
     Message(s2, "text", None), Message(s2, "link", k1)}

=============================================================================
