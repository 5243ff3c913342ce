------------------------------ MODULE MCParser ------------------------------
(***************************************************************************)
(* Instances of Parser: every two outbounds with every options, and three  *)
(* that ask for WARP accounts, of which two run at once.                   *)
(***************************************************************************)
EXTENDS Parser, TLC

CONSTANTS c1, d1, d2, d3

OneClient    == {c1}
ThreeDevices == {d1, d2, d3}
Interchangeable == Permutations(ThreeDevices)
ThreePlaces  == 1..3

Outbound(tag, key) == [tag |-> tag, key |-> key]
Outbounds == {Outbound(tag, key) : tag \in {"t1", "t2"}, key \in {"none", "p1", "p2", "", "licence"}}

Options ==
  {NilOptions} \cup [{"p1", "p2"} -> Quality]

Doc(format, opt, outbounds) ==
  [format |-> format, opt |-> opt, outbounds |-> outbounds]

SomeOptions == [p1 |-> "good", p2 |-> "badAddress"]

AllDocuments ==
  {Doc("object", NilOptions, <<o, p>>) : o \in {o \in Outbounds : o.tag = "t1"}, p \in Outbounds}
    \cup {Doc("links", opt, <<Outbound("t1", "p1"), Outbound("t2", "p2")>>) : opt \in Options}
    \cup {Doc(format, SomeOptions, <<Outbound("t1", "p1")>>) :
            format \in {"object", "clash", "other", "unknown"}}
    \cup {Doc(format, NilOptions, <<>>) : format \in {"object", "bare", "clash"}}
    \cup {Doc("object", NilOptions,
              <<Outbound("t1", ""), Outbound(tag, "licence"), Outbound("t3", key)>>) :
            tag \in {"t1", "t2"}, key \in {"none", ""}}
=============================================================================
