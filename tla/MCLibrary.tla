----------------------------- MODULE MCLibrary -----------------------------
(***************************************************************************)
(* Instances of Library for TLC.                                           *)
(***************************************************************************)
EXTENDS Library, TLC

CONSTANTS t, i1, i2, s1, s2

Threads   == {t}
Instances == {i1, i2}
Servers   == {s1, s2}

Entries == {"Start", "Stop", "GenerateConfig"}
StartRequests == {StartRequestOf("content"), StartRequestOf("none")}

\* The entries of a VM that offers a sequence of symbols.
Offers(names) == [i \in DOMAIN names |-> [name |-> names[i], function |-> "vm"]]

\* A VM of the version, with more symbols than the library knows and in another
\* order; one of a lower minor version; one of another major version.
CurrentVM == [major |-> 2, functions |->
                Offers(<<"Dart_New", "Dart_IsNull", "Dart_PostInteger", "Dart_PostCObject", "Dart_Post">>)]
OlderVM   == [major |-> 2, functions |-> Offers(<<"Dart_PostCObject", "Dart_PostCObject">>)]
OtherVM   == [major |-> 1, functions |-> Offers(<<"Dart_PostCObject">>)]

DartVMs == {CurrentVM, OlderVM, OtherVM}
OneVM   == {CurrentVM}

AllHosts    == {"dart", "exports"}
ExportsOnly == {"exports"}

Slots == Permutations(Instances) \cup Permutations(Servers)
=============================================================================
