---------------------------- MODULE RadioHostsMC ----------------------------
(* An instance of RadioHosts for TLC: two-byte configuration words. *)
EXTENDS RadioHosts

MCOneWord == {<<0, 1>>}

\* The bytes of the count, most significant first.
MCPlace == [i \in 1..W |-> ByteBase ^ (W - i)]

=============================================================================
