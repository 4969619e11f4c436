---------------------------- MODULE RadioLinkMC ----------------------------
(* Instances of RadioLink for TLC: two-byte configuration words.           *)
EXTENDS RadioLink

\* The bytes of the two words differ in every position, so a mixture shows.
MCTwoWords == {<<0, 1>>, <<1, 0>>}
MCOneWord == {<<0, 1>>}

\* The bytes of the count, most significant first.
MCPlace == [i \in 1..W |-> ByteBase ^ (W - i)]

=============================================================================
