----------------------------- MODULE MCNavigator -----------------------------
(* Small instances of the navigator. *)
EXTENDS NavigatorProperties

MCNames == {"1", "2", "a", "ab", "x", "y", "c"}
MCSetIds == {"1", "2"}
MCBegins == {<<n, n>> : n \in MCNames} \cup {<<"a", "ab">>}

Down(names) == [abs |-> FALSE, up |-> 0, names |-> names]
Up(names) == [abs |-> FALSE, up |-> 1, names |-> names]
Root(names) == [abs |-> TRUE, up |-> 0, names |-> names]

\* A file in a directory, and a set with one file, whose name begins with that
\* of the directory.
MCSmallCatalogue ==
  {[set |-> "1", path |-> <<"a">>], [set |-> "1", path |-> <<"a", "x">>],
   [set |-> "2", path |-> <<"ab">>]}

Small == {Down(<<"1">>), Down(<<"a">>), Root(<<"2">>)}
SmallWords == {Down(<<"a">>), Up(<<>>), Root(<<"2", "a">>)}
=============================================================================
